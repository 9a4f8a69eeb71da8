-------------------------- MODULE ThreadPoolProofs --------------------------
(***************************************************************************)
(* Proofs about the thread pool (ThreadPool), for any number of workers,   *)
(* clients and tasks, any capacities and any calls: PoolSafe, what the     *)
(* pool owes its callers, and NoStranded, that no wake-up is lost.         *)
(***************************************************************************)
EXTENDS ThreadPool, FiniteSetTheorems, TLAPS

-----------------------------------------------------------------------------
(* The queues as one family.  A key is a kind and a place: the priority    *)
(* lists of the workers and, at N, of the global queue (kinds 0 to 2), the *)
(* deques (3), the external rings (4), and the global ring (5, at N).      *)

Keys == (0 .. 5) \X (0 .. N)

Queues ==
  [k \in Keys |-> IF k[1] = 5 THEN IF k[2] = N THEN ring ELSE <<>>
                  ELSE IF k[1] = 4 THEN IF k[2] \in Workers THEN ext[k[2]] ELSE <<>>
                  ELSE IF k[1] = 3 THEN IF k[2] \in Workers THEN deque[k[2]] ELSE <<>>
                  ELSE prio[k[2]][k[1]]]

\* In the queues F, where the tasks are in the states s, every entry is a
\* queued task, and no task is queued twice.
Exact(F, s) ==
  /\ \A k \in Keys : \A i \in DOMAIN F[k] : s[F[k][i]] = "queued"
  /\ \A j, k \in Keys : \A h \in DOMAIN F[j], i \in DOMAIN F[k] :
       F[j][h] = F[k][i] => j = k /\ h = i

PushAt(F, k, t) == [F EXCEPT ![k] = Append(@, t)]
TailAt(F, k) == [F EXCEPT ![k] = Tail(@)]
Last(s) == s[Len(s)]
Front(s) == SubSeq(s, 1, Len(s) - 1)
FrontAt(F, k) == [F EXCEPT ![k] = Front(@)]
Set(s, t, v) == [s EXCEPT ![t] = v]

TaskStates == {"new", "counted", "queued", "running", "done", "refused"}
Active == {"counted", "queued", "running"}

LEMMA PushExact ==
  ASSUME NEW F \in [Keys -> Seq(Tasks)], NEW s \in [Tasks -> TaskStates],
         NEW k \in Keys, NEW t \in Tasks, Exact(F, s), s[t] # "queued"
  PROVE  /\ Exact(PushAt(F, k, t), Set(s, t, "queued"))
         /\ PushAt(F, k, t) \in [Keys -> Seq(Tasks)]
<1> DEFINE G == PushAt(F, k, t)
<1> DEFINE r == Set(s, t, "queued")
<1>1. \A j \in Keys : j # k => G[j] = F[j]
  BY Zenon DEF PushAt
<1>2. /\ G[k] = Append(F[k], t) /\ DOMAIN G[k] = 1 .. Len(F[k]) + 1
      /\ DOMAIN F[k] = 1 .. Len(F[k]) /\ Len(F[k]) \in Nat
      /\ \A i \in 1 .. Len(F[k]) : G[k][i] = F[k][i]
      /\ G[k][Len(F[k]) + 1] = t
  BY DEF PushAt
<1>3. \A j \in Keys : \A i \in DOMAIN F[j] : F[j][i] \in Tasks /\ F[j][i] # t
  BY DEF Exact
<1>4. r[t] = "queued" /\ \A u \in Tasks : u # t => r[u] = s[u]
  BY Zenon DEF Set
<1> HIDE DEF G, r
<1> DEFINE Is(j, i) == \/ j = k /\ i = Len(F[k]) + 1 /\ G[j][i] = t
                       \/ i \in DOMAIN F[j] /\ G[j][i] = F[j][i]
<1>5. ASSUME NEW j \in Keys, NEW i \in DOMAIN G[j]
      PROVE  Is(j, i)
  <2>1. CASE j # k
    BY Zenon, <1>1, <2>1
  <2>2. CASE j = k
    <3>1. i \in 1 .. Len(F[k]) \/ i = Len(F[k]) + 1
      BY <1>2, <1>5, <2>2
    <3> QED
      BY Zenon, <1>2, <2>2, <3>1
  <2> QED
    BY Zenon, <2>1, <2>2
<1>6. ASSUME NEW j \in Keys, NEW i \in DOMAIN G[j]
      PROVE  r[G[j][i]] = "queued"
  <2>1. Is(j, i)
    BY Zenon, <1>5, <1>6
  <2>2. CASE i \in DOMAIN F[j] /\ G[j][i] = F[j][i]
    <3>1. F[j][i] \in Tasks /\ F[j][i] # t /\ s[F[j][i]] = "queued"
      BY Zenon, <1>3, <2>2 DEF Exact
    <3> QED
      BY Zenon, <1>4, <2>2, <3>1
  <2> QED
    BY Zenon, <1>4, <2>1, <2>2
<1>7. ASSUME NEW j \in Keys, NEW l \in Keys, NEW h \in DOMAIN G[j], NEW i \in DOMAIN G[l],
             G[j][h] = G[l][i]
      PROVE  j = l /\ h = i
  <2>1. Is(j, h) /\ Is(l, i)
    BY Zenon, <1>5, <1>7
  <2>2. CASE h \in DOMAIN F[j] /\ G[j][h] = F[j][h] /\ i \in DOMAIN F[l] /\ G[l][i] = F[l][i]
    <3>1. F[j][h] = F[l][i]
      BY Zenon, <1>7, <2>2
    <3>2. \A a \in DOMAIN F[j], b \in DOMAIN F[l] : F[j][a] = F[l][b] => j = l /\ a = b
      BY Zenon DEF Exact
    <3> QED
      BY Zenon, <2>2, <3>1, <3>2
  <2>3. CASE G[j][h] = t \/ G[l][i] = t
    <3>1. G[j][h] = t /\ G[l][i] = t
      BY Zenon, <1>7, <2>3
    <3>2. ASSUME NEW m \in Keys, NEW e, Is(m, e), G[m][e] = t
          PROVE  m = k /\ e = Len(F[k]) + 1
      BY Zenon, <1>3, <3>2
    <3> HIDE DEF Is
    <3> QED
      BY <2>1, <3>1, <3>2
  <2> QED
    BY Zenon, <2>1, <2>2, <2>3
<1>8. Exact(G, r)
  BY Zenon, <1>6, <1>7 DEF Exact
<1>9. G \in [Keys -> Seq(Tasks)]
  BY DEF G, PushAt
<1> QED
  BY Zenon, <1>8, <1>9 DEF G, r

\* What a queue loses at one end is a queued task, and is in no queue any more.
LEMMA TakeExact ==
  ASSUME NEW F \in [Keys -> Seq(Tasks)], NEW s \in [Tasks -> TaskStates],
         NEW k \in Keys, NEW G \in [Keys -> Seq(Tasks)], NEW e, NEW d \in {0, 1},
         Exact(F, s), e \in DOMAIN F[k], NEW v \in TaskStates,
         \A j \in Keys : j # k => G[j] = F[j],
         \A i \in DOMAIN G[k] : i + d \in DOMAIN F[k] \ {e} /\ G[k][i] = F[k][i + d]
  PROVE  /\ F[k][e] \in Tasks /\ s[F[k][e]] = "queued"
         /\ Exact(G, Set(s, F[k][e], v))
<1> DEFINE t == F[k][e]
<1> DEFINE r == Set(s, t, v)
<1>1. t \in Tasks /\ s[t] = "queued"
  BY DEF Exact
<1>a. \A j, l \in Keys : \A h \in DOMAIN F[j], i \in DOMAIN F[l] :
        F[j][h] = F[l][i] => j = l /\ h = i
  BY Zenon DEF Exact
<1>2. \A u \in Tasks : u # t => r[u] = s[u]
  BY Zenon DEF Set
<1>3. ASSUME NEW j \in Keys, NEW i \in DOMAIN G[j]
      PROVE  \E c \in {0, 1} : i + c \in DOMAIN F[j] /\ G[j][i] = F[j][i + c]
                               /\ (c = IF j = k THEN d ELSE 0)
                               /\ (j = k => i + c # e)
  <2>1. CASE j = k
    BY Zenon, <1>3, <2>1
  <2>2. CASE j # k
    <3>1. G[j] = F[j] /\ i \in DOMAIN F[j] /\ DOMAIN F[j] = 1 .. Len(F[j]) /\ Len(F[j]) \in Nat
      BY <1>3, <2>2
    <3>2. i + 0 = i
      BY <3>1
    <3> QED
      BY Zenon, <2>2, <3>1, <3>2
  <2> QED
    BY Zenon, <2>1, <2>2
<1>4. ASSUME NEW j \in Keys, NEW i \in DOMAIN G[j]
      PROVE  i \in Int
  BY <1>4
<1> HIDE DEF t, r
<1>5. ASSUME NEW j \in Keys, NEW i \in DOMAIN G[j]
      PROVE  G[j][i] \in Tasks /\ G[j][i] # t /\ s[G[j][i]] = "queued"
  <2>1. PICK c \in {0, 1} : i + c \in DOMAIN F[j] /\ G[j][i] = F[j][i + c]
                            /\ (j = k => i + c # e)
    BY Zenon, <1>3
  <2>2. F[j][i + c] # t
    BY <2>1 DEF Exact, t
  <2> QED
    BY <2>1, <2>2 DEF Exact
<1>6. ASSUME NEW j \in Keys, NEW l \in Keys, NEW h \in DOMAIN G[j], NEW i \in DOMAIN G[l],
             G[j][h] = G[l][i]
      PROVE  j = l /\ h = i
  <2>1. PICK b \in {0, 1} : h + b \in DOMAIN F[j] /\ G[j][h] = F[j][h + b]
                            /\ b = IF j = k THEN d ELSE 0
    BY <1>3
  <2>2. PICK c \in {0, 1} : i + c \in DOMAIN F[l] /\ G[l][i] = F[l][i + c]
                            /\ c = IF l = k THEN d ELSE 0
    BY <1>3
  <2> DEFINE x == h + b
             y == i + c
  <2>3. x \in DOMAIN F[j] /\ y \in DOMAIN F[l] /\ F[j][x] = F[l][y]
    BY Zenon, <1>6, <2>1, <2>2
  <2> HIDE DEF x, y
  <2>4. j = l /\ x = y
    BY <1>a, <2>3
  <2> USE DEF x, y
  <2> QED
    BY <1>4, <2>1, <2>2, <2>4
<1>7. Exact(G, r)
  BY <1>2, <1>5, <1>6 DEF Exact
<1> QED
  BY Zenon, <1>1, <1>7 DEF t, r

LEMMA HeadExact ==
  ASSUME NEW F \in [Keys -> Seq(Tasks)], NEW s \in [Tasks -> TaskStates],
         NEW k \in Keys, NEW v \in TaskStates, Exact(F, s), F[k] # <<>>
  PROVE  /\ Head(F[k]) \in Tasks /\ s[Head(F[k])] = "queued"
         /\ Exact(TailAt(F, k), Set(s, Head(F[k]), v))
<1>1. /\ Len(F[k]) \in Nat /\ Len(F[k]) > 0 /\ DOMAIN F[k] = 1 .. Len(F[k])
      /\ Head(F[k]) = F[k][1]
  OBVIOUS
<1>2. /\ Tail(F[k]) \in Seq(Tasks) /\ DOMAIN Tail(F[k]) = 1 .. Len(F[k]) - 1
      /\ \A i \in 1 .. Len(F[k]) - 1 : Tail(F[k])[i] = F[k][i + 1]
  BY <1>1
<1>3. /\ TailAt(F, k) \in [Keys -> Seq(Tasks)] /\ TailAt(F, k)[k] = Tail(F[k])
      /\ \A j \in Keys : j # k => TailAt(F, k)[j] = F[j]
  BY Zenon, <1>2 DEF TailAt
<1>4. \A i \in DOMAIN TailAt(F, k)[k] :
        i + 1 \in DOMAIN F[k] \ {1} /\ TailAt(F, k)[k][i] = F[k][i + 1]
  BY <1>1, <1>2, <1>3
<1>5. 1 \in DOMAIN F[k]
  BY <1>1
<1> DEFINE G == TailAt(F, k)
           e == 1
           d == 1
<1>6. /\ G \in [Keys -> Seq(Tasks)] /\ d \in {0, 1} /\ e \in DOMAIN F[k]
      /\ \A j \in Keys : j # k => G[j] = F[j]
      /\ \A i \in DOMAIN G[k] : i + d \in DOMAIN F[k] \ {e} /\ G[k][i] = F[k][i + d]
  BY Zenon, <1>3, <1>4, <1>5
<1> HIDE DEF G, e, d
<1>7. F[k][e] \in Tasks /\ s[F[k][e]] = "queued" /\ Exact(G, Set(s, F[k][e], v))
  BY Zenon, <1>6, TakeExact
<1> QED
  BY Zenon, <1>1, <1>7 DEF G, e

LEMMA LastExact ==
  ASSUME NEW F \in [Keys -> Seq(Tasks)], NEW s \in [Tasks -> TaskStates],
         NEW k \in Keys, NEW v \in TaskStates, Exact(F, s), F[k] # <<>>
  PROVE  /\ Last(F[k]) \in Tasks /\ s[Last(F[k])] = "queued"
         /\ Exact(FrontAt(F, k), Set(s, Last(F[k]), v))
<1>1. /\ Len(F[k]) \in Nat /\ Len(F[k]) > 0 /\ DOMAIN F[k] = 1 .. Len(F[k])
      /\ Last(F[k]) = F[k][Len(F[k])]
  BY DEF Last
<1>2. /\ Front(F[k]) \in Seq(Tasks) /\ DOMAIN Front(F[k]) = 1 .. Len(F[k]) - 1
      /\ \A i \in 1 .. Len(F[k]) - 1 : Front(F[k])[i] = F[k][i]
  BY <1>1 DEF Front
<1>3. /\ FrontAt(F, k) \in [Keys -> Seq(Tasks)] /\ FrontAt(F, k)[k] = Front(F[k])
      /\ \A j \in Keys : j # k => FrontAt(F, k)[j] = F[j]
  BY Zenon, <1>2 DEF FrontAt
<1>4. \A i \in DOMAIN FrontAt(F, k)[k] :
        i + 0 \in DOMAIN F[k] \ {Len(F[k])} /\ FrontAt(F, k)[k][i] = F[k][i + 0]
  BY <1>1, <1>2, <1>3
<1>5. Len(F[k]) \in DOMAIN F[k]
  BY <1>1
<1> DEFINE G == FrontAt(F, k)
           e == Len(F[k])
           d == 0
<1>6. /\ G \in [Keys -> Seq(Tasks)] /\ d \in {0, 1} /\ e \in DOMAIN F[k]
      /\ \A j \in Keys : j # k => G[j] = F[j]
      /\ \A i \in DOMAIN G[k] : i + d \in DOMAIN F[k] \ {e} /\ G[k][i] = F[k][i + d]
  BY Zenon, <1>3, <1>4, <1>5
<1> HIDE DEF G, e, d
<1>7. F[k][e] \in Tasks /\ s[F[k][e]] = "queued" /\ Exact(G, Set(s, F[k][e], v))
  BY Zenon, <1>6, TakeExact
<1> QED
  BY Zenon, <1>1, <1>7 DEF G, e

\* A task that is in no queue may change its state.
LEMMA OtherExact ==
  ASSUME NEW F \in [Keys -> Seq(Tasks)], NEW s \in [Tasks -> TaskStates],
         NEW t \in Tasks, NEW v \in TaskStates, Exact(F, s), s[t] # "queued"
  PROVE  Exact(F, Set(s, t, v))
<1>1. \A k \in Keys : \A i \in DOMAIN F[k] : F[k][i] \in Tasks /\ F[k][i] # t
  BY DEF Exact
<1> QED
  BY Zenon, <1>1 DEF Exact, Set

-----------------------------------------------------------------------------
(* Counting: pending_tasks is the number of tasks that are counted and not *)
(* done, and of workers that have run a task and not yet uncounted it.     *)

WorkerLabels == {"loop", "park", "local", "prio", "ext", "ring", "steal",
                 "steal_deque", "run", "done", "idle", "read", "exit"}

Live(s) == {t \in Tasks : s[t] \in Active}
Ending(pcs) == {w \in Workers : pcs[w] = "done"}

LEMMA TasksFinite == IsFiniteSet(Tasks) /\ IsFiniteSet(Workers)
BY FS_Interval, ThreadPoolAssumption DEF Tasks, Workers

LEMMA CardsFinite ==
  ASSUME NEW s, NEW pcs
  PROVE  /\ IsFiniteSet(Live(s)) /\ IsFiniteSet(Ending(pcs))
         /\ Cardinality(Live(s)) \in Nat /\ Cardinality(Ending(pcs)) \in Nat
         /\ Cardinality(Live(s)) = 0 => Live(s) = {}
<1>1. IsFiniteSet(Tasks) /\ IsFiniteSet(Workers)
  BY Zenon, TasksFinite
<1>2. IsFiniteSet(Live(s)) /\ IsFiniteSet(Ending(pcs))
  BY Zenon, <1>1, FS_Subset DEF Live, Ending
<1> QED
  BY Zenon, <1>2, FS_CardinalityType, FS_EmptySet

\* One task changes its state.
LEMMA LiveSet ==
  ASSUME NEW s \in [Tasks -> TaskStates], NEW t \in Tasks, NEW v \in TaskStates
  PROVE  Cardinality(Live(Set(s, t, v))) =
           Cardinality(Live(s)) + (IF v \in Active THEN 1 ELSE 0)
                                - (IF s[t] \in Active THEN 1 ELSE 0)
<1>1. IsFiniteSet(Live(s)) /\ Cardinality(Live(s)) \in Nat
  BY Zenon, CardsFinite
<1>2. CASE v \in Active /\ s[t] \in Active
  <2>1. Live(Set(s, t, v)) = Live(s)
    BY Zenon, <1>2 DEF Live, Set
  <2> QED
    BY <1>1, <1>2, <2>1
<1>3. CASE v \notin Active /\ s[t] \notin Active
  <2>1. Live(Set(s, t, v)) = Live(s)
    BY Zenon, <1>3 DEF Live, Set
  <2> QED
    BY <1>1, <1>3, <2>1
<1>4. CASE v \in Active /\ s[t] \notin Active
  <2>1. Live(Set(s, t, v)) = Live(s) \cup {t} /\ t \notin Live(s)
    BY Zenon, <1>4 DEF Live, Set
  <2>2. Cardinality(Live(s) \cup {t}) = Cardinality(Live(s)) + 1
    BY Zenon, <1>1, <2>1, FS_AddElement
  <2> QED
    BY <1>1, <1>4, <2>1, <2>2
<1>5. CASE v \notin Active /\ s[t] \in Active
  <2>1. Live(Set(s, t, v)) = Live(s) \ {t} /\ t \in Live(s)
    BY Zenon, <1>5 DEF Live, Set
  <2>2. Cardinality(Live(s) \ {t}) = Cardinality(Live(s)) - 1
    BY Zenon, <1>1, <2>1, FS_RemoveElement
  <2> QED
    BY <1>1, <1>5, <2>1, <2>2
<1> QED
  BY Zenon, <1>2, <1>3, <1>4, <1>5

LEMMA LiveKept ==
  ASSUME NEW s \in [Tasks -> TaskStates], NEW t \in Tasks, NEW v \in TaskStates,
         s[t] \in Active, v \in Active
  PROVE  Cardinality(Live(Set(s, t, v))) = Cardinality(Live(s))
BY LiveSet, CardsFinite

LEMMA LiveLess ==
  ASSUME NEW s \in [Tasks -> TaskStates], NEW t \in Tasks, NEW v \in TaskStates,
         s[t] \in Active, v \notin Active
  PROVE  Cardinality(Live(Set(s, t, v))) = Cardinality(Live(s)) - 1
BY LiveSet, CardsFinite

\* One worker moves.
LEMMA EndingMore ==
  ASSUME NEW pcs \in [Workers -> WorkerLabels], NEW w \in Workers, pcs[w] # "done"
  PROVE  Cardinality(Ending(Set(pcs, w, "done"))) = Cardinality(Ending(pcs)) + 1
<1>1. IsFiniteSet(Ending(pcs)) /\ Cardinality(Ending(pcs)) \in Nat
  BY Zenon, CardsFinite
<1>2. Ending(Set(pcs, w, "done")) = Ending(pcs) \cup {w} /\ w \notin Ending(pcs)
  BY Zenon DEF Ending, Set
<1>3. Cardinality(Ending(pcs) \cup {w}) = Cardinality(Ending(pcs)) + 1
  BY Zenon, <1>1, <1>2, FS_AddElement
<1> QED
  BY Zenon, <1>2, <1>3

LEMMA EndingLess ==
  ASSUME NEW pcs \in [Workers -> WorkerLabels], NEW w \in Workers, NEW l \in WorkerLabels,
         pcs[w] = "done", l # "done"
  PROVE  Cardinality(Ending(Set(pcs, w, l))) = Cardinality(Ending(pcs)) - 1
<1>1. IsFiniteSet(Ending(pcs)) /\ Cardinality(Ending(pcs)) \in Nat
  BY Zenon, CardsFinite
<1>2. Ending(Set(pcs, w, l)) = Ending(pcs) \ {w} /\ w \in Ending(pcs)
  BY Zenon DEF Ending, Set
<1>3. Cardinality(Ending(pcs) \ {w}) = Cardinality(Ending(pcs)) - 1
  BY Zenon, <1>1, <1>2, FS_RemoveElement
<1> QED
  BY Zenon, <1>2, <1>3

-----------------------------------------------------------------------------
(* The inductive invariant.                                                *)

Submitters == Workers \cup Clients

\* A submit call that has counted its task and not yet queued it
Holding == {"local", "ring", "ext", "global"}

QueueTypes ==
  /\ ring \in Seq(Tasks) /\ ext \in [Workers -> Seq(Tasks)]
  /\ deque \in [Workers -> Seq(Tasks)]
  /\ prio \in [0 .. N -> [Levels -> Seq(Tasks)]]

\* TypeOK without pending, which CountInv bounds, and the types of the locals
\* and of the history
Types ==
  /\ running \in BOOLEAN /\ mode \in {NONE, GRACEFUL, IMMEDIATE}
  /\ paused \in BOOLEAN /\ tokens \in Nat /\ rr \in Workers
  /\ wpc \in [Workers -> WorkerLabels]
  /\ probe \in [Workers -> 0 .. N] /\ cur \in [Workers -> 0 .. MaxTasks]
  /\ st \in [Tasks -> TaskStates]
  /\ mpc \in {"idle", "pause", "resume", "stop", "stop_wake", "join", "freed"}
  /\ spc \in [Submitters -> Holding \cup {"idle", "count", "wake"}]
  /\ want \in [Submitters -> Nat] /\ batch \in [Submitters -> BOOLEAN]
  /\ mine \in [Submitters -> SUBSET Tasks] /\ stask \in [Submitters -> 0 .. MaxTasks]
  /\ next \in 1 .. MaxTasks + 1
  /\ accepted \subseteq Tasks /\ early \subseteq Tasks /\ after \in [Workers -> Nat]

\* A submit call has a task of its own, which is not in a queue yet; a worker
\* submits from inside the task it runs.
CallInv(x) ==
  /\ spc[x] \in Holding \cup {"count"} => stask[x] \in Tasks /\ stask[x] < next
  /\ spc[x] = "count" => st[stask[x]] = "new"
  /\ spc[x] \in Holding => st[stask[x]] = "counted"
  /\ spc[x] = "local" => x \in Workers
  /\ x \in Workers /\ spc[x] # "idle" => wpc[x] = "run"

OwnInv == \A x, y \in Submitters :
  x # y /\ spc[x] \in Holding \cup {"count"} /\ spc[y] \in Holding \cup {"count"}
    => stask[x] # stask[y]

FreshInv == \A t \in Tasks : t >= next => st[t] = "new"

\* A worker inside a task has a task of its own.
RunInv ==
  /\ \A w \in Workers : wpc[w] = "run" => cur[w] \in Tasks /\ st[cur[w]] = "running"
  /\ \A v, w \in Workers : v # w /\ wpc[v] = "run" /\ wpc[w] = "run" => cur[v] # cur[w]

StealInv == \A w \in Workers : wpc[w] = "steal_deque" => probe[w] < N

CountInv == pending = Cardinality(Live(st)) + Cardinality(Ending(wpc))

\* What was queued stays queued until it is run; what was counted was counted.
Taken == {"queued", "running", "done"}

HistInv ==
  /\ \A x \in Submitters : \A t \in mine[x] : st[t] \in Taken
  /\ \A t \in accepted : st[t] \in Taken
  /\ \A t \in early : st[t] # "new"

\* A worker leaves only after a shutdown was called, and leaves a graceful one
\* only when nothing was pending.
LeaveInv ==
  /\ mode = IMMEDIATE => "immediate" \in made
  /\ (\E w \in Workers : wpc[w] = "exit") => mode # NONE
  /\ GracefulFinishes

\* A worker that has begun a task since the immediate shutdown goes on to the
\* top of its loop, and there leaves.
StopInv ==
  \A w \in Workers :
    /\ after[w] <= 1
    /\ "immediate" \notin made => after[w] = 0
    /\ mode = IMMEDIATE /\ after[w] = 1 => wpc[w] \in {"run", "done", "loop", "exit"}

PoolInv ==
  /\ Types /\ QueueTypes /\ (\A x \in Submitters : CallInv(x)) /\ OwnInv /\ FreshInv
  /\ Exact(Queues, st) /\ RunInv /\ StealInv /\ CountInv /\ HistInv /\ LeaveInv /\ StopInv

LEMMA QueuesType == ASSUME QueueTypes PROVE Queues \in [Keys -> Seq(Tasks)]
<1> SUFFICES ASSUME NEW k \in Keys
             PROVE  Queues[k] \in Seq(Tasks)
  BY Zenon DEF Queues
<1>1. k[1] \in 0 .. 5 /\ k[2] \in 0 .. N /\ <<>> \in Seq(Tasks)
  BY DEF Keys
<1>2. k[1] \notin {3, 4, 5} => k[1] \in Levels
  BY <1>1 DEF Levels, NORMAL
<1> QED
  BY Zenon, <1>1, <1>2 DEF QueueTypes, Queues

LEMMA PoolInit == Init => PoolInv
<1> SUFFICES ASSUME Init
             PROVE  PoolInv
  BY Zenon
<1> USE ThreadPoolAssumption DEF Init
<1>1. Types
  <2>1. rr \in Workers /\ tokens \in Nat /\ next \in 1 .. MaxTasks + 1
    BY DEF Workers
  <2>2. /\ wpc \in [Workers -> WorkerLabels] /\ probe \in [Workers -> 0 .. N]
        /\ cur \in [Workers -> 0 .. MaxTasks] /\ after \in [Workers -> Nat]
    BY DEF WorkerLabels
  <2>3. st \in [Tasks -> TaskStates]
    BY Zenon DEF TaskStates
  <2>4. /\ want \in [Submitters -> Nat] /\ batch \in [Submitters -> BOOLEAN]
        /\ mine \in [Submitters -> SUBSET Tasks] /\ stask \in [Submitters -> 0 .. MaxTasks]
    BY DEF Submitters
  <2>5. spc \in [Submitters -> Holding \cup {"idle", "count", "wake"}]
    BY Zenon DEF Submitters
  <2>6. running \in BOOLEAN /\ mode \in {NONE, GRACEFUL, IMMEDIATE} /\ paused \in BOOLEAN
    BY Zenon
  <2> QED
    BY Zenon, <2>1, <2>2, <2>3, <2>4, <2>5, <2>6 DEF Types
<1>2. QueueTypes
  BY DEF QueueTypes
<1>3. \A x \in Submitters : CallInv(x)
  BY Zenon DEF CallInv, Submitters, Holding
<1>4. OwnInv /\ FreshInv
  BY Zenon DEF OwnInv, FreshInv, Submitters, Holding
<1>5. \A k \in Keys : Queues[k] = <<>>
  <2> SUFFICES ASSUME NEW k \in Keys
               PROVE  Queues[k] = <<>>
    BY Zenon
  <2>1. k[1] \in 0 .. 5 /\ k[2] \in 0 .. N
    BY Zenon DEF Keys
  <2>2. k[1] \notin {3, 4, 5} => k[1] \in Levels
    BY <2>1 DEF Levels, NORMAL
  <2> QED
    BY Zenon, <2>1, <2>2 DEF Queues
<1>6. Exact(Queues, st)
  BY <1>5 DEF Exact
<1>7. RunInv /\ StealInv
  BY Zenon DEF RunInv, StealInv
<1>8. CountInv
  <2>1. Live(st) = {} /\ Ending(wpc) = {}
    BY Zenon DEF Live, Ending, Active
  <2> QED
    <3>1. Cardinality(Live(st)) = 0 /\ Cardinality(Ending(wpc)) = 0
      BY Zenon, <2>1, FS_EmptySet
    <3> QED
      BY <3>1 DEF CountInv
<1>9. HistInv /\ LeaveInv /\ StopInv
  BY DEF HistInv, LeaveInv, StopInv, Submitters, NONE, IMMEDIATE, GracefulFinishes, Gone
<1> QED
  BY <1>1, <1>2, <1>3, <1>4, <1>6, <1>7, <1>8, <1>9 DEF PoolInv

-----------------------------------------------------------------------------
(* The submit functions.                                                   *)

LEMMA StartKeeps ==
  ASSUME PoolInv, NEW x \in Submitters, NEW b \in BOOLEAN, NEW n \in Nat, Start(x, b, n)
  PROVE  PoolInv'
<1> USE DEF PoolInv
<1>1. /\ spc[x] = "idle" /\ next <= MaxTasks
      /\ x \in Workers => wpc[x] = "run"
      /\ want' = [want EXCEPT ![x] = n] /\ batch' = [batch EXCEPT ![x] = b]
      /\ stask' = [stask EXCEPT ![x] = next] /\ next' = next + 1
      /\ spc' = [spc EXCEPT ![x] = "count"]
      /\ UNCHANGED <<pool, rr, pending, tokens, queues, worker, mine, control, st,
                     accepted, early, after>>
  BY Zenon DEF Start
<1>2. next \in Tasks /\ next \in Nat /\ st[next] = "new" /\ MaxTasks \in Nat
  BY <1>1, ThreadPoolAssumption DEF Types, FreshInv, Tasks
<1>3. Types'
  BY <1>1, <1>2 DEF Types, pool, worker, control, Tasks, Holding
<1>4. QueueTypes' /\ Queues' = Queues
  BY Zenon, <1>1 DEF QueueTypes, Queues, queues
<1>5. \A y \in Submitters : CallInv(y)'
  <2> TAKE y \in Submitters
  <2>1. CASE y = x
    BY <1>1, <1>2, <2>1 DEF CallInv, Types, Holding, worker
  <2>2. CASE y # x
    BY <1>1, <1>2, <2>2 DEF CallInv, Types, worker, Tasks
  <2> QED
    BY Zenon, <2>1, <2>2
<1>6. OwnInv'
  <2>1. \A y \in Submitters : y # x /\ spc[y] \in Holding \cup {"count"} => stask[y] # next
    BY <1>2 DEF CallInv, Tasks
  <2> QED
    BY Zenon, <1>1, <2>1 DEF OwnInv, Types
<1>7. FreshInv'
  BY <1>1, <1>2 DEF FreshInv, Tasks
<1>8. Exact(Queues, st)'
  BY <1>1, <1>4 DEF Exact
<1>9. RunInv' /\ StealInv' /\ CountInv'
  BY Zenon, <1>1 DEF RunInv, StealInv, CountInv, worker
<1>10. HistInv' /\ LeaveInv' /\ StopInv'
  BY Zenon, <1>1 DEF HistInv, LeaveInv, StopInv, worker, pool, control, GracefulFinishes, Gone
<1> QED
  BY Zenon, <1>3, <1>4, <1>5, <1>6, <1>7, <1>8, <1>9, <1>10

\* A step that changes the state of one task, which no other call and no worker
\* has, keeps what the invariant says of the others.
LEMMA TaskStep ==
  ASSUME Types, QueueTypes, HistInv, FreshInv, NEW t \in Tasks, NEW v \in TaskStates,
         st' = Set(st, t, v), t < next, next' \in {next, next + 1},
         v # "new", st[t] \in Taken => v \in Taken,
         UNCHANGED <<accepted, early>>,
         \A x \in Submitters : mine'[x] = mine[x] \/ (mine'[x] = mine[x] \cup {t} /\ v \in Taken)
  PROVE  HistInv' /\ FreshInv'
<1>1. st' \in [Tasks -> TaskStates] /\ st'[t] = v /\ \A u \in Tasks : u # t => st'[u] = st[u]
  BY Zenon DEF Types, Set
<1>2. \A u \in Tasks : st[u] \in Taken => st'[u] \in Taken
  BY Zenon, <1>1
<1>3. \A u \in Tasks : st[u] # "new" => st'[u] # "new"
  BY Zenon, <1>1
<1>4. HistInv'
  <2>1. \A x \in Submitters : \A u \in mine'[x] : st'[u] \in Taken
    BY <1>1, <1>2 DEF HistInv, Types
  <2>2. \A u \in accepted' : st'[u] \in Taken
    BY Zenon, <1>2 DEF HistInv, Types
  <2>3. \A u \in early' : st'[u] # "new"
    BY Zenon, <1>3 DEF HistInv, Types
  <2> QED
    BY Zenon, <2>1, <2>2, <2>3 DEF HistInv
<1>5. FreshInv'
  BY <1>1 DEF FreshInv, Types, Tasks
<1> QED
  BY Zenon, <1>4, <1>5

\* The shutdown invariants do not depend on a task that was not done.
LEMMA StaysLeft ==
  ASSUME Types, LeaveInv, StopInv, NEW t \in Tasks, NEW v \in TaskStates,
         st' = Set(st, t, v), st[t] \notin {"done", "refused"},
         UNCHANGED <<mode, made, early, after>>,
         \A w \in Workers : wpc'[w] = "exit" => wpc[w] = "exit",
         mode = IMMEDIATE => \A w \in Workers : wpc[w] \in {"run", "done", "loop", "exit"}
                                 => wpc'[w] \in {"run", "done", "loop", "exit"}
  PROVE  LeaveInv' /\ StopInv'
<1>1. \A u \in Tasks : st[u] \in {"done", "refused"} => st'[u] = st[u]
  BY Zenon DEF Set, Types
<1>2. GracefulFinishes'
  BY Zenon, <1>1 DEF LeaveInv, GracefulFinishes, Gone, Types
<1>3. LeaveInv'
  BY Zenon, <1>2 DEF LeaveInv
<1>4. StopInv'
  BY Zenon DEF StopInv, Types
<1> QED
  BY Zenon, <1>3, <1>4

LEMMA CountKeeps ==
  ASSUME PoolInv, NEW x \in Submitters, SubmitCount(x)
  PROVE  PoolInv'
<1> USE DEF PoolInv
<1> DEFINE t == stask[x]
<1> DEFINE l == IF x \in Workers THEN "local"
                ELSE IF Level(stask[x]) = NORMAL THEN "ring" ELSE "global"
<1>1. /\ spc[x] = "count" /\ pending' = pending + 1 /\ st' = Set(st, t, "counted")
      /\ spc' = [spc EXCEPT ![x] = l]
      /\ UNCHANGED <<pool, rr, tokens, queues, worker, want, batch, mine, stask,
                     control, next, accepted, early, after>>
  BY Zenon DEF SubmitCount, In, Set
<1>2. t \in Tasks /\ t < next /\ st[t] = "new"
  BY Zenon, <1>1 DEF CallInv
<1>3. l \in Holding /\ (l = "local" => x \in Workers)
  BY Zenon DEF Holding
<1> HIDE DEF l
<1>4. "counted" \in TaskStates /\ "counted" \in Active /\ "new" \notin Active
  BY Zenon DEF TaskStates, Active
<1>5. Types'
  <2>1. st' \in [Tasks -> TaskStates]
    BY Zenon, <1>1, <1>4 DEF Types, Set
  <2> QED
    BY Zenon, <1>1, <1>3, <2>1 DEF Types, pool, worker, control
<1>6. QueueTypes' /\ Queues' = Queues
  BY Zenon, <1>1 DEF QueueTypes, Queues, queues
<1>7. \A y \in Submitters : CallInv(y)'
  <2> TAKE y \in Submitters
  <2>1. CASE y = x
    BY Zenon, <1>1, <1>2, <1>3, <2>1 DEF CallInv, Types, Holding, worker, Set
  <2>2. CASE y # x
    <3>1. spc[y] \in Holding \cup {"count"} => stask[y] # t
      BY Zenon, <1>1, <2>2 DEF OwnInv
    <3> QED
      BY Zenon, <1>1, <1>2, <2>2, <3>1 DEF CallInv, Types, worker, Set
  <2> QED
    BY Zenon, <2>1, <2>2
<1>8. OwnInv'
  BY <1>1, <1>3 DEF OwnInv, Types
<1>9. HistInv' /\ FreshInv'
  BY Zenon, <1>1, <1>2, <1>4, TaskStep DEF Taken
<1>10. Exact(Queues, st)'
  BY Zenon, <1>1, <1>2, <1>4, <1>6, QueuesType, OtherExact DEF Types
<1>11. RunInv'
  BY Zenon, <1>1, <1>2 DEF RunInv, Types, worker, Set
<1>12. StealInv'
  BY Zenon, <1>1 DEF StealInv, worker
<1>13. CountInv'
  <2>1. Cardinality(Live(st')) = Cardinality(Live(st)) + 1
    BY SMTT(20), <1>1, <1>2, <1>4, LiveSet, CardsFinite DEF Types
  <2> QED
    BY SMTT(20), <1>1, <2>1, CardsFinite DEF CountInv, worker
<1>14. LeaveInv' /\ StopInv'
  BY Zenon, <1>1, <1>2, <1>4, StaysLeft DEF pool, control, worker
<1> QED
  BY Zenon, <1>5, <1>6, <1>7, <1>8, <1>9, <1>10, <1>11, <1>12, <1>13, <1>14

\* The task of a call goes into a queue.
PushStep(x) ==
  /\ spc[x] \in Holding /\ Pushed(x) /\ rr' \in Workers
  /\ \E k \in Keys : Queues' = PushAt(Queues, k, stask[x])

LEMMA PushKeeps ==
  ASSUME PoolInv, NEW x \in Submitters, PushStep(x), QueueTypes'
  PROVE  PoolInv'
<1> USE DEF PoolInv
<1> DEFINE t == stask[x]
<1> DEFINE more == want[x] > 1 /\ next <= MaxTasks /\ Level(next) = NORMAL
<1>1. /\ st' = Set(st, t, "queued")
      /\ mine' = [mine EXCEPT ![x] = @ \cup {t}]
      /\ want' = [want EXCEPT ![x] = IF more THEN @ - 1 ELSE 0]
      /\ spc' = [spc EXCEPT ![x] = IF more THEN "count" ELSE "wake"]
      /\ stask' = [stask EXCEPT ![x] = IF more THEN next ELSE 0]
      /\ next' = IF more THEN next + 1 ELSE next
      /\ UNCHANGED <<pool, pending, tokens, worker, batch, control, accepted, early, after>>
  BY Zenon DEF PushStep, Pushed, In, Set
<1>2. t \in Tasks /\ t < next /\ st[t] = "counted" /\ spc[x] \in Holding
  BY Zenon DEF PushStep, CallInv
<1>3. more => next \in Tasks /\ st[next] = "new" /\ next # t
  BY <1>2, ThreadPoolAssumption DEF Types, FreshInv, Tasks
<1>4. "queued" \in TaskStates /\ "queued" \in Active /\ "counted" \in Active
  BY Zenon DEF TaskStates, Active
<1>5. next \in Nat /\ MaxTasks \in Nat /\ (more => next + 1 \in 1 .. MaxTasks + 1)
  BY ThreadPoolAssumption DEF Types
<1> HIDE DEF more
<1>6. Types'
  <2>1. st' \in [Tasks -> TaskStates]
    BY Zenon, <1>1, <1>4 DEF Types, Set
  <2>2. want' \in [Submitters -> Nat]
    BY <1>1 DEF Types, more
  <2>3. mine' \in [Submitters -> SUBSET Tasks]
    BY Zenon, <1>1, <1>2 DEF Types
  <2>4. stask' \in [Submitters -> 0 .. MaxTasks] /\ next' \in 1 .. MaxTasks + 1
    BY <1>1, <1>3, <1>5 DEF Types, Tasks
  <2>5. spc' \in [Submitters -> Holding \cup {"idle", "count", "wake"}]
    BY Zenon, <1>1 DEF Types
  <2> QED
    BY Zenon, <1>1, <2>1, <2>2, <2>3, <2>4, <2>5 DEF Types, pool, worker, control, PushStep
<1>7. \A y \in Submitters : CallInv(y)'
  <2> TAKE y \in Submitters
  <2>1. CASE y = x
    <3>1. spc'[x] = (IF more THEN "count" ELSE "wake") /\ (more => stask'[x] = next)
      BY Zenon, <1>1 DEF Types
    <3>2. more => st'[next] = "new" /\ next < next'
      BY <1>1, <1>3, <1>5 DEF Types, Set
    <3>3. x \in Workers => wpc'[x] = "run"
      BY Zenon, <1>1, <1>2 DEF CallInv, worker, Holding
    <3> QED
      BY Zenon, <1>3, <2>1, <3>1, <3>2, <3>3 DEF CallInv, Holding
  <2>2. CASE y # x
    <3>1. spc[y] \in Holding \cup {"count"} => stask[y] # t
      BY Zenon, <1>2, <2>2 DEF OwnInv
    <3>2. spc'[y] = spc[y] /\ stask'[y] = stask[y]
      BY Zenon, <1>1, <2>2 DEF Types
    <3>3. next <= next'
      BY <1>1, <1>5
    <3>4. spc[y] \in Holding \cup {"count"} => st'[stask[y]] = st[stask[y]]
      BY Zenon, <1>1, <3>1 DEF CallInv, Types, Set
    <3>5. stask[y] \in Int
      BY DEF Types
    <3>6. spc[y] \in Holding \cup {"count"} => stask[y] < next'
      BY <1>1, <1>5, <3>3, <3>5 DEF CallInv
    <3> QED
      BY Zenon, <1>1, <3>2, <3>4, <3>6 DEF CallInv, worker
  <2> QED
    BY Zenon, <2>1, <2>2
<1>8. OwnInv'
  <2>1. \A y \in Submitters : y # x => spc'[y] = spc[y] /\ stask'[y] = stask[y]
    BY Zenon, <1>1 DEF Types
  <2>2. \A y \in Submitters : y # x /\ spc[y] \in Holding \cup {"count"} => stask[y] # next
    BY <1>5 DEF CallInv, Tasks
  <2>3. spc'[x] = (IF more THEN "count" ELSE "wake") /\ (more => stask'[x] = next)
    BY Zenon, <1>1 DEF Types
  <2>4. "wake" \notin Holding \cup {"count"}
    BY Zenon DEF Holding
  <2> QED
    BY <2>1, <2>2, <2>3, <2>4 DEF OwnInv
<1>9. HistInv' /\ FreshInv'
  <2>1. \A y \in Submitters : mine'[y] = mine[y] \/ mine'[y] = mine[y] \cup {t}
    BY Zenon, <1>1 DEF Types
  <2> QED
    BY Zenon, <1>1, <1>2, <1>4, <2>1, TaskStep DEF Taken
<1>10. Exact(Queues, st)'
  <2>1. PICK k \in Keys : Queues' = PushAt(Queues, k, t)
    BY Zenon DEF PushStep
  <2>2. Queues \in [Keys -> Seq(Tasks)]
    BY Zenon, QueuesType
  <2> QED
    BY Zenon, <1>1, <1>2, <2>1, <2>2, PushExact DEF Types
<1>11. RunInv'
  BY Zenon, <1>1, <1>2 DEF RunInv, Types, worker, Set
<1>12. StealInv'
  BY Zenon, <1>1 DEF StealInv, worker
<1>13. CountInv'
  <2>1. Cardinality(Live(st')) = Cardinality(Live(st))
    BY Zenon, <1>1, <1>2, <1>4, LiveKept DEF Types
  <2> QED
    BY Zenon, <1>1, <2>1 DEF CountInv, worker
<1>14. LeaveInv' /\ StopInv'
  BY Zenon, <1>1, <1>2, <1>4, StaysLeft DEF pool, control, worker
<1> QED
  BY Zenon, <1>6, <1>7, <1>8, <1>9, <1>10, <1>11, <1>12, <1>13, <1>14

\* A call finds a queue full and goes on to the next one.
MoveStep(x) ==
  /\ spc[x] \in Holding /\ rr' \in Workers
  /\ \E l \in Holding \ {"local"} : spc' = [spc EXCEPT ![x] = l]
  /\ UNCHANGED <<pool, pending, tokens, queues, worker, want, batch, mine, stask,
                 control, next, st, accepted, early, after>>

LEMMA MoveKeeps ==
  ASSUME PoolInv, NEW x \in Submitters, MoveStep(x)
  PROVE  PoolInv'
<1> USE DEF PoolInv
<1>1. PICK l \in Holding \ {"local"} : spc' = [spc EXCEPT ![x] = l]
  BY Zenon DEF MoveStep
<1>2. /\ spc[x] \in Holding /\ rr' \in Workers
      /\ UNCHANGED <<pool, pending, tokens, queues, worker, want, batch, mine, stask,
                     control, next, st, accepted, early, after>>
  BY Zenon DEF MoveStep
<1>3. Types'
  BY Zenon, <1>1, <1>2 DEF Types, pool, worker, control
<1>4. QueueTypes' /\ Queues' = Queues
  BY Zenon, <1>2 DEF QueueTypes, Queues, queues
<1>5. \A y \in Submitters : CallInv(y)'
  BY Zenon, <1>1, <1>2 DEF CallInv, Types, Holding, worker
<1>6. OwnInv'
  BY Zenon, <1>1, <1>2 DEF OwnInv, Types
<1>7. FreshInv' /\ Exact(Queues, st)'
  BY <1>2, <1>4 DEF FreshInv, Exact
<1>8. RunInv' /\ StealInv' /\ CountInv'
  BY Zenon, <1>2 DEF RunInv, StealInv, CountInv, worker
<1>9. HistInv' /\ LeaveInv' /\ StopInv'
  BY Zenon, <1>2 DEF HistInv, LeaveInv, StopInv, worker, pool, control, GracefulFinishes, Gone
<1> QED
  BY Zenon, <1>3, <1>4, <1>5, <1>6, <1>7, <1>8, <1>9

\* A full deque refuses the task, which is uncounted.
RefuseStep(x) ==
  /\ spc[x] = "local" /\ pending' = pending - 1 /\ In(stask[x], "refused")
  /\ spc' = [spc EXCEPT ![x] = "idle"]
  /\ stask' = [stask EXCEPT ![x] = 0] /\ want' = [want EXCEPT ![x] = 0]
  /\ UNCHANGED <<pool, rr, tokens, queues, worker, batch, mine, control, next,
                 accepted, early, after>>

LEMMA RefuseKeeps ==
  ASSUME PoolInv, NEW x \in Submitters, RefuseStep(x)
  PROVE  PoolInv'
<1> USE DEF PoolInv
<1> DEFINE t == stask[x]
<1>1. /\ spc[x] = "local" /\ pending' = pending - 1 /\ st' = Set(st, t, "refused")
      /\ spc' = [spc EXCEPT ![x] = "idle"]
      /\ stask' = [stask EXCEPT ![x] = 0] /\ want' = [want EXCEPT ![x] = 0]
      /\ UNCHANGED <<pool, rr, tokens, queues, worker, batch, mine, control, next,
                     accepted, early, after>>
  BY Zenon DEF RefuseStep, In, Set
<1>2. t \in Tasks /\ t < next /\ st[t] = "counted"
  BY Zenon, <1>1 DEF CallInv, Holding
<1>3. "refused" \in TaskStates /\ "counted" \in Active /\ "refused" \notin Active
  BY Zenon DEF TaskStates, Active
<1>4. Types'
  <2>1. st' \in [Tasks -> TaskStates]
    BY Zenon, <1>1, <1>3 DEF Types, Set
  <2>2. 0 \in 0 .. MaxTasks /\ 0 \in Nat
    BY ThreadPoolAssumption
  <2> QED
    BY Zenon, <1>1, <2>1, <2>2 DEF Types, pool, worker, control
<1>5. QueueTypes' /\ Queues' = Queues
  BY Zenon, <1>1 DEF QueueTypes, Queues, queues
<1>6. \A y \in Submitters : CallInv(y)'
  <2> TAKE y \in Submitters
  <2>1. CASE y = x
    BY Zenon, <1>1, <2>1 DEF CallInv, Types, Holding
  <2>2. CASE y # x
    <3>1. spc[y] \in Holding \cup {"count"} => stask[y] # t
      BY Zenon, <1>1, <2>2 DEF OwnInv, Holding
    <3> QED
      BY Zenon, <1>1, <1>2, <2>2, <3>1 DEF CallInv, Types, worker, Set
  <2> QED
    BY Zenon, <2>1, <2>2
<1>7. OwnInv'
  <2>1. "idle" \notin Holding \cup {"count"}
    BY Zenon DEF Holding
  <2> QED
    BY Zenon, <1>1, <2>1 DEF OwnInv, Types
<1>8. HistInv' /\ FreshInv'
  BY Zenon, <1>1, <1>2, <1>3, TaskStep DEF Taken
<1>9. Exact(Queues, st)'
  BY Zenon, <1>1, <1>2, <1>3, <1>5, QueuesType, OtherExact DEF Types
<1>10. RunInv'
  BY Zenon, <1>1, <1>2 DEF RunInv, Types, worker, Set
<1>11. StealInv'
  BY Zenon, <1>1 DEF StealInv, worker
<1>12. CountInv'
  <2>1. Cardinality(Live(st')) = Cardinality(Live(st)) - 1
    BY Zenon, <1>1, <1>2, <1>3, LiveLess DEF Types
  <2> QED
    BY <1>1, <2>1, CardsFinite DEF CountInv, worker
<1>13. LeaveInv' /\ StopInv'
  BY Zenon, <1>1, <1>2, <1>3, StaysLeft DEF pool, control, worker
<1> QED
  BY Zenon, <1>4, <1>5, <1>6, <1>7, <1>8, <1>9, <1>10, <1>11, <1>12, <1>13

LEMMA WakeKeeps ==
  ASSUME PoolInv, NEW x \in Submitters, SubmitWake(x)
  PROVE  PoolInv'
<1> USE DEF PoolInv
<1>1. /\ spc[x] = "wake" /\ tokens' = tokens + Cardinality(mine[x])
      /\ accepted' = accepted \cup mine[x]
      /\ mine' = [mine EXCEPT ![x] = {}] /\ spc' = [spc EXCEPT ![x] = "idle"]
      /\ batch' = [batch EXCEPT ![x] = FALSE]
      /\ UNCHANGED <<pool, rr, pending, queues, worker, want, stask, control,
                     next, st, early, after>>
  BY Zenon DEF SubmitWake
<1>2. Cardinality(mine[x]) \in Nat
  <2>1. IsFiniteSet(Tasks) /\ mine[x] \subseteq Tasks
    BY Zenon, TasksFinite DEF Types
  <2> QED
    BY Zenon, <2>1, FS_Subset, FS_CardinalityType
<1>3. Types'
  BY <1>1, <1>2 DEF Types, pool, worker, control
<1>4. QueueTypes' /\ Queues' = Queues
  BY Zenon, <1>1 DEF QueueTypes, Queues, queues
<1>5. \A y \in Submitters : CallInv(y)'
  BY Zenon, <1>1 DEF CallInv, Types, Holding, worker
<1>6. OwnInv'
  BY Zenon, <1>1 DEF OwnInv, Types, Holding
<1>7. FreshInv' /\ Exact(Queues, st)'
  BY <1>1, <1>4 DEF FreshInv, Exact
<1>8. RunInv' /\ StealInv' /\ CountInv'
  BY Zenon, <1>1 DEF RunInv, StealInv, CountInv, worker
<1>9. HistInv'
  BY Zenon, <1>1 DEF HistInv, Types
<1>10. LeaveInv' /\ StopInv'
  BY Zenon, <1>1 DEF LeaveInv, StopInv, worker, pool, control, GracefulFinishes, Gone
<1> QED
  BY Zenon, <1>3, <1>4, <1>5, <1>6, <1>7, <1>8, <1>9, <1>10

-----------------------------------------------------------------------------
(* The workers.                                                            *)

\* A worker moves on without a task.
WalkStep(w) ==
  /\ wpc[w] \notin {"run", "done", "exit"}
  /\ \E l \in WorkerLabels \ {"run", "done"} :
       /\ wpc' = [wpc EXCEPT ![w] = l]
       /\ l = "exit" => mode = IMMEDIATE \/ (mode = GRACEFUL /\ pending = 0)
       /\ wpc[w] = "loop" /\ mode = IMMEDIATE => l = "exit"
       /\ l = "steal_deque" => probe'[w] < N
  /\ probe' \in [Workers -> 0 .. N] /\ \A v \in Workers \ {w} : probe'[v] = probe[v]
  /\ tokens' \in Nat
  /\ UNCHANGED <<pool, rr, pending, queues, cur, submit, control, next, st, accepted,
                 early, after>>

LEMMA WalkKeeps ==
  ASSUME PoolInv, NEW w \in Workers, WalkStep(w)
  PROVE  PoolInv'
<1> USE DEF PoolInv
<1>1. PICK l \in WorkerLabels \ {"run", "done"} :
        /\ wpc' = [wpc EXCEPT ![w] = l]
        /\ l = "exit" => mode = IMMEDIATE \/ (mode = GRACEFUL /\ pending = 0)
        /\ wpc[w] = "loop" /\ mode = IMMEDIATE => l = "exit"
        /\ l = "steal_deque" => probe'[w] < N
  BY Zenon DEF WalkStep
<1>2. /\ wpc[w] \notin {"run", "done", "exit"}
      /\ probe' \in [Workers -> 0 .. N] /\ \A v \in Workers \ {w} : probe'[v] = probe[v]
      /\ tokens' \in Nat
      /\ UNCHANGED <<pool, rr, pending, queues, cur, submit, control, next, st, accepted,
                     early, after>>
  BY Zenon DEF WalkStep
<1>3. wpc'[w] = l /\ \A v \in Workers \ {w} : wpc'[v] = wpc[v]
  BY Zenon, <1>1 DEF Types
<1>4. Types'
  BY Zenon, <1>1, <1>2 DEF Types, pool, control, submit
<1>5. QueueTypes' /\ Queues' = Queues
  BY Zenon, <1>2 DEF QueueTypes, Queues, queues
<1>a. UNCHANGED <<spc, stask, next, st, cur>>
  BY Zenon, <1>2 DEF submit
<1>6. ASSUME NEW x \in Submitters PROVE CallInv(x)'
  <2>1. CallInv(x) /\ (x \in Workers /\ wpc[x] = "run" => wpc'[x] = "run")
    BY Zenon, <1>2, <1>3
  <2> QED
    BY Zenon, <1>a, <2>1 DEF CallInv
<1>7. OwnInv' /\ FreshInv' /\ Exact(Queues, st)'
  <2>1. OwnInv'
    BY Zenon, <1>a DEF OwnInv
  <2>2. FreshInv'
    BY Zenon, <1>a DEF FreshInv
  <2>3. Exact(Queues, st)'
    BY Zenon, <1>a, <1>5
  <2> QED
    BY Zenon, <2>1, <2>2, <2>3
<1>8. RunInv' /\ StealInv'
  <2>1. RunInv'
    <3>1. \A v \in Workers : wpc'[v] = "run" => wpc[v] = "run"
      BY Zenon, <1>1, <1>3
    <3> QED
      BY Zenon, <1>a, <3>1 DEF RunInv
  <2>2. StealInv'
    BY Zenon, <1>1, <1>2, <1>3 DEF StealInv
  <2> QED
    BY Zenon, <2>1, <2>2
<1>9. CountInv'
  <2>1. Ending(wpc') = Ending(wpc)
    BY Zenon, <1>1, <1>2, <1>3 DEF Ending
  <2> QED
    BY Zenon, <1>2, <2>1 DEF CountInv
<1>10. HistInv'
  BY Zenon, <1>2 DEF HistInv, submit
<1>11. LeaveInv'
  <2>1. mode' = mode /\ made' = made /\ early' = early /\ st' = st /\ pending' = pending
    BY Zenon, <1>2 DEF pool, control
  <2>2. CASE l # "exit"
    <3>1. \A v \in Workers : wpc'[v] = "exit" => wpc[v] = "exit"
      BY Zenon, <1>3, <2>2
    <3> QED
      BY Zenon, <2>1, <3>1 DEF LeaveInv, GracefulFinishes, Gone
  <2>3. CASE l = "exit" /\ mode = IMMEDIATE
    BY <2>1, <2>3 DEF LeaveInv, GracefulFinishes, NONE, IMMEDIATE
  <2>4. CASE l = "exit" /\ mode = GRACEFUL /\ pending = 0
    <3>1. Live(st) = {}
      BY <2>4, CardsFinite DEF CountInv
    <3>2. \A t \in early : st[t] \in {"done", "refused"}
      BY Zenon, <3>1 DEF HistInv, Types, Live, Active, TaskStates
    <3> QED
      BY <2>1, <2>4, <3>2 DEF LeaveInv, GracefulFinishes, NONE, GRACEFUL, IMMEDIATE
  <2> QED
    BY Zenon, <1>1, <2>2, <2>3, <2>4
<1>12. StopInv'
  BY Zenon, <1>1, <1>2, <1>3 DEF StopInv, pool, control
<1> QED
  BY Zenon, <1>4, <1>5, <1>6, <1>7, <1>8, <1>9, <1>10, <1>11, <1>12

Searching == {"local", "prio", "ext", "ring", "steal", "steal_deque"}

\* A worker takes a task from the front or the back of a queue.
TakeStep(w) ==
  /\ wpc[w] \in Searching
  /\ \E k \in Keys :
       /\ Queues[k] # <<>>
       /\ \/ Take(w, Head(Queues[k])) /\ Queues' = TailAt(Queues, k)
          \/ Take(w, Last(Queues[k])) /\ Queues' = FrontAt(Queues, k)

LEMMA TakeKeeps ==
  ASSUME PoolInv, NEW w \in Workers, TakeStep(w), QueueTypes'
  PROVE  PoolInv'
<1> USE DEF PoolInv
<1>1. PICK t : /\ Take(w, t) /\ t \in Tasks /\ st[t] = "queued"
               /\ Exact(Queues', Set(st, t, "running"))
  <2>1. PICK k \in Keys :
          /\ Queues[k] # <<>>
          /\ \/ Take(w, Head(Queues[k])) /\ Queues' = TailAt(Queues, k)
             \/ Take(w, Last(Queues[k])) /\ Queues' = FrontAt(Queues, k)
    BY Zenon DEF TakeStep
  <2>2. /\ Queues \in [Keys -> Seq(Tasks)] /\ st \in [Tasks -> TaskStates]
        /\ "running" \in TaskStates
    BY Zenon, QueuesType DEF Types, TaskStates
  <2>3. CASE Take(w, Head(Queues[k])) /\ Queues' = TailAt(Queues, k)
    BY Zenon, <2>1, <2>2, <2>3, HeadExact
  <2>4. CASE Take(w, Last(Queues[k])) /\ Queues' = FrontAt(Queues, k)
    BY Zenon, <2>1, <2>2, <2>4, LastExact
  <2> QED
    BY Zenon, <2>1, <2>3, <2>4
<1>2. /\ cur' = [cur EXCEPT ![w] = t] /\ st' = Set(st, t, "running")
      /\ wpc' = [wpc EXCEPT ![w] = "run"] /\ probe' = [probe EXCEPT ![w] = 0]
      /\ after' = [after EXCEPT ![w] = @ + (IF mode = IMMEDIATE THEN 1 ELSE 0)]
      /\ UNCHANGED <<pool, rr, pending, tokens, submit, control, next, accepted, early>>
  BY Zenon, <1>1 DEF Take, In, Set, Goto
<1>3. /\ wpc[w] \in Searching /\ wpc'[w] = "run" /\ cur'[w] = t
      /\ \A v \in Workers \ {w} : wpc'[v] = wpc[v] /\ cur'[v] = cur[v] /\ after'[v] = after[v]
  BY Zenon, <1>2 DEF Types, TakeStep
<1>4. t < next
  BY <1>1 DEF FreshInv, Types, Tasks
<1>5. /\ "running" \in TaskStates /\ "queued" \in Active /\ "running" \in Active
      /\ "run" \in WorkerLabels
  BY Zenon DEF TaskStates, Active, WorkerLabels
<1>6. Types'
  <2>1. st' \in [Tasks -> TaskStates]
    BY Zenon, <1>2, <1>5 DEF Types, Set
  <2>2. cur' \in [Workers -> 0 .. MaxTasks] /\ probe' \in [Workers -> 0 .. N]
    BY <1>1, <1>2, ThreadPoolAssumption DEF Types, Tasks
  <2>3. after' \in [Workers -> Nat]
    BY <1>2 DEF Types
  <2> QED
    BY Zenon, <1>2, <1>5, <2>1, <2>2, <2>3 DEF Types, pool, control, submit
<1>7. \A x \in Submitters : CallInv(x)'
  <2> TAKE x \in Submitters
  <2>1. spc[x] \in Holding \cup {"count"} => st'[stask[x]] = st[stask[x]]
    BY Zenon, <1>1, <1>2 DEF CallInv, Types, Set
  <2>2. x \in Workers /\ spc[x] # "idle" => wpc'[x] = "run"
    BY Zenon, <1>3 DEF CallInv
  <2> QED
    BY Zenon, <1>2, <2>1, <2>2 DEF CallInv, submit
<1>8. OwnInv'
  BY Zenon, <1>2 DEF OwnInv, submit
<1>9. HistInv' /\ FreshInv'
  BY Zenon, <1>1, <1>2, <1>4, <1>5, TaskStep DEF Taken, submit
<1>10. Exact(Queues, st)'
  BY Zenon, <1>1, <1>2
<1>11. RunInv'
  <2>1. \A v \in Workers \ {w} : wpc[v] = "run" => cur[v] # t
    BY Zenon, <1>1 DEF RunInv
  <2>2. st'[t] = "running" /\ \A v \in Workers \ {w} : wpc[v] = "run" => st'[cur[v]] = "running"
    BY Zenon, <1>1, <1>2 DEF RunInv, Types, Set
  <2> QED
    BY <1>1, <1>3, <2>1, <2>2 DEF RunInv
<1>12. StealInv'
  BY Zenon, <1>2, <1>3 DEF StealInv, Types
<1>13. CountInv'
  <2>1. Cardinality(Live(st')) = Cardinality(Live(st))
    BY Zenon, <1>1, <1>2, <1>5, LiveKept DEF Types
  <2>2. Ending(wpc') = Ending(wpc)
    BY Zenon, <1>3 DEF Ending, Searching
  <2> QED
    BY Zenon, <1>2, <2>1, <2>2 DEF CountInv
<1>14. GracefulFinishes'
  <2>1. \A u \in Tasks : st[u] \in {"done", "refused"} => st'[u] = st[u]
    BY Zenon, <1>1, <1>2 DEF Set, Types
  <2>2. \A v \in Workers : wpc'[v] = "exit" => wpc[v] = "exit"
    BY Zenon, <1>3
  <2> QED
    BY Zenon, <1>2, <2>1, <2>2 DEF LeaveInv, GracefulFinishes, Gone, Types, control
<1>15. LeaveInv'
  BY Zenon, <1>2, <1>3, <1>14 DEF LeaveInv, pool, control
<1>16. StopInv'
  <2>1. mode = IMMEDIATE => after[w] = 0
    BY <1>3 DEF StopInv, Searching, Types
  <2>2. after'[w] = after[w] + (IF mode = IMMEDIATE THEN 1 ELSE 0)
    BY Zenon, <1>2 DEF Types
  <2>3. after'[w] <= 1 /\ ("immediate" \notin made => after'[w] = 0)
    BY <2>1, <2>2 DEF StopInv, LeaveInv, Types
  <2> QED
    BY Zenon, <1>2, <1>3, <2>3 DEF StopInv, pool, control
<1> QED
  BY Zenon, <1>6, <1>7, <1>8, <1>9, <1>10, <1>11, <1>12, <1>13, <1>15, <1>16

LEMMA RunKeeps ==
  ASSUME PoolInv, NEW w \in Workers, WorkerRun(w)
  PROVE  PoolInv'
<1> USE DEF PoolInv
<1> DEFINE t == cur[w]
<1>1. /\ wpc[w] = "run" /\ spc[w] = "idle" /\ st' = Set(st, t, "done")
      /\ cur' = [cur EXCEPT ![w] = 0] /\ wpc' = Set(wpc, w, "done")
      /\ UNCHANGED <<pool, rr, pending, tokens, queues, probe, submit, control, next,
                     accepted, early, after>>
  BY Zenon DEF WorkerRun, In, Set, Goto
<1>2. t \in Tasks /\ st[t] = "running"
  BY Zenon, <1>1 DEF RunInv
<1>3. t < next
  BY <1>2 DEF FreshInv, Types, Tasks
<1>4. /\ "done" \in TaskStates /\ "running" \in Active /\ "done" \notin Active
      /\ "done" \in WorkerLabels
  BY Zenon DEF TaskStates, Active, WorkerLabels
<1>5. wpc'[w] = "done" /\ \A v \in Workers \ {w} : wpc'[v] = wpc[v] /\ cur'[v] = cur[v]
  BY Zenon, <1>1 DEF Types, Set
<1>6. Types'
  <2>1. st' \in [Tasks -> TaskStates] /\ wpc' \in [Workers -> WorkerLabels]
    BY Zenon, <1>1, <1>4 DEF Types, Set
  <2>2. cur' \in [Workers -> 0 .. MaxTasks]
    BY <1>1, ThreadPoolAssumption DEF Types
  <2> QED
    BY Zenon, <1>1, <2>1, <2>2 DEF Types, pool, control, submit
<1>7. QueueTypes' /\ Queues' = Queues
  BY Zenon, <1>1 DEF QueueTypes, Queues, queues
<1>8. \A x \in Submitters : CallInv(x)'
  <2> TAKE x \in Submitters
  <2>1. spc[x] \in Holding \cup {"count"} => st'[stask[x]] = st[stask[x]]
    BY Zenon, <1>1, <1>2 DEF CallInv, Types, Set
  <2>2. x \in Workers /\ spc[x] # "idle" => wpc'[x] = "run"
    BY <1>1, <1>5 DEF CallInv
  <2> QED
    BY Zenon, <1>1, <2>1, <2>2 DEF CallInv, submit
<1>9. OwnInv'
  BY Zenon, <1>1 DEF OwnInv, submit
<1>10. HistInv' /\ FreshInv'
  BY Zenon, <1>1, <1>2, <1>3, <1>4, TaskStep DEF Taken, submit
<1>11. Exact(Queues, st)'
  BY Zenon, <1>1, <1>2, <1>4, <1>7, QueuesType, OtherExact DEF Types
<1>12. RunInv'
  <2>1. \A v \in Workers \ {w} : wpc[v] = "run" => st'[cur[v]] = "running"
    BY Zenon, <1>1, <1>2 DEF RunInv, Types, Set
  <2> QED
    BY <1>5, <2>1 DEF RunInv
<1>13. StealInv'
  BY Zenon, <1>1, <1>5 DEF StealInv
<1>14. CountInv'
  <2>1. Cardinality(Live(st')) = Cardinality(Live(st)) - 1
    BY <1>1, <1>2, <1>4, LiveLess DEF Types
  <2>2. Cardinality(Ending(wpc')) = Cardinality(Ending(wpc)) + 1
    BY Zenon, <1>1, EndingMore DEF Types
  <2> QED
    BY <1>1, <2>1, <2>2, CardsFinite DEF CountInv
<1>15. LeaveInv' /\ StopInv'
  BY Zenon, <1>1, <1>2, <1>4, <1>5, StaysLeft DEF pool, control
<1> QED
  BY Zenon, <1>6, <1>7, <1>8, <1>9, <1>10, <1>11, <1>12, <1>13, <1>14, <1>15

LEMMA DoneKeeps ==
  ASSUME PoolInv, NEW w \in Workers, WorkerDone(w)
  PROVE  PoolInv'
<1> USE DEF PoolInv
<1>1. /\ wpc[w] = "done" /\ pending' = pending - 1 /\ wpc' = Set(wpc, w, "loop")
      /\ UNCHANGED <<pool, rr, tokens, queues, probe, cur, submit, control, next, st,
                     accepted, early, after>>
  BY Zenon DEF WorkerDone, Set, Goto
<1>2. "loop" \in WorkerLabels
  BY Zenon DEF WorkerLabels
<1>3. wpc'[w] = "loop" /\ \A v \in Workers \ {w} : wpc'[v] = wpc[v]
  BY Zenon, <1>1 DEF Types, Set
<1>4. Types'
  <2>1. wpc' \in [Workers -> WorkerLabels]
    BY Zenon, <1>1, <1>2 DEF Types, Set
  <2> QED
    BY Zenon, <1>1, <2>1 DEF Types, pool, control, submit
<1>5. QueueTypes' /\ Queues' = Queues
  BY Zenon, <1>1 DEF QueueTypes, Queues, queues
<1>6. \A x \in Submitters : CallInv(x)'
  BY Zenon, <1>1, <1>3 DEF CallInv, submit
<1>7. OwnInv' /\ FreshInv' /\ Exact(Queues, st)'
  BY <1>1, <1>5 DEF OwnInv, FreshInv, Exact, submit
<1>8. RunInv' /\ StealInv' /\ HistInv'
  BY <1>1, <1>3 DEF RunInv, StealInv, HistInv, submit
<1>9. CountInv'
  <2>1. Cardinality(Ending(wpc')) = Cardinality(Ending(wpc)) - 1
    BY Zenon, <1>1, <1>2, EndingLess DEF Types
  <2> QED
    BY <1>1, <2>1, CardsFinite DEF CountInv
<1>10. LeaveInv'
  <2>1. \A v \in Workers : wpc'[v] = "exit" => wpc[v] = "exit"
    BY Zenon, <1>3
  <2> QED
    BY Zenon, <1>1, <2>1 DEF LeaveInv, GracefulFinishes, Gone, pool, control
<1>11. StopInv'
  BY Zenon, <1>1, <1>3 DEF StopInv, pool, control
<1> QED
  BY Zenon, <1>4, <1>5, <1>6, <1>7, <1>8, <1>9, <1>10, <1>11

-----------------------------------------------------------------------------
(* The control thread.                                                     *)

\* A step of the control thread that leaves the mode alone
SteadyStep ==
  /\ running' \in BOOLEAN /\ paused' \in BOOLEAN /\ mode' = mode /\ tokens' \in Nat
  /\ mpc' \in {"idle", "pause", "resume", "stop", "stop_wake", "join", "freed"}
  /\ made' \in {made, made \cup {"pause"}}
  /\ UNCHANGED <<rr, pending, queues, worker, submit, next, st, accepted, early, after>>

LEMMA SteadyKeeps ==
  ASSUME PoolInv, SteadyStep
  PROVE  PoolInv'
<1> USE DEF PoolInv, SteadyStep
<1>1. Types'
  BY Zenon DEF Types, worker, submit
<1>2. QueueTypes' /\ Queues' = Queues
  BY Zenon DEF QueueTypes, Queues, queues
<1>3. (\A x \in Submitters : CallInv(x)') /\ OwnInv' /\ FreshInv'
  BY Zenon DEF CallInv, OwnInv, FreshInv, worker, submit
<1>4. Exact(Queues, st)'
  BY <1>2 DEF Exact
<1>5. RunInv' /\ StealInv' /\ CountInv' /\ HistInv'
  BY Zenon DEF RunInv, StealInv, CountInv, HistInv, worker, submit
<1>6. "immediate" \in made' <=> "immediate" \in made
  BY Zenon
<1>7. LeaveInv' /\ StopInv'
  BY Zenon, <1>6 DEF LeaveInv, StopInv, GracefulFinishes, Gone, worker
<1> QED
  BY Zenon, <1>1, <1>2, <1>3, <1>4, <1>5, <1>7

LEMMA ShutdownKeeps ==
  ASSUME PoolInv, NEW call \in {"graceful", "immediate", "destroy"}, PoolShutdown(call)
  PROVE  PoolInv'
<1> USE DEF PoolInv
<1>1. /\ mpc = "idle" /\ call \notin made
      /\ mode' = (IF call = "immediate" THEN IMMEDIATE ELSE GRACEFUL)
      /\ made' = made \cup {call} /\ mpc' = "stop"
      /\ early' = IF mode = NONE /\ call # "immediate" THEN Counted ELSE early
      /\ UNCHANGED <<running, paused, rr, pending, tokens, queues, worker, submit,
                     next, st, accepted, after>>
  BY Zenon DEF PoolShutdown
<1>2. Counted \subseteq Tasks /\ \A t \in Counted : st[t] # "new"
  BY Zenon DEF Counted
<1>3. Types'
  BY Zenon, <1>1, <1>2 DEF Types, worker, submit
<1>4. QueueTypes' /\ Queues' = Queues
  BY Zenon, <1>1 DEF QueueTypes, Queues, queues
<1>5. (\A x \in Submitters : CallInv(x)') /\ OwnInv' /\ FreshInv'
  BY Zenon, <1>1 DEF CallInv, OwnInv, FreshInv, worker, submit
<1>6. Exact(Queues, st)'
  BY <1>1, <1>4 DEF Exact
<1>7. RunInv' /\ StealInv' /\ CountInv'
  BY Zenon, <1>1 DEF RunInv, StealInv, CountInv, worker
<1>8. HistInv'
  BY Zenon, <1>1, <1>2 DEF HistInv, submit
<1>9. LeaveInv'
  <2>1. mode' # NONE /\ (mode' = IMMEDIATE => "immediate" \in made')
    BY <1>1 DEF NONE, GRACEFUL, IMMEDIATE
  <2>2. (\E w \in Workers : wpc[w] = "exit") => early' = early
    BY Zenon, <1>1 DEF LeaveInv
  <2>3. GracefulFinishes'
    BY Zenon, <1>1, <2>2 DEF LeaveInv, GracefulFinishes, Gone, worker
  <2> QED
    BY Zenon, <2>1, <2>3 DEF LeaveInv
<1>10. StopInv'
  BY <1>1 DEF StopInv, worker, GRACEFUL, IMMEDIATE
<1> QED
  BY Zenon, <1>3, <1>4, <1>5, <1>6, <1>7, <1>8, <1>9, <1>10

-----------------------------------------------------------------------------
(* Every step is one of these.                                             *)

LEMMA LevelType == \A t : Level(t) \in Levels
BY Zenon DEF Level, Levels, NORMAL

\* The keys of the queues
LEMMA KeyOf ==
  /\ <<5, N>> \in Keys
  /\ \A w \in Workers : <<3, w>> \in Keys /\ <<4, w>> \in Keys
  /\ \A q \in 0 .. N, l \in Levels : <<l, q>> \in Keys
BY ThreadPoolAssumption DEF Keys, Workers, Levels, NORMAL

\* A change of one queue is a change of one member of the family.
LEMMA OneQueue ==
  ASSUME QueueTypes, NEW k \in Keys, NEW s,
         Queues'[k] = s, \A j \in Keys : j # k => Queues'[j] = Queues[j]
  PROVE  Queues' = [Queues EXCEPT ![k] = s]
<1>1. Queues = [j \in Keys |-> Queues[j]] /\ Queues' = [j \in Keys |-> Queues'[j]]
  BY Zenon DEF Queues
<1>2. ASSUME NEW F, NEW G, F = [j \in Keys |-> F[j]], G = [j \in Keys |-> G[j]],
             G[k] = s, \A j \in Keys : j # k => G[j] = F[j]
      PROVE  G = [F EXCEPT ![k] = s]
  BY Zenon, <1>2
<1> QED
  BY Zenon, <1>1, <1>2

LEMMA RingChange ==
  ASSUME QueueTypes, UNCHANGED <<ext, deque, prio>>
  PROVE  /\ Queues' = [Queues EXCEPT ![<<5, N>>] = ring'] /\ Queues[<<5, N>>] = ring
         /\ ring' \in Seq(Tasks) => QueueTypes'
<1>1. Queues[<<5, N>>] = ring /\ Queues'[<<5, N>>] = ring'
  BY Zenon, KeyOf DEF Queues
<1>2. ASSUME NEW j \in Keys, j # <<5, N>>
      PROVE  Queues'[j] = Queues[j]
  <2>1. j[1] = 5 => j[2] # N
    BY <1>2 DEF Keys
  <2> QED
    BY Zenon, <2>1 DEF Queues
<1> QED
  BY Zenon, <1>1, <1>2, OneQueue, KeyOf DEF QueueTypes

LEMMA ExtChange ==
  ASSUME QueueTypes, UNCHANGED <<ring, deque, prio>>, NEW v \in Workers, NEW s,
         ext' = [ext EXCEPT ![v] = s]
  PROVE  /\ Queues' = [Queues EXCEPT ![<<4, v>>] = s] /\ Queues[<<4, v>>] = ext[v]
         /\ s \in Seq(Tasks) => QueueTypes'
<1>1. Queues[<<4, v>>] = ext[v] /\ Queues'[<<4, v>>] = s
  <2>1. ext'[v] = s
    BY Zenon DEF QueueTypes
  <2>2. <<4, v>> \in Keys
    BY Zenon, KeyOf
  <2>3. Queues[<<4, v>>] = ext[v]
    BY <2>2 DEF Queues
  <2>4. Queues'[<<4, v>>] = ext'[v]
    BY <2>2 DEF Queues
  <2> QED
    BY Zenon, <2>1, <2>3, <2>4
<1>2. ASSUME NEW j \in Keys, j # <<4, v>>
      PROVE  Queues'[j] = Queues[j]
  <2>1. j[1] = 4 => j[2] # v
    BY <1>2 DEF Keys
  <2>2. j[1] = 4 /\ j[2] \in Workers => ext'[j[2]] = ext[j[2]]
    BY Zenon, <2>1 DEF QueueTypes
  <2> QED
    BY Zenon, <2>2 DEF Queues
<1> QED
  BY Zenon, <1>1, <1>2, OneQueue, KeyOf DEF QueueTypes

LEMMA DequeChange ==
  ASSUME QueueTypes, UNCHANGED <<ring, ext, prio>>, NEW v \in Workers, NEW s,
         deque' = [deque EXCEPT ![v] = s]
  PROVE  /\ Queues' = [Queues EXCEPT ![<<3, v>>] = s] /\ Queues[<<3, v>>] = deque[v]
         /\ s \in Seq(Tasks) => QueueTypes'
<1>1. Queues[<<3, v>>] = deque[v] /\ Queues'[<<3, v>>] = s
  <2>1. deque'[v] = s
    BY Zenon DEF QueueTypes
  <2>2. <<3, v>> \in Keys
    BY Zenon, KeyOf
  <2>3. Queues[<<3, v>>] = deque[v]
    BY <2>2 DEF Queues
  <2>4. Queues'[<<3, v>>] = deque'[v]
    BY <2>2 DEF Queues
  <2> QED
    BY Zenon, <2>1, <2>3, <2>4
<1>2. ASSUME NEW j \in Keys, j # <<3, v>>
      PROVE  Queues'[j] = Queues[j]
  <2>1. j[1] = 3 => j[2] # v
    BY <1>2 DEF Keys
  <2>2. j[1] = 3 /\ j[2] \in Workers => deque'[j[2]] = deque[j[2]]
    BY Zenon, <2>1 DEF QueueTypes
  <2> QED
    BY Zenon, <2>2 DEF Queues
<1> QED
  BY Zenon, <1>1, <1>2, OneQueue, KeyOf DEF QueueTypes

LEMMA PrioChange ==
  ASSUME QueueTypes, UNCHANGED <<ring, ext, deque>>, NEW q \in 0 .. N, NEW l \in Levels,
         NEW s, prio' = [prio EXCEPT ![q][l] = s]
  PROVE  /\ Queues' = [Queues EXCEPT ![<<l, q>>] = s] /\ Queues[<<l, q>>] = prio[q][l]
         /\ s \in Seq(Tasks) => QueueTypes'
<1>1. l \in {0, 1, 2}
  BY Zenon DEF Levels, NORMAL
<1>2. Queues[<<l, q>>] = prio[q][l] /\ Queues'[<<l, q>>] = s
  BY <1>1, KeyOf DEF Queues, QueueTypes
<1>3. ASSUME NEW j \in Keys, j # <<l, q>>
      PROVE  Queues'[j] = Queues[j]
  <2>1. j[1] \in 0 .. 5 /\ j[2] \in 0 .. N /\ (j[1] = l => j[2] # q)
    BY <1>3 DEF Keys
  <2>2. j[1] \notin {3, 4, 5} => j[1] \in Levels
    BY <2>1 DEF Levels, NORMAL
  <2>3. j[1] \in Levels => prio'[j[2]][j[1]] = prio[j[2]][j[1]]
    BY Zenon, <2>1 DEF QueueTypes
  <2> QED
    BY Zenon, <2>2, <2>3 DEF Queues
<1>4. s \in Seq(Tasks) => prio' \in [0 .. N -> [Levels -> Seq(Tasks)]]
  BY Zenon DEF QueueTypes
<1> QED
  BY Zenon, <1>2, <1>3, <1>4, OneQueue, KeyOf DEF QueueTypes

LEMMA LocalKeeps ==
  ASSUME PoolInv, NEW x \in Submitters, SubmitLocal(x)
  PROVE  PoolInv'
<1> DEFINE t == stask[x]
<1> DEFINE full == Len(deque[x]) >= DequeCap - 1
<1>1. /\ spc[x] = "local" /\ spc[x] \in Holding /\ x \in Workers /\ x \in 0 .. N
      /\ t \in Tasks /\ rr' = rr /\ rr \in Workers /\ QueueTypes /\ Level(t) \in Levels
  <2>1. spc[x] = "local" /\ rr' = rr
    BY Zenon DEF SubmitLocal
  <2>2. QueueTypes /\ rr \in Workers /\ CallInv(x)
    BY Zenon DEF PoolInv, Types
  <2>3. spc[x] \in Holding
    BY Zenon, <2>1 DEF Holding
  <2>4. x \in Workers /\ t \in Tasks
    BY Zenon, <2>1, <2>2, <2>3 DEF CallInv
  <2>5. x \in 0 .. N
    BY <2>4, ThreadPoolAssumption DEF Workers
  <2> QED
    BY Zenon, <2>1, <2>2, <2>3, <2>4, <2>5, LevelType
<1>2. CASE /\ prio' = [prio EXCEPT ![x][Level(t)] = Append(@, t)]
           /\ Pushed(x) /\ UNCHANGED <<ring, ext, deque>>
  <2>1. prio[x][Level(t)] \in Seq(Tasks)
    BY Zenon, <1>1 DEF QueueTypes
  <2>2. Append(prio[x][Level(t)], t) \in Seq(Tasks)
    BY <1>1, <2>1
  <2>3. /\ Queues' = PushAt(Queues, <<Level(t), x>>, t) /\ QueueTypes'
    BY Zenon, <1>1, <1>2, <2>2, PrioChange DEF PushAt
  <2> QED
    BY Zenon, <1>1, <1>2, <2>3, PushKeeps, KeyOf DEF PushStep
<1>3. CASE /\ deque' = [deque EXCEPT ![x] = Append(@, t)]
           /\ Pushed(x) /\ UNCHANGED <<ring, ext, prio>>
  <2>1. Append(deque[x], t) \in Seq(Tasks)
    BY <1>1 DEF QueueTypes
  <2>2. Queues' = PushAt(Queues, <<3, x>>, t) /\ QueueTypes'
    BY Zenon, <1>1, <1>3, <2>1, DequeChange DEF PushAt
  <2> QED
    BY Zenon, <1>1, <1>3, <2>2, PushKeeps, KeyOf DEF PushStep
<1>4. CASE /\ pending' = pending - 1 /\ In(t, "refused")
           /\ spc' = [spc EXCEPT ![x] = "idle"]
           /\ stask' = [stask EXCEPT ![x] = 0] /\ want' = [want EXCEPT ![x] = 0]
           /\ UNCHANGED <<pool, tokens, queues, worker, batch, mine, control,
                          next, accepted, early, after>>
  BY Zenon, <1>1, <1>4, RefuseKeeps DEF RefuseStep
<1>5. CASE /\ spc' = [spc EXCEPT ![x] = "ring"]
           /\ UNCHANGED <<pool, pending, tokens, queues, worker, want, batch,
                          mine, stask, control, next, st, accepted, early, after>>
  BY Zenon, <1>1, <1>5, MoveKeeps DEF MoveStep, Holding
<1> QED
  BY Zenon, <1>2, <1>3, <1>4, <1>5 DEF SubmitLocal

LEMMA ExternalKeeps ==
  ASSUME PoolInv, NEW x \in Submitters, SubmitRing(x) \/ SubmitExt(x) \/ SubmitGlobal(x)
  PROVE  PoolInv'
<1> DEFINE t == stask[x]
<1>1. /\ spc[x] \in Holding /\ t \in Tasks /\ rr \in Workers /\ QueueTypes
      /\ Level(t) \in Levels /\ N \in 0 .. N
  <2>1. spc[x] \in Holding
    BY Zenon DEF SubmitRing, SubmitExt, SubmitGlobal, Holding
  <2>2. QueueTypes /\ rr \in Workers /\ CallInv(x)
    BY Zenon DEF PoolInv, Types
  <2>3. t \in Tasks
    BY Zenon, <2>1, <2>2 DEF CallInv
  <2>4. N \in 0 .. N
    BY ThreadPoolAssumption
  <2>5. Level(t) \in Levels
    BY Zenon, <2>3, LevelType
  <2> QED
    BY Zenon, <2>1, <2>2, <2>3, <2>4, <2>5
<1>2. CASE SubmitRing(x)
  <2>1. CASE ring' = Append(ring, t) /\ Pushed(x) /\ UNCHANGED <<ext, deque, prio>>
    <3>1. ring' \in Seq(Tasks)
      BY <1>1, <2>1 DEF QueueTypes
    <3>2. Queues' = PushAt(Queues, <<5, N>>, t) /\ QueueTypes'
      BY Zenon, <1>1, <2>1, <3>1, RingChange DEF PushAt
    <3> QED
      BY Zenon, <1>1, <1>2, <2>1, <3>2, PushKeeps, KeyOf DEF PushStep, SubmitRing
  <2>2. CASE /\ spc' = [spc EXCEPT ![x] = "ext"]
             /\ UNCHANGED <<pool, pending, tokens, queues, worker, want, batch,
                            mine, stask, control, next, st, accepted, early, after>>
    BY Zenon, <1>1, <1>2, <2>2, MoveKeeps DEF MoveStep, Holding, SubmitRing
  <2> QED
    BY Zenon, <1>2, <2>1, <2>2 DEF SubmitRing
<1>3. CASE SubmitExt(x)
  <2>1. rr' \in Workers
    BY <1>1, <1>3, ThreadPoolAssumption DEF SubmitExt, Workers
  <2>2. CASE ext' = [ext EXCEPT ![rr] = Append(@, t)] /\ Pushed(x) /\ UNCHANGED <<ring, deque, prio>>
    <3>1. Append(ext[rr], t) \in Seq(Tasks)
      BY <1>1 DEF QueueTypes
    <3>2. Queues' = PushAt(Queues, <<4, rr>>, t) /\ QueueTypes'
      BY Zenon, <1>1, <2>2, <3>1, ExtChange DEF PushAt
    <3> QED
      BY Zenon, <1>1, <2>1, <2>2, <3>2, PushKeeps, KeyOf DEF PushStep
  <2>3. CASE /\ spc' = [spc EXCEPT ![x] = "global"]
             /\ UNCHANGED <<queues, want, batch, mine, stask, st, pool, pending, tokens,
                            worker, control, next, accepted, early, after>>
    BY Zenon, <1>1, <2>1, <2>3, MoveKeeps DEF MoveStep, Holding
  <2> QED
    BY Zenon, <1>3, <2>2, <2>3 DEF SubmitExt
<1>4. CASE SubmitGlobal(x)
  <2>1. /\ prio' = [prio EXCEPT ![N][Level(t)] = Append(@, t)] /\ rr' = rr
        /\ Pushed(x) /\ UNCHANGED <<ring, ext, deque>>
    BY Zenon, <1>4 DEF SubmitGlobal
  <2>2. Append(prio[N][Level(t)], t) \in Seq(Tasks)
    BY <1>1 DEF QueueTypes
  <2>3. Queues' = PushAt(Queues, <<Level(t), N>>, t) /\ QueueTypes'
    BY Zenon, <1>1, <2>1, <2>2, PrioChange DEF PushAt
  <2> QED
    BY Zenon, <1>1, <2>1, <2>3, PushKeeps, KeyOf DEF PushStep
<1> QED
  BY Zenon, <1>2, <1>3, <1>4

LEMMA TakeListKeeps ==
  ASSUME PoolInv, NEW w \in Workers, NEW q \in 0 .. N, wpc[w] \in Searching,
         Waiting(q) # {}, TakeList(w, q)
  PROVE  PoolInv'
<1> DEFINE l == CHOOSE h \in Waiting(q) : \A k \in Waiting(q) : k <= h
<1>1. \E h \in Waiting(q) : \A k \in Waiting(q) : k <= h
  BY DEF Waiting, Levels, NORMAL
<1>2. l \in Levels /\ prio[q][l] # <<>>
  BY Zenon, <1>1 DEF Waiting
<1>3. /\ Take(w, Head(prio[q][l])) /\ prio' = [prio EXCEPT ![q][l] = Tail(@)]
      /\ UNCHANGED <<ring, ext, deque>>
  BY Zenon DEF TakeList
<1> HIDE DEF l
<1>4. QueueTypes
  BY Zenon DEF PoolInv
<1>5. Tail(prio[q][l]) \in Seq(Tasks)
  <2>1. prio[q][l] \in Seq(Tasks)
    BY Zenon, <1>2, <1>4 DEF QueueTypes
  <2> QED
    BY <1>2, <2>1
<1>6. /\ Queues' = TailAt(Queues, <<l, q>>) /\ QueueTypes'
      /\ Queues[<<l, q>>] = prio[q][l]
  BY Zenon, <1>2, <1>3, <1>4, <1>5, PrioChange DEF TailAt
<1> QED
  BY Zenon, <1>2, <1>3, <1>6, TakeKeeps, KeyOf DEF TakeStep

LEMMA TakeExtKeeps ==
  ASSUME PoolInv, NEW w \in Workers, NEW v \in Workers, wpc[w] \in Searching,
         ext[v] # <<>>, TakeExt(w, v)
  PROVE  PoolInv'
<1>1. QueueTypes
  BY Zenon DEF PoolInv
<1>2. Tail(ext[v]) \in Seq(Tasks)
  BY <1>1 DEF QueueTypes
<1>3. Queues' = TailAt(Queues, <<4, v>>) /\ QueueTypes' /\ Queues[<<4, v>>] = ext[v]
  BY Zenon, <1>1, <1>2, ExtChange DEF TakeExt, TailAt
<1> QED
  BY Zenon, <1>3, TakeKeeps, KeyOf DEF TakeStep, TakeExt

\* Tests that find nothing
LEMMA TryNextKeeps ==
  ASSUME PoolInv, NEW w \in Workers, wpc[w] \in Searching,
         NEW l \in WorkerLabels \ {"run", "done", "exit"}, TryNext(w, l),
         probe' \in [Workers -> 0 .. N], \A v \in Workers \ {w} : probe'[v] = probe[v],
         l = "steal_deque" => probe'[w] < N
  PROVE  PoolInv'
<1>1. WalkStep(w)
  BY Zenon DEF WalkStep, TryNext, Goto, Searching, PoolInv, Types
<1> QED
  BY Zenon, <1>1, WalkKeeps

LEMMA SearchKeeps ==
  ASSUME PoolInv, NEW w \in Workers,
         WorkerLocal(w) \/ WorkerPrio(w) \/ WorkerExt(w) \/ WorkerRing(w)
  PROVE  PoolInv'
<1>1. /\ QueueTypes /\ w \in 0 .. N /\ N \in 0 .. N /\ probe \in [Workers -> 0 .. N]
      /\ wpc[w] \in Searching
  <2>1. QueueTypes /\ probe \in [Workers -> 0 .. N]
    BY Zenon DEF PoolInv, Types
  <2>2. w \in 0 .. N /\ N \in 0 .. N
    BY ThreadPoolAssumption DEF Workers
  <2>3. wpc[w] \in Searching
    BY Zenon DEF Searching, WorkerLocal, WorkerPrio, WorkerExt, WorkerRing
  <2> QED
    BY Zenon, <2>1, <2>2, <2>3
<1>2. {"prio", "ext", "ring", "steal"} \subseteq WorkerLabels \ {"run", "done", "exit"}
  BY Zenon DEF WorkerLabels
<1>3. CASE WorkerLocal(w)
  <2>1. CASE Waiting(w) # {} /\ TakeList(w, w)
    BY Zenon, <1>1, <2>1, TakeListKeeps
  <2>2. CASE /\ deque[w] # <<>> /\ Take(w, Last(deque[w]))
             /\ deque' = [deque EXCEPT ![w] = Front(@)] /\ UNCHANGED <<ring, ext, prio>>
    <3>1. Front(deque[w]) \in Seq(Tasks)
      BY <1>1, <2>2 DEF QueueTypes, Front
    <3>2. Queues' = FrontAt(Queues, <<3, w>>) /\ QueueTypes' /\ Queues[<<3, w>>] = deque[w]
      BY Zenon, <1>1, <2>2, <3>1, DequeChange DEF FrontAt
    <3> QED
      BY Zenon, <1>1, <2>2, <3>2, TakeKeeps, KeyOf DEF TakeStep
  <2>3. CASE TryNext(w, "prio") /\ UNCHANGED probe
    BY Zenon, <1>1, <1>2, <2>3, TryNextKeeps
  <2> QED
    BY Zenon, <1>3, <2>1, <2>2, <2>3 DEF WorkerLocal, Last, Front
<1>4. CASE WorkerPrio(w)
  <2>1. CASE Waiting(N) # {} /\ TakeList(w, N)
    BY Zenon, <1>1, <2>1, TakeListKeeps
  <2>2. CASE TryNext(w, "ext") /\ UNCHANGED probe
    BY Zenon, <1>1, <1>2, <2>2, TryNextKeeps
  <2> QED
    BY Zenon, <1>4, <2>1, <2>2 DEF WorkerPrio
<1>5. CASE WorkerExt(w)
  <2>1. CASE ext[w] # <<>> /\ TakeExt(w, w)
    BY Zenon, <1>1, <2>1, TakeExtKeeps
  <2>2. CASE TryNext(w, "ring") /\ UNCHANGED probe
    BY Zenon, <1>1, <1>2, <2>2, TryNextKeeps
  <2> QED
    BY Zenon, <1>5, <2>1, <2>2 DEF WorkerExt
<1>6. CASE WorkerRing(w)
  <2>1. CASE ring # <<>> /\ Take(w, Head(ring)) /\ ring' = Tail(ring) /\ UNCHANGED <<ext, deque, prio>>
    <3>1. ring' \in Seq(Tasks)
      BY <1>1, <2>1 DEF QueueTypes
    <3>2. Queues' = TailAt(Queues, <<5, N>>) /\ QueueTypes' /\ Queues[<<5, N>>] = ring
      BY Zenon, <1>1, <2>1, <3>1, RingChange DEF TailAt
    <3> QED
      BY Zenon, <1>1, <2>1, <3>2, TakeKeeps, KeyOf DEF TakeStep
  <2>2. CASE TryNext(w, "steal") /\ UNCHANGED probe
    BY Zenon, <1>1, <1>2, <2>2, TryNextKeeps
  <2> QED
    BY Zenon, <1>6, <2>1, <2>2 DEF WorkerRing
<1> QED
  BY Zenon, <1>3, <1>4, <1>5, <1>6

LEMMA StealKeeps ==
  ASSUME PoolInv, NEW w \in Workers, WorkerSteal(w) \/ WorkerStealDeque(w)
  PROVE  PoolInv'
<1> DEFINE i == probe[w]
<1> DEFINE v == (w + probe[w]) % N
<1>1. /\ QueueTypes /\ probe \in [Workers -> 0 .. N] /\ i \in 0 .. N /\ N \in Nat
      /\ wpc[w] \in Searching
  BY Zenon, ThreadPoolAssumption DEF PoolInv, Types, Searching, WorkerSteal, WorkerStealDeque
<1>2. v \in Workers
  BY <1>1, ThreadPoolAssumption DEF Workers
<1>3. {"idle", "steal", "steal_deque"} \subseteq WorkerLabels \ {"run", "done", "exit"}
  BY Zenon DEF WorkerLabels
<1>4. ASSUME NEW n \in 0 .. N, probe' = [probe EXCEPT ![w] = n]
      PROVE  probe' \in [Workers -> 0 .. N] /\ \A u \in Workers \ {w} : probe'[u] = probe[u]
  BY Zenon, <1>1, <1>4
<1>5. CASE WorkerSteal(w)
  <2>1. CASE TryNext(w, "idle") /\ probe' = [probe EXCEPT ![w] = 0]
    <3>1. 0 \in 0 .. N
      BY <1>1
    <3> QED
      BY Zenon, <1>1, <1>3, <1>4, <2>1, <3>1, TryNextKeeps
  <2>2. CASE i < N /\ TryNext(w, "steal") /\ probe' = [probe EXCEPT ![w] = i + 1]
    <3>1. i + 1 \in 0 .. N
      BY <1>1, <2>2
    <3> QED
      BY Zenon, <1>1, <1>3, <1>4, <2>2, <3>1, TryNextKeeps
  <2>3. CASE ext[v] # <<>> /\ TakeExt(w, v)
    BY Zenon, <1>1, <1>2, <2>3, TakeExtKeeps
  <2>4. CASE i < N /\ TryNext(w, "steal_deque") /\ UNCHANGED probe
    BY Zenon, <1>1, <1>3, <2>4, TryNextKeeps
  <2> QED
    BY Zenon, <1>5, <2>1, <2>2, <2>3, <2>4 DEF WorkerSteal
<1>6. CASE WorkerStealDeque(w)
  <2>1. CASE /\ deque[v] # <<>> /\ Take(w, Head(deque[v]))
             /\ deque' = [deque EXCEPT ![v] = Tail(@)] /\ UNCHANGED <<ring, ext, prio>>
    <3>1. Tail(deque[v]) \in Seq(Tasks)
      BY <1>1, <1>2, <2>1 DEF QueueTypes
    <3>2. Queues' = TailAt(Queues, <<3, v>>) /\ QueueTypes' /\ Queues[<<3, v>>] = deque[v]
      BY Zenon, <1>1, <1>2, <2>1, <3>1, DequeChange DEF TailAt
    <3> QED
      BY Zenon, <1>1, <1>2, <2>1, <3>2, TakeKeeps, KeyOf DEF TakeStep
  <2>2. CASE TryNext(w, "steal") /\ probe' = [probe EXCEPT ![w] = @ + 1]
    <3>1. i + 1 \in 0 .. N
      BY <1>1, <1>6 DEF WorkerStealDeque, PoolInv, StealInv
    <3> QED
      BY Zenon, <1>1, <1>3, <1>4, <2>2, <3>1, TryNextKeeps
  <2> QED
    BY Zenon, <1>6, <2>1, <2>2 DEF WorkerStealDeque
<1> QED
  BY Zenon, <1>5, <1>6

LEMMA IdleKeeps ==
  ASSUME PoolInv, NEW w \in Workers, WorkerLoop(w) \/ WorkerIdle(w) \/ WorkerRead(w)
  PROVE  PoolInv'
<1>1. WalkStep(w)
  BY DEF WalkStep, WorkerLoop, WorkerIdle, WorkerRead, Goto, PoolInv, Types, WorkerLabels
<1> QED
  BY Zenon, <1>1, WalkKeeps

LEMMA ControlKeeps ==
  ASSUME PoolInv, PoolPause \/ ControlStep
  PROVE  PoolInv'
<1>1. tokens \in Nat /\ N \in Nat /\ tokens + N \in Nat /\ Types
  BY ThreadPoolAssumption DEF PoolInv, Types
<1>2. CASE PoolPause
  BY Zenon, <1>1, <1>2, SteadyKeeps DEF PoolPause, SteadyStep, Types
<1>3. CASE PoolResume \/ ShutdownRunning
  BY Zenon, <1>1, <1>3, SteadyKeeps DEF PoolResume, ShutdownRunning, SteadyStep, Types
<1>4. CASE PoolWake \/ ShutdownWake
  BY Zenon, <1>1, <1>4, SteadyKeeps DEF PoolWake, ShutdownWake, SteadyStep, Types, pool
<1>5. CASE DestroyJoin
  BY Zenon, <1>1, <1>5, SteadyKeeps DEF DestroyJoin, SteadyStep, Types, pool
<1> QED
  BY Zenon, <1>2, <1>3, <1>4, <1>5 DEF ControlStep

LEMMA PoolNext == PoolInv /\ [Next]_vars => PoolInv'
<1> SUFFICES ASSUME PoolInv, [Next]_vars
             PROVE  PoolInv'
  BY Zenon
<1>1. CASE UNCHANGED vars
  <2>1. SteadyStep
    BY Zenon, <1>1 DEF SteadyStep, vars, pool, control, PoolInv, Types
  <2> QED
    BY Zenon, <2>1, SteadyKeeps
<1>2. ASSUME NEW x \in Workers \cup Clients, SubmitCall(x)
      PROVE  PoolInv'
  <2>1. x \in Submitters /\ BatchSize \in Nat
    BY Zenon, ThreadPoolAssumption DEF Submitters
  <2> QED
    BY Zenon, <1>2, <2>1, StartKeeps DEF SubmitCall, SubmitPriority, SubmitCallback, SubmitBatch
<1>3. ASSUME NEW x \in Workers \cup Clients, SubmitStep(x)
      PROVE  PoolInv'
  <2>1. x \in Submitters
    BY Zenon DEF Submitters
  <2> QED
    BY Zenon, <1>3, <2>1, CountKeeps, LocalKeeps, ExternalKeeps, WakeKeeps DEF SubmitStep
<1>4. ASSUME NEW w \in Workers, WorkerStep(w)
      PROVE  PoolInv'
  BY Zenon, <1>4, IdleKeeps, SearchKeeps, StealKeeps, RunKeeps, DoneKeeps DEF WorkerStep
<1>5. ASSUME NEW c \in {"graceful", "immediate", "destroy"}, PoolShutdown(c)
      PROVE  PoolInv'
  BY Zenon, <1>5, ShutdownKeeps
<1>6. CASE PoolPause \/ ControlStep
  BY Zenon, <1>6, ControlKeeps
<1> QED
  BY Zenon, <1>1, <1>2, <1>3, <1>4, <1>5, <1>6 DEF Next

\* A wait that is over has seen every accepted task done, a graceful shutdown
\* is left by no worker before the tasks counted before it are done, and an
\* immediate one lets a worker begin at most one task more.
THEOREM PoolCorrect == Spec => []PoolSafe
<1>1. PoolInv => PoolSafe
  <2> SUFFICES ASSUME PoolInv
               PROVE  PoolSafe
    BY Zenon
  <2>1. pending \in Nat /\ (pending = 0 => Live(st) = {})
    BY CardsFinite DEF PoolInv, CountInv
  <2>2. TypeOK
    BY Zenon, <2>1 DEF PoolInv, Types, QueueTypes, TypeOK, WorkerLabels, TaskStates
  <2>3. WaitSeesDone
    BY Zenon, <2>1 DEF PoolInv, HistInv, Types, WaitSeesDone, WaitOver, Live, Active, Taken
  <2> QED
    BY Zenon, <2>2, <2>3 DEF PoolInv, LeaveInv, StopInv, PoolSafe, ImmediateStops
<1> QED
  BY <1>1, PoolInit, PoolNext, PTL DEF Spec

-----------------------------------------------------------------------------
(* No wake-up is lost.                                                     *)

\* Somebody will see to it that the shared queues are looked at again: a call
\* that has queued a task and not yet written to the eventfd, a token in the
\* eventfd, or a worker that comes by the queue before it sleeps.
Attended(labels) ==
  \/ tokens > 0
  \/ \E x \in Submitters : spc[x] # "idle" /\ mine[x] # {}
  \/ \E w \in Workers : wpc[w] \in labels

BeforeLists == {"run", "done", "loop", "local", "prio"}
BeforeRing == BeforeLists \cup {"ext", "ring"}

\* While the pool is paused or about to be resumed, or was shut down, the
\* tokens of the resume or of the shutdown are still to come.
WakeInv ==
  mode = NONE /\ ~paused /\ mpc = "idle" =>
    /\ ring # <<>> => Attended(BeforeRing)
    /\ Waiting(N) # {} => Attended(BeforeLists)

\* Steps that leave the two shared queues, the tokens and the control thread
\* as they are, or attend to them
LEMMA AttendedKeeps ==
  ASSUME PoolInv, WakeInv, UNCHANGED <<mode, paused, mpc>>,
         \A labels \in {BeforeRing, BeforeLists} : Attended(labels) => Attended(labels)',
         ring' # <<>> => ring # <<>> \/ Attended(BeforeRing)',
         Waiting(N)' # {} => Waiting(N) # {} \/ Attended(BeforeLists)'
  PROVE  WakeInv'
BY Zenon DEF WakeInv

LEMMA SubmitAttends ==
  ASSUME PoolInv, WakeInv, NEW x \in Submitters, SubmitCall(x) \/ SubmitStep(x)
  PROVE  WakeInv'
<1> USE DEF PoolInv
<1>1. UNCHANGED <<mode, paused, mpc, wpc>>
  BY Zenon DEF SubmitCall, SubmitPriority, SubmitCallback, SubmitBatch, Start, SubmitStep,
       SubmitCount, SubmitLocal, SubmitRing, SubmitExt, SubmitGlobal, SubmitWake, Pushed,
       pool, control, worker
<1>2. CASE SubmitWake(x)
  <2>1. tokens' = tokens + Cardinality(mine[x]) /\ UNCHANGED <<ring, prio>>
        /\ \A y \in Submitters : y # x => mine'[y] = mine[y] /\ spc'[y] = spc[y]
    BY Zenon, <1>2 DEF SubmitWake, queues, Types
  <2>2. Cardinality(mine[x]) \in Nat /\ (mine[x] # {} => Cardinality(mine[x]) > 0)
    <3>1. IsFiniteSet(Tasks)
      BY Zenon, TasksFinite
    <3>2. mine[x] \subseteq Tasks
      BY Zenon DEF Types
    <3> QED
      BY <3>1, <3>2, FS_Subset, FS_CardinalityType, FS_EmptySet
  <2>3. tokens > 0 \/ mine[x] # {} => tokens' > 0
    <3>1. tokens' = tokens + Cardinality(mine[x]) /\ tokens \in Nat
      BY Zenon, <2>1 DEF Types
    <3> QED
      BY <2>2, <3>1
  <2>5. \A labels : Attended(labels) => Attended(labels)'
    BY Zenon, <1>1, <2>1, <2>3 DEF Attended
  <2>4. Waiting(N)' = Waiting(N)
    BY Zenon, <2>1 DEF Waiting
  <2> QED
    BY Zenon, <1>1, <2>1, <2>4, <2>5, AttendedKeeps
<1>3. CASE Pushed(x)
  <2>1. /\ tokens' = tokens /\ spc'[x] # "idle" /\ mine'[x] # {}
    BY Zenon, <1>3 DEF Pushed, Types
  <2>2. \A labels : Attended(labels)'
    BY Zenon, <2>1 DEF Attended
  <2> QED
    BY Zenon, <1>1, <2>2, AttendedKeeps
<1>4. CASE UNCHANGED <<ring, prio, tokens, mine>> /\ \A y \in Submitters :
             spc[y] # "idle" /\ spc'[y] = "idle" => y \in Workers /\ wpc[y] = "run"
  <2>1. \A labels \in {BeforeRing, BeforeLists} : Attended(labels) => Attended(labels)'
    BY Zenon, <1>1, <1>4 DEF Attended, BeforeRing, BeforeLists
  <2>2. Waiting(N)' = Waiting(N)
    BY Zenon, <1>4 DEF Waiting
  <2> QED
    BY Zenon, <1>1, <1>4, <2>1, <2>2, AttendedKeeps
<1>5. SubmitCall(x) => UNCHANGED <<ring, prio, tokens, mine>> /\ \A y \in Submitters :
             spc[y] # "idle" /\ spc'[y] = "idle" => y \in Workers /\ wpc[y] = "run"
  BY Zenon DEF SubmitCall, SubmitPriority, SubmitCallback, SubmitBatch, Start, queues, Types
<1>6. SubmitCount(x) => UNCHANGED <<ring, prio, tokens, mine>> /\ \A y \in Submitters :
             spc[y] # "idle" /\ spc'[y] = "idle" => y \in Workers /\ wpc[y] = "run"
  BY Zenon DEF SubmitCount, queues, Types
<1>7. SubmitLocal(x) => Pushed(x) \/ (UNCHANGED <<ring, prio, tokens, mine>>
             /\ \A y \in Submitters :
                  spc[y] # "idle" /\ spc'[y] = "idle" => y \in Workers /\ wpc[y] = "run")
  BY DEF SubmitLocal, queues, Types, CallInv
<1>8. SubmitRing(x) \/ SubmitExt(x) \/ SubmitGlobal(x) => Pushed(x) \/
             (UNCHANGED <<ring, prio, tokens, mine>> /\ \A y \in Submitters :
                  spc[y] # "idle" /\ spc'[y] = "idle" => y \in Workers /\ wpc[y] = "run")
  BY Zenon DEF SubmitRing, SubmitExt, SubmitGlobal, queues, Types
<1> QED
  BY Zenon, <1>2, <1>3, <1>4, <1>5, <1>6, <1>7, <1>8 DEF SubmitStep

\* A worker that has a task or is at the top of its loop attends to both queues.
LEMMA WorkerAttends ==
  ASSUME PoolInv, WakeInv, NEW w \in Workers, WorkerStep(w)
  PROVE  WakeInv'
<1> USE DEF PoolInv
<1>1. UNCHANGED <<mode, paused, mpc, spc, mine>> /\ wpc \in [Workers -> WorkerLabels]
  BY Zenon DEF WorkerStep, WorkerLoop, WorkerLocal, WorkerPrio, WorkerExt, WorkerRing,
       WorkerSteal, WorkerStealDeque, WorkerRun, WorkerDone, WorkerIdle, WorkerRead,
       TakeList, TakeExt, Take, TryNext, pool, control, submit, Types
<1>2. CASE wpc'[w] \in {"run", "done", "loop"}
  <2>1. \A labels \in {BeforeRing, BeforeLists} : Attended(labels)'
    BY Zenon, <1>2 DEF Attended, BeforeRing, BeforeLists
  <2> QED
    BY Zenon, <1>1, <2>1, AttendedKeeps
<1>3. CASE /\ UNCHANGED <<ring, prio, tokens>> /\ \A v \in Workers \ {w} : wpc'[v] = wpc[v]
           /\ wpc[w] \in BeforeRing /\ wpc'[w] \notin BeforeRing => ring = <<>>
           /\ wpc[w] \in BeforeLists /\ wpc'[w] \notin BeforeLists => Waiting(N) = {}
  <2>1. Waiting(N)' = Waiting(N)
    BY Zenon, <1>3 DEF Waiting
  <2>2. ring # <<>> /\ Attended(BeforeRing) => Attended(BeforeRing)'
    BY Zenon, <1>1, <1>3 DEF Attended
  <2>3. Waiting(N) # {} /\ Attended(BeforeLists) => Attended(BeforeLists)'
    BY Zenon, <1>1, <1>3 DEF Attended
  <2> QED
    BY Zenon, <1>1, <1>3, <2>1, <2>2, <2>3 DEF WakeInv
<1>4. CASE WorkerLoop(w)
  <2>1. CASE mode = NONE /\ ~paused
    BY <1>3, <1>4, <2>1 DEF WorkerLoop, Goto, Types, queues, BeforeRing, BeforeLists,
         NONE, GRACEFUL, IMMEDIATE
  <2>2. CASE ~(mode = NONE /\ ~paused)
    BY Zenon, <1>1, <2>2 DEF WakeInv
  <2> QED
    BY Zenon, <2>1, <2>2
<1>5. CASE WorkerLocal(w) \/ WorkerPrio(w)
  <2>1. wpc'[w] = "run" \/ (TryNext(w, "prio") /\ wpc[w] = "local")
          \/ (TryNext(w, "ext") /\ wpc[w] = "prio" /\ Waiting(N) = {})
    BY Zenon, <1>5 DEF WorkerLocal, WorkerPrio, TakeList, Take, Goto, Types
  <2> QED
    BY Zenon, <1>1, <1>2, <1>3, <2>1 DEF TryNext, Goto, queues, BeforeRing, BeforeLists
<1>6. CASE WorkerExt(w) \/ WorkerRing(w)
  <2>1. wpc'[w] = "run" \/ (TryNext(w, "ring") /\ wpc[w] = "ext")
          \/ (TryNext(w, "steal") /\ wpc[w] = "ring" /\ ring = <<>>)
    BY Zenon, <1>6 DEF WorkerExt, WorkerRing, TakeExt, Take, Goto, Types
  <2> QED
    BY Zenon, <1>1, <1>2, <1>3, <2>1 DEF TryNext, Goto, queues, BeforeRing, BeforeLists
<1>7. CASE WorkerSteal(w) \/ WorkerStealDeque(w)
  <2>1. wpc'[w] = "run" \/ (wpc[w] \in {"steal", "steal_deque"}
          /\ (TryNext(w, "idle") \/ TryNext(w, "steal") \/ TryNext(w, "steal_deque")))
    BY Zenon, <1>7 DEF WorkerSteal, WorkerStealDeque, TakeExt, Take, Goto, Types
  <2> QED
    BY Zenon, <1>1, <1>2, <1>3, <2>1 DEF TryNext, Goto, queues, BeforeRing, BeforeLists
<1>8. CASE WorkerRun(w) \/ WorkerDone(w) \/ WorkerRead(w)
  BY Zenon, <1>1, <1>2, <1>8 DEF WorkerRun, WorkerDone, WorkerRead, Goto
<1>9. CASE WorkerIdle(w)
  BY Zenon, <1>1, <1>3, <1>9 DEF WorkerIdle, Goto, queues, BeforeRing, BeforeLists
<1> QED
  BY Zenon, <1>4, <1>5, <1>6, <1>7, <1>8, <1>9 DEF WorkerStep

LEMMA ControlAttends ==
  ASSUME PoolInv, WakeInv, \/ PoolPause \/ ControlStep
                           \/ \E c \in {"graceful", "immediate", "destroy"} : PoolShutdown(c)
  PROVE  WakeInv'
<1>1. CASE PoolWake \/ ShutdownWake
  <2>1. tokens' > 0
    BY <1>1, ThreadPoolAssumption DEF PoolWake, ShutdownWake, PoolInv, Types
  <2> QED
    BY Zenon, <2>1 DEF WakeInv, Attended
<1>2. CASE ~(PoolWake \/ ShutdownWake)
  <2>1. mpc' # "idle"
    BY Zenon, <1>2 DEF ControlStep, PoolPause, PoolResume, ShutdownRunning, DestroyJoin, PoolShutdown
  <2> QED
    BY Zenon, <2>1 DEF WakeInv
<1> QED
  BY Zenon, <1>1, <1>2

\* When all workers sleep, no token is left and nobody is in the middle of a
\* call, the global ring and the global lists are empty.
THEOREM WakeCorrect == Spec => []NoStranded
<1>1. Init => WakeInv
  <2> SUFFICES ASSUME Init PROVE WakeInv
    BY Zenon
  <2>1. N \in 0 .. N
    BY ThreadPoolAssumption
  <2>2. ring = <<>> /\ prio = [q \in 0 .. N |-> [l \in Levels |-> <<>>]]
    BY Zenon DEF Init
  <2>3. Waiting(N) = {}
    BY Zenon, <2>1, <2>2 DEF Waiting
  <2> QED
    BY Zenon, <2>2, <2>3 DEF WakeInv
<1>2. PoolInv /\ WakeInv /\ [Next]_vars => WakeInv'
  <2> SUFFICES ASSUME PoolInv, WakeInv, [Next]_vars
               PROVE  WakeInv'
    BY Zenon
  <2>1. CASE UNCHANGED vars
    BY Zenon, <2>1 DEF vars, pool, queues, worker, submit, control, WakeInv, Attended, Waiting
  <2>2. CASE Next
    BY Zenon, <2>2, SubmitAttends, WorkerAttends, ControlAttends DEF Next, Submitters
  <2> QED
    BY Zenon, <2>1, <2>2
<1>3. PoolInv /\ WakeInv => NoStranded
  <2> SUFFICES ASSUME PoolInv, WakeInv, mode = NONE, ~paused, mpc = "idle", tokens = 0,
                      \A w \in Workers : wpc[w] \in {"park", "read"},
                      \A c \in Clients : spc[c] = "idle"
               PROVE  ring = <<>> /\ Waiting(N) = {}
    BY Zenon DEF NoStranded
  <2>1. \A x \in Submitters : spc[x] = "idle"
    BY Zenon DEF PoolInv, CallInv, Submitters
  <2>2. ~Attended(BeforeRing) /\ ~Attended(BeforeLists)
    BY <2>1 DEF Attended, BeforeRing, BeforeLists
  <2> QED
    BY Zenon, <2>2 DEF WakeInv
<1> QED
  BY <1>1, <1>2, <1>3, PoolInit, PoolNext, PTL DEF Spec
=============================================================================
