--------------------------- MODULE SnapshotsProofs ---------------------------
(***************************************************************************)
(* The cache of the list of snapshots matches the repository, and pruning  *)
(* follows the quotas, for any services, repositories, calendars, quotas,  *)
(* requests and faults.                                                    *)
(***************************************************************************)
EXTENDS SnapshotsProperties, FiniteSetTheorems, TLAPS

-----------------------------------------------------------------------------
(* Numbers, and functions over them                                          *)

\* A set of numbers that is not empty has a least one.
LEMMA LeastNumber ==
    ASSUME NEW T \in SUBSET Nat, T # {}
    PROVE  \E x \in T : \A y \in T : x <= y
<1>1. PICK x \in T : \A y \in T : ~ (<<y, x>> \in OpToRel(<, Nat))
  BY NatLessThanWellFounded, WFMin, Zenon
<1>2. \A y \in T : ~(y < x)
  BY <1>1 DEF OpToRel
<1>3. QED BY <1>2

\* Induction, with a set for the predicate: what holds of 0, and of each number whose
\* predecessor it holds of, holds of all up to N.
LEMMA Counting ==
    ASSUME NEW N \in Nat, NEW T \in SUBSET (0 .. N), 0 \in T,
           \A n \in 1 .. N : n - 1 \in T => n \in T
    PROVE  T = 0 .. N
<1>1. SUFFICES ASSUME (0 .. N) \ T # {} PROVE FALSE
  OBVIOUS
<1>2. (0 .. N) \ T \in SUBSET Nat OBVIOUS
<1>3. PICK n \in (0 .. N) \ T : \A m \in (0 .. N) \ T : n <= m
  BY <1>1, <1>2, LeastNumber
<1>4. n \in 1 .. N /\ n - 1 \in 0 .. N BY <1>3
<1>5. n - 1 \in T BY <1>3, <1>4
<1>6. QED BY <1>3, <1>4, <1>5

\* g is what the loop has computed after each of its N rounds.
Rounds(g, N, X, c, step) ==
    /\ g \in [0 .. N -> X] /\ g[0] = c
    /\ \A n \in 1 .. N : g[n] = step[n][g[n - 1]]

\* A value to begin with and a step for each round define a function.
LEMMA Recursion ==
    ASSUME NEW N \in Nat, NEW X, NEW c \in X, NEW step \in [1 .. N -> [X -> X]]
    PROVE  \E g : Rounds(g, N, X, c, step)
<1> DEFINE Upto(k, g) == /\ g \in [0 .. k -> X] /\ g[0] = c
                         /\ \A n \in 1 .. k : g[n] = step[n][g[n - 1]]
           T == {k \in 0 .. N : \E g : Upto(k, g)}
<1>1. 0 \in T
  <2>1. Upto(0, [n \in 0 .. 0 |-> c]) OBVIOUS
  <2> HIDE DEF Upto
  <2>2. QED BY <2>1
<1>2. ASSUME NEW k \in 1 .. N, k - 1 \in T PROVE k \in T
  <2>1. PICK g : Upto(k - 1, g) BY <1>2
  <2>2. k - 1 \in 0 .. (k - 1) /\ g[k - 1] \in X BY <2>1
  <2>3. step[k][g[k - 1]] \in X BY <2>2
  <2> DEFINE h == [n \in 0 .. k |-> IF n = k THEN step[k][g[k - 1]] ELSE g[n]]
  <2>4. h \in [0 .. k -> X] BY <2>1, <2>3
  <2>5. h[0] = c BY <2>1
  <2>6. ASSUME NEW n \in 1 .. k PROVE h[n] = step[n][h[n - 1]]
    <3>1. CASE n = k BY <3>1
    <3>2. CASE n # k
      <4>1. n \in 1 .. (k - 1) /\ n - 1 \in 0 .. k /\ n - 1 # k BY <3>2
      <4>2. h[n] = g[n] /\ h[n - 1] = g[n - 1] BY <4>1
      <4>3. QED BY <4>1, <4>2, <2>1
    <3>3. QED BY <3>1, <3>2
  <2>7. Upto(k, h) BY <2>4, <2>5, <2>6
  <2> HIDE DEF Upto, h
  <2>8. QED BY <2>7
<1>3. T = 0 .. N
  <2>1. T \in SUBSET (0 .. N) OBVIOUS
  <2> HIDE DEF T
  <2>2. QED BY <1>1, <1>2, <2>1, Counting
<1>4. PICK g : Upto(N, g) BY <1>3
<1>5. Rounds(g, N, X, c, step) BY <1>4 DEF Rounds
<1> HIDE DEF Upto
<1>6. QED BY <1>5

-----------------------------------------------------------------------------
(* Types                                                                     *)

ProcTyped == proc \in [Procs -> Processes]

LEMMA TheOther == Other("api") = "worker" /\ Other("worker") = "api"
BY DEF Other, Procs

LEMMA RestTyped == Rest \in Processes
BY DEF Rest, Processes

LEMMA ServicesTyped == Services \in Seq(Names) /\ Services # <<>> /\ Len(Services) \in Nat
BY SnapshotsAssumption

\* One process changes.
LEMMA OneProcess ==
    ASSUME NEW m \in [Procs -> Processes], NEW p \in Procs, NEW r \in Processes,
           proc' = [m EXCEPT ![p] = r]
    PROVE  ProcTyped' /\ proc'[p] = r /\ \A q \in Procs : q # p => proc'[q] = m[q]
BY DEF ProcTyped

LEMMA MixingTyped ==
    ASSUME ProcTyped, NEW p \in Procs
    PROVE  /\ Mixing(p) \in [Procs -> Processes]
           /\ Mixing(p)[p] = proc[p]
           /\ Mixing(p)[Other(p)] =
                [proc[Other(p)] EXCEPT !.mixed = @ \/ (Listed(Other(p)) /\ proc[Other(p)].seen # proc[p].seen)]
<1>1. Other(p) \in Procs /\ Other(p) # p BY TheOther DEF Procs
<1>2. (proc[Other(p)].mixed \/ (Listed(Other(p)) /\ proc[Other(p)].seen # proc[p].seen)) \in BOOLEAN
  BY <1>1 DEF ProcTyped, Processes, Listed
<1>3. [proc[Other(p)] EXCEPT !.mixed = @ \/ (Listed(Other(p)) /\ proc[Other(p)].seen # proc[p].seen)]
        \in Processes
  BY <1>1, <1>2 DEF ProcTyped, Processes
<1>4. QED BY <1>1, <1>3 DEF Mixing, ProcTyped

LEMMA DueServicesTyped == DueServices \in Seq(Names)
<1> DEFINE step == [n \in 1 .. Len(Services) |-> [q \in Seq(Names) |->
                      IF Due(Services[n]) THEN Append(q, Services[n]) ELSE q]]
           N == Len(Services)
<1>1. \A n \in 1 .. N : Services[n] \in Names /\ n \in Nat BY ServicesTyped DEF Names
<1>2. step \in [1 .. N -> [Seq(Names) -> Seq(Names)]] BY <1>1
<1>3. <<>> \in Seq(Names) /\ N \in Nat BY ServicesTyped
<1> HIDE DEF step, N
<1>4. PICK g : Rounds(g, N, Seq(Names), <<>>, step)
  BY <1>2, <1>3, Recursion, Zenon
<1>5. ASSUME NEW n \in 0 .. N, n # 0
      PROVE  g[n] = IF Due(Services[n]) THEN Append(g[n - 1], Services[n]) ELSE g[n - 1]
  <2>1. n \in 1 .. N /\ n - 1 \in 0 .. N /\ g[n - 1] \in Seq(Names) BY <1>4, <1>5, <1>3 DEF Rounds
  <2>2. step[n] = [q \in Seq(Names) |-> IF Due(Services[n]) THEN Append(q, Services[n]) ELSE q]
    BY <2>1, Zenon DEF step, N
  <2>3. QED BY <1>4, <2>1, <2>2 DEF Rounds
<1>6. g = [n \in 0 .. N |-> IF n = 0 THEN <<>>
              ELSE IF Due(Services[n]) THEN Append(g[n - 1], Services[n]) ELSE g[n - 1]]
  BY <1>4, <1>5 DEF Rounds
<1> DEFINE F(f) == [n \in 0 .. N |-> IF n = 0 THEN <<>>
              ELSE IF Due(Services[n]) THEN Append(f[n - 1], Services[n]) ELSE f[n - 1]]
           due == CHOOSE f : f = F(f)
<1>7. due = F(due) BY <1>6
<1>8. DueServices = due[N] BY Zenon DEF DueServices, N
<1> HIDE DEF due
<1>9. {n \in 0 .. N : due[n] \in Seq(Names)} = 0 .. N
  <2> DEFINE T == {n \in 0 .. N : due[n] \in Seq(Names)}
  <2>1. 0 \in T
    <3>1. 0 \in 0 .. N BY <1>3
    <3>2. due[0] = <<>> BY <1>7, <3>1
    <3>3. QED BY <3>1, <3>2, <1>3
  <2>2. ASSUME NEW n \in 1 .. N, n - 1 \in T PROVE n \in T
    <3>1. n \in 0 .. N /\ n # 0 BY <1>3
    <3>2. F(due)[n] = IF Due(Services[n]) THEN Append(due[n - 1], Services[n]) ELSE due[n - 1]
      BY <3>1
    <3>3. due[n] = IF Due(Services[n]) THEN Append(due[n - 1], Services[n]) ELSE due[n - 1]
      BY <1>7, <3>2, Zenon
    <3>4. due[n - 1] \in Seq(Names) /\ Services[n] \in Names BY <2>2, <1>1
    <3>5. due[n] \in Seq(Names) BY <3>3, <3>4
    <3>6. QED BY <3>1, <3>5
  <2>3. T \in SUBSET (0 .. N) OBVIOUS
  <2> HIDE DEF T
  <2>4. T = 0 .. N BY <2>1, <2>2, <2>3, <1>3, Counting
  <2>5. QED BY <2>4 DEF T
<1>10. N \in 0 .. N BY <1>3
<1>11. QED BY <1>8, <1>9, <1>10

-----------------------------------------------------------------------------
(* The types are kept                                                        *)

\* The types of all but what the processes do.
StoresTyped ==
    /\ repo \in [Repos -> SUBSET Snaps] /\ exists \subseteq Repos
    /\ provider \in Repos \cup {None} /\ mark \in BOOLEAN
    /\ cache \subseteq Snaps
    /\ last \in [Names -> Times \cup {None}] /\ failed \in [Names -> Times \cup {None}]
    /\ period \in Periods \cup {None}
    /\ quotas \in [Buckets -> Int] /\ \A b \in Buckets : quotas[b] >= -1
    /\ live \in [Names -> Seq(Times)] /\ running \in [Names -> BOOLEAN]
    /\ tasks \in Seq(Tasks)
    /\ staleLock \in BOOLEAN /\ clock \in Times
    /\ requests \in Nat /\ faults \in Nat /\ excused \in BOOLEAN

LEMMA TypeParts == TypeOK <=> StoresTyped /\ ProcTyped
BY DEF TypeOK, StoresTyped, ProcTyped

LEMMA TypePartsNext == TypeOK' <=> StoresTyped' /\ ProcTyped'
BY TypeParts, PTL

RunningIsLive == \A s \in Names : running[s] => live[s] # <<>>
NoRepository  == provider = None => ~mark /\ proc["api"].pc # "init"

LEMMA Parts ==
    SnapshotsInv <=> /\ TypeOK /\ TurnsInv /\ RunningIsLive /\ NoRepository /\ ReloadInv
                     /\ CacheMatchesRepository
BY DEF SnapshotsInv, RunningIsLive, NoRepository

LEMMA PartsNext ==
    SnapshotsInv' <=> /\ TypeOK' /\ TurnsInv' /\ RunningIsLive' /\ NoRepository' /\ ReloadInv'
                      /\ CacheMatchesRepository'
BY Parts, PTL

LEMMA ListingTyped == ASSUME StoresTyped PROVE Listing(provider) \in SUBSET Snaps
BY DEF StoresTyped, Listing

LEMMA RepoTyped ==
    ASSUME StoresTyped, NEW r \in Repos, NEW snaps
    PROVE  RemovedFrom(r, snaps) \in [Repos -> SUBSET Snaps]
BY DEF StoresTyped, RemovedFrom

\* What process o knows of a reload when process p puts something else into the cache.
Marked(o, p) ==
    [proc[o] EXCEPT !.mixed = @ \/ (Listed(o) /\ proc[o].seen # proc[p].seen)]

\* The service that the worker is at.
LEMMA ServiceTyped ==
    ASSUME ProcTyped, Worker.todo # <<>>
    PROVE  Service \in Names /\ Tail(Worker.todo) \in Seq(Names) /\ Len(Worker.todo) \in Nat \ {0}
           /\ (Len(Worker.todo) # 1 => Tail(Worker.todo) # <<>>)
<1>1. Worker.todo \in Seq(Names) BY DEF ProcTyped, Processes, Procs, Worker
<1>2. Worker.todo # <<>> OBVIOUS
<1>3. Head(Worker.todo) \in Names /\ Tail(Worker.todo) \in Seq(Names)
  BY <1>1, <1>2
<1>4. Len(Worker.todo) \in Nat \ {0} BY <1>1, <1>2
<1>5. ASSUME Len(Worker.todo) # 1 PROVE Tail(Worker.todo) # <<>>
  <2>1. \A q \in Seq(Names) : q # <<>> => Len(Tail(q)) = Len(q) - 1 OBVIOUS
  <2> DEFINE q == Tail(Worker.todo)
  <2>2. Len(q) # 0 BY <1>1, <1>2, <1>4, <1>5, <2>1
  <2> HIDE DEF q
  <2>3. q # <<>> BY <2>2
  <2>4. QED BY <2>3 DEF q
<1>6. QED BY <1>3, <1>4, <1>5 DEF Service

\* Reloading.
LEMMA ListTyped ==
    ASSUME StoresTyped, ProcTyped, NEW p \in Procs, List(p)
    PROVE  /\ StoresTyped' /\ ProcTyped'
           /\ proc'[p] = [proc[p] EXCEPT !.pc = "clear", !.seen = Listing(provider),
                                         !.left = Listing(provider), !.mixed = FALSE]
           /\ proc'[Other(p)] = proc[Other(p)]
<1>1. Listing(provider) \in SUBSET Snaps BY ListingTyped
<1>2. StoresTyped' BY DEF List, Unlocked, StoresTyped, store, journal, bounds
<1>3. [proc[p] EXCEPT !.pc = "clear", !.seen = Listing(provider), !.left = Listing(provider),
                      !.mixed = FALSE] \in Processes
  BY <1>1 DEF ProcTyped, Processes
<1>4. proc' = [proc EXCEPT ![p] = [proc[p] EXCEPT !.pc = "clear", !.seen = Listing(provider),
                                        !.left = Listing(provider), !.mixed = FALSE]]
  BY DEF List, ProcTyped, Processes
<1>5. proc \in [Procs -> Processes] BY DEF ProcTyped
<1>6. Other(p) \in Procs /\ Other(p) # p BY TheOther DEF Procs
<1>7. QED BY <1>2, <1>3, <1>4, <1>5, <1>6, OneProcess

LEMMA ClearTyped ==
    ASSUME StoresTyped, ProcTyped, NEW p \in Procs, Clear(p)
    PROVE  /\ StoresTyped' /\ ProcTyped'
           /\ proc'[p] = [proc[p] EXCEPT !.pc = "fill"]
           /\ proc'[Other(p)] = Marked(Other(p), p)
<1>1. StoresTyped' BY DEF Clear, StoresTyped, store, journal, bounds
<1>2. Mixing(p) \in [Procs -> Processes] BY MixingTyped
<1>3. [Mixing(p)[p] EXCEPT !.pc = "fill"] \in Processes BY <1>2 DEF Processes
<1>4. proc' = [Mixing(p) EXCEPT ![p] = [Mixing(p)[p] EXCEPT !.pc = "fill"]]
  BY <1>2 DEF Clear
<1>5. Other(p) \in Procs /\ Other(p) # p BY TheOther DEF Procs
<1>6. proc'[p] = [Mixing(p)[p] EXCEPT !.pc = "fill"] /\ proc'[Other(p)] = Mixing(p)[Other(p)]
      /\ ProcTyped'
  BY <1>2, <1>3, <1>4, <1>5, OneProcess
<1>7. QED BY <1>1, <1>6, MixingTyped, Zenon DEF Marked

\* The oldest of the snapshots that are left.
LEMMA Oldest ==
    ASSUME NEW S \in SUBSET Snaps, S # {}
    PROVE  (CHOOSE x \in S : \A y \in S : x.at <= y.at) \in S
<1> DEFINE T == {x.at : x \in S}
<1>1. T \in SUBSET Nat /\ T # {} BY SnapshotsAssumption DEF Snaps, Times
<1> HIDE DEF T
<1>2. PICK t \in T : \A u \in T : t <= u BY <1>1, LeastNumber
<1>3. PICK x \in S : x.at = t BY <1>2 DEF T
<1>4. \A y \in S : x.at <= y.at BY <1>2, <1>3 DEF T
<1>5. QED BY <1>4

LEMMA FillTyped ==
    ASSUME StoresTyped, ProcTyped, NEW p \in Procs, Fill(p)
    PROVE  /\ StoresTyped' /\ ProcTyped'
           /\ \E x \in proc[p].left :
                /\ cache' = cache \cup {x}
                /\ proc'[p] = [proc[p] EXCEPT !.left = @ \ {x}]
           /\ proc'[Other(p)] = Marked(Other(p), p)
<1> DEFINE x == CHOOSE x \in proc[p].left : \A y \in proc[p].left : x.at <= y.at
<1>1. proc[p].left \in SUBSET Snaps /\ proc[p].left # {}
  BY DEF ProcTyped, Processes, Fill
<1>2. x \in proc[p].left BY <1>1, Oldest
<1>3. cache' = cache \cup {x} /\ proc' = [Mixing(p) EXCEPT ![p].left = @ \ {x}]
  BY DEF Fill
<1> HIDE DEF x
<1>4. StoresTyped' BY <1>1, <1>2, <1>3 DEF Fill, StoresTyped, store, journal, bounds
<1>5. Mixing(p) \in [Procs -> Processes] BY MixingTyped
<1>6. [Mixing(p)[p] EXCEPT !.left = @ \ {x}] \in Processes BY <1>5 DEF Processes
<1>7. proc' = [Mixing(p) EXCEPT ![p] = [Mixing(p)[p] EXCEPT !.left = @ \ {x}]]
  BY <1>3, <1>5
<1>8. Other(p) \in Procs /\ Other(p) # p BY TheOther DEF Procs
<1>9. proc'[p] = [Mixing(p)[p] EXCEPT !.left = @ \ {x}] /\ proc'[Other(p)] = Mixing(p)[Other(p)]
      /\ ProcTyped'
  BY <1>5, <1>6, <1>7, <1>8, OneProcess
<1>10. proc'[p] = [proc[p] EXCEPT !.left = @ \ {x}] /\ proc'[Other(p)] = Marked(Other(p), p)
  BY <1>9, MixingTyped, Zenon DEF Marked
<1>11. QED BY <1>2, <1>3, <1>4, <1>9, <1>10

LEMMA FilledTyped ==
    ASSUME StoresTyped, ProcTyped, NEW p \in Procs, Filled(p)
    PROVE  /\ StoresTyped' /\ ProcTyped'
           /\ proc'[p] = [proc[p] EXCEPT !.pc = proc[p].then, !.seen = {}, !.mixed = FALSE]
           /\ proc'[Other(p)] = proc[Other(p)]
<1>1. StoresTyped' BY DEF Filled, StoresTyped, store, journal, bounds, ProcTyped, Processes
<1>2. [proc[p] EXCEPT !.pc = proc[p].then, !.seen = {}, !.mixed = FALSE] \in Processes
  BY DEF ProcTyped, Processes
<1>3. proc' = [proc EXCEPT ![p] = [proc[p] EXCEPT !.pc = proc[p].then, !.seen = {}, !.mixed = FALSE]]
  BY DEF Filled, ProcTyped
<1>4. proc \in [Procs -> Processes] BY DEF ProcTyped
<1>5. Other(p) \in Procs /\ Other(p) # p BY TheOther DEF Procs
<1>6. QED BY <1>1, <1>2, <1>3, <1>4, <1>5, OneProcess


-----------------------------------------------------------------------------
(* The steps, with what they do to the two processes                         *)

LEMMA Typed ==
    ASSUME ProcTyped
    PROVE  /\ proc \in [Procs -> Processes] /\ "api" \in Procs /\ "worker" \in Procs
           /\ Worker \in Processes /\ proc["api"] \in Processes
BY DEF ProcTyped, Procs, Worker

LEMMA TurnEffect ==
    ASSUME ProcTyped, NEW r \in Processes, Turn(r)
    PROVE  ProcTyped' /\ Worker' = r /\ proc'["api"] = proc["api"]
<1>1. proc' = [proc EXCEPT !["worker"] = r] BY DEF Turn
<1>2. QED BY <1>1, Typed, OneProcess DEF Worker

LEMMA GotoEffect ==
    ASSUME ProcTyped, NEW p \in Procs,
           NEW pc \in {"idle", "list", "init", "upload"}, Goto(p, pc)
    PROVE  ProcTyped' /\ proc'[p] = [proc[p] EXCEPT !.pc = pc]
           /\ \A q \in Procs : q # p => proc'[q] = proc[q]
<1>1. [proc[p] EXCEPT !.pc = pc] \in Processes BY DEF ProcTyped, Processes
<1>2. proc' = [proc EXCEPT ![p] = [proc[p] EXCEPT !.pc = pc]] BY DEF Goto, ProcTyped
<1>3. proc \in [Procs -> Processes] BY DEF ProcTyped
<1>4. QED BY <1>1, <1>2, <1>3, OneProcess

\* The end of a job that runs.
LEMMA LiveTyped ==
    ASSUME StoresTyped, RunningIsLive, NEW s \in Names, running[s]
    PROVE  /\ Newest(live[s]) \in Times
           /\ [live EXCEPT ![s] = AllFront(@)] \in [Names -> Seq(Times)]
           /\ [running EXCEPT ![s] = FALSE] \in [Names -> BOOLEAN]
<1>1. live[s] \in Seq(Times) /\ live[s] # <<>> /\ live \in [Names -> Seq(Times)]
  BY DEF StoresTyped, RunningIsLive
<1>2. \A q \in Seq(Times) : q # <<>> => q[Len(q)] \in Times /\ SubSeq(q, 1, Len(q) - 1) \in Seq(Times)
  OBVIOUS
<1>3. QED BY <1>1, <1>2 DEF StoresTyped, Newest, AllFront

LEMMA JobFailsEffect ==
    ASSUME StoresTyped, ProcTyped, RunningIsLive, Service \in Names, running[Service], JobFails
    PROVE  /\ live' \in [Names -> Seq(Times)] /\ running' \in [Names -> BOOLEAN]
           /\ failed' \in [Names -> Times \cup {None}]
           /\ RunningIsLive'
           /\ ProcTyped' /\ Worker' = Rest /\ proc'["api"] = proc["api"]
<1> DEFINE s == Service
           at == Newest(live[s])
<1>1. at \in Times /\ live' = [live EXCEPT ![s] = AllFront(@)]
      /\ running' = [running EXCEPT ![s] = FALSE]
      /\ live' \in [Names -> Seq(Times)] /\ running' \in [Names -> BOOLEAN]
  BY LiveTyped DEF JobFails
<1>2. failed' = [failed EXCEPT ![s] = IF @ # None THEN (IF @ > at THEN @ ELSE at) ELSE at]
  BY DEF JobFails
<1>3. Turn(Rest) BY DEF JobFails
<1> HIDE DEF s, at
<1>4. failed' \in [Names -> Times \cup {None}] BY <1>1, <1>2 DEF StoresTyped
<1>5. RunningIsLive' BY <1>1 DEF RunningIsLive, StoresTyped
<1>6. QED BY <1>1, <1>3, <1>4, <1>5, RestTyped, TurnEffect

-----------------------------------------------------------------------------
(* The invariant, process by process                                         *)

ApiTurn == /\ proc["api"].pc \in {"idle", "list", "clear", "fill", "init"}
           /\ proc["api"].then = "idle"

\* The turn of a worker that does w while the jobs of run are running.
WorkerTurn(w, run) ==
    /\ w.pc # "init"
    /\ w.pc # "idle" /\ (w.pc \in {"list", "clear", "fill"} => w.then # "idle") => w.todo # <<>>
    /\ w.pc = "stamp" => w.made \in Snaps
    /\ w.made # None \/ w.pc = "upload" => w.todo # <<>> /\ run[Head(w.todo)]

LEMMA TurnsParts == TurnsInv <=> ApiTurn /\ WorkerTurn(Worker, running)
BY Zenon DEF TurnsInv, ApiTurn, WorkerTurn, Reloading, Worker, At, Backing, Service

LEMMA TurnsPartsNext == TurnsInv' <=> ApiTurn' /\ WorkerTurn(Worker', running')
BY Zenon DEF TurnsInv, ApiTurn, WorkerTurn, Reloading, Worker, At, Backing, Service

\* What the invariant says of a reload r, with o the other process and c the cache.
ReloadOf(r, o, c) ==
    /\ r.left \subseteq r.seen
    /\ r.pc = "clear" => r.left = r.seen
    /\ r.pc = "fill" /\ ~r.mixed =>
         /\ c \subseteq r.seen
         /\ r.seen \subseteq c \cup r.left \cup (IF o.pc = "fill" THEN o.left ELSE {})

LEMMA ReloadParts ==
    ReloadInv <=> ReloadOf(proc["api"], Worker, cache) /\ ReloadOf(Worker, proc["api"], cache)
BY TheOther DEF ReloadInv, ReloadOf, Worker, Unstored, Procs

LEMMA ReloadPartsNext ==
    ReloadInv' <=> /\ ReloadOf(proc'["api"], Worker', cache')
                   /\ ReloadOf(Worker', proc'["api"], cache')
BY TheOther DEF ReloadInv, ReloadOf, Worker, Unstored, Procs, Other

InUpdate(r) == r.pc \in {"stamp", "list", "clear", "fill"}

LEMMA CacheParts ==
    CacheMatchesRepository <=>
        InUpdate(proc["api"]) \/ InUpdate(Worker) \/ excused \/ cache = Listing(provider)
BY DEF CacheMatchesRepository, InUpdate, Updating, Worker, Procs

LEMMA CachePartsNext ==
    CacheMatchesRepository' <=>
        InUpdate(proc'["api"]) \/ InUpdate(Worker') \/ excused' \/ cache' = Listing(provider)'
BY DEF CacheMatchesRepository, InUpdate, Updating, Worker, Procs

\* A step of the worker that leaves the cache and the provider alone.
LEMMA WorkerKeeps ==
    ASSUME SnapshotsInv, StoresTyped', ProcTyped', RunningIsLive',
           proc'["api"] = proc["api"], cache' = cache, provider' = provider, mark' = mark,
           Worker.pc # "fill", Worker'.pc \notin {"clear", "fill"},
           Worker'.left \subseteq Worker'.seen, WorkerTurn(Worker', running'),
           \/ excused' \/ InUpdate(Worker')
           \/ repo' = repo /\ excused' = excused /\ ~InUpdate(Worker)
    PROVE  SnapshotsInv'
<1>1. TypeOK' BY TypePartsNext
<1>2. TurnsInv' BY Parts, TurnsParts, TurnsPartsNext DEF ApiTurn
<1>3. NoRepository' BY Parts DEF NoRepository
<1>4. ReloadInv'
  <2>1. ReloadOf(proc["api"], Worker, cache) BY Parts, ReloadParts
  <2>2. ReloadOf(proc'["api"], Worker', cache') BY <2>1 DEF ReloadOf
  <2>3. ReloadOf(Worker', proc'["api"], cache') BY DEF ReloadOf
  <2>4. QED BY <2>2, <2>3, ReloadPartsNext
<1>5. CacheMatchesRepository'
  <2>1. CASE excused' \/ InUpdate(Worker') BY <2>1, CachePartsNext
  <2>2. CASE repo' = repo /\ excused' = excused /\ ~InUpdate(Worker)
    <3>1. Listing(provider)' = Listing(provider) BY <2>2 DEF Listing
    <3>2. QED BY <2>2, <3>1, Parts, CacheParts, CachePartsNext
  <2>3. QED BY <2>1, <2>2
<1>6. QED BY <1>1, <1>2, <1>3, <1>4, <1>5, PartsNext

\* A step of the API that leaves the cache alone.
LEMMA ApiKeeps ==
    ASSUME SnapshotsInv, StoresTyped', ProcTyped', RunningIsLive', NoRepository', ApiTurn',
           Worker' = Worker, cache' = cache, running' = running,
           proc["api"].pc # "fill", proc'["api"].pc \notin {"clear", "fill"},
           proc'["api"].left \subseteq proc'["api"].seen,
           \/ excused' \/ InUpdate(proc'["api"])
           \/ repo' = repo /\ provider' = provider /\ excused' = excused /\ ~InUpdate(proc["api"])
    PROVE  SnapshotsInv'
<1>1. TypeOK' BY TypePartsNext
<1>2. TurnsInv' BY Parts, TurnsParts, TurnsPartsNext
<1>4. ReloadInv'
  <2>1. ReloadOf(Worker, proc["api"], cache) BY Parts, ReloadParts
  <2>2. ReloadOf(Worker', proc'["api"], cache') BY <2>1 DEF ReloadOf
  <2>3. ReloadOf(proc'["api"], Worker', cache') BY DEF ReloadOf
  <2>4. QED BY <2>2, <2>3, ReloadPartsNext
<1>5. CacheMatchesRepository'
  <2>1. CASE excused' \/ InUpdate(proc'["api"]) BY <2>1, CachePartsNext
  <2>2. CASE repo' = repo /\ provider' = provider /\ excused' = excused /\ ~InUpdate(proc["api"])
    <3>1. Listing(provider)' = Listing(provider) BY <2>2 DEF Listing
    <3>2. QED BY <2>2, <3>1, Parts, CacheParts, CachePartsNext
  <2>3. QED BY <2>1, <2>2
<1>6. QED BY <1>1, <1>2, <1>4, <1>5, PartsNext

-----------------------------------------------------------------------------
(* Reloading the cache                                                       *)

LEMMA ReloadOfBoth ==
    ASSUME NEW p \in Procs
    PROVE  ReloadInv <=> /\ ReloadOf(proc[p], proc[Other(p)], cache)
                         /\ ReloadOf(proc[Other(p)], proc[p], cache)
BY ReloadParts, TheOther DEF Procs, Worker

LEMMA ReloadOfBothNext ==
    ASSUME NEW p \in Procs
    PROVE  ReloadInv' <=> /\ ReloadOf(proc'[p], proc'[Other(p)], cache')
                          /\ ReloadOf(proc'[Other(p)], proc'[p], cache')
BY ReloadPartsNext, TheOther DEF Procs, Worker

LEMMA CacheOfBoth ==
    ASSUME NEW p \in Procs
    PROVE  CacheMatchesRepository <=> \/ InUpdate(proc[p]) \/ InUpdate(proc[Other(p)])
                                      \/ excused \/ cache = Listing(provider)
BY CacheParts, TheOther DEF Procs, Worker

LEMMA CacheOfBothNext ==
    ASSUME NEW p \in Procs
    PROVE  CacheMatchesRepository' <=> \/ InUpdate(proc'[p]) \/ InUpdate(proc'[Other(p)])
                                       \/ excused' \/ cache' = Listing(provider)'
BY CachePartsNext, TheOther DEF Procs, Worker

SameTask(r, s) == r.then = s.then /\ r.todo = s.todo /\ r.made = s.made

\* A step of a reload leaves alone what the processes are doing it for.
LEMMA ReloadTurns ==
    ASSUME SnapshotsInv, NEW p \in Procs, UNCHANGED <<running, live, provider, mark>>,
           SameTask(proc'[p], proc[p]), SameTask(proc'[Other(p)], proc[Other(p)]),
           proc'[Other(p)].pc = proc[Other(p)].pc,
           proc[p].pc \in {"list", "clear", "fill"},
           proc'[p].pc \in {"clear", "fill"} \/ proc'[p].pc = proc[p].then
    PROVE  TurnsInv' /\ RunningIsLive' /\ NoRepository'
<1>1. ApiTurn /\ WorkerTurn(Worker, running) /\ RunningIsLive /\ NoRepository
  BY Parts, TurnsParts
<1>2. Worker.then \in {"idle", "prune", "finish"}
  BY Parts, Typed, TypeParts DEF Processes
<1>3. CASE p = "api"
  <2>1. ApiTurn' /\ proc'["api"].pc # "init" BY <1>1, <1>3 DEF ApiTurn, SameTask
  <2>2. SameTask(Worker', Worker) /\ Worker'.pc = Worker.pc BY <1>3, TheOther DEF Worker
  <2>3. WorkerTurn(Worker', running') BY <1>1, <2>2 DEF WorkerTurn, SameTask
  <2>4. QED BY <1>1, <2>1, <2>3, TurnsPartsNext DEF RunningIsLive, NoRepository
<1>4. CASE p = "worker"
  <2>1. ApiTurn' /\ proc'["api"].pc = proc["api"].pc
    BY <1>1, <1>4, TheOther DEF ApiTurn, SameTask
  <2>2. SameTask(Worker', Worker) /\ Worker.pc \in {"list", "clear", "fill"}
        /\ (Worker'.pc \in {"clear", "fill"} \/ Worker'.pc = Worker.then)
    BY <1>4 DEF Worker
  <2>3. WorkerTurn(Worker', running') BY <1>1, <1>2, <2>2 DEF WorkerTurn, SameTask
  <2>4. QED BY <1>1, <2>1, <2>3, TurnsPartsNext DEF RunningIsLive, NoRepository
<1>5. QED BY <1>3, <1>4 DEF Procs

LEMMA ListKeeps ==
    ASSUME SnapshotsInv, NEW p \in Procs, List(p)
    PROVE  SnapshotsInv'
<1> DEFINE o == Other(p)
<1>1. StoresTyped /\ ProcTyped /\ proc[p] \in Processes /\ proc[o] \in Processes
  BY Parts, TypeParts, TheOther DEF ProcTyped, Procs
<1>2. /\ StoresTyped' /\ ProcTyped'
      /\ proc'[p] = [proc[p] EXCEPT !.pc = "clear", !.seen = Listing(provider),
                                    !.left = Listing(provider), !.mixed = FALSE]
      /\ proc'[o] = proc[o]
  BY <1>1, ListTyped
<1>3. /\ proc'[p].pc = "clear" /\ proc'[p].seen = proc'[p].left
      /\ SameTask(proc'[p], proc[p])
  BY <1>1, <1>2 DEF Processes, SameTask
<1>4. proc[p].pc = "list" /\ cache' = cache /\ UNCHANGED <<running, live, provider, mark>>
  BY DEF List, store, journal
<1> HIDE DEF o
<1>5. TurnsInv' /\ RunningIsLive' /\ NoRepository'
  BY <1>2, <1>3, <1>4, ReloadTurns DEF o, SameTask
<1>6. ReloadInv'
  <2>1. ReloadOf(proc[o], proc[p], cache) BY Parts, ReloadOfBoth DEF o
  <2>2. ReloadOf(proc'[o], proc'[p], cache') BY <1>2, <1>3, <1>4, <2>1 DEF ReloadOf
  <2>3. ReloadOf(proc'[p], proc'[o], cache') BY <1>3 DEF ReloadOf
  <2>4. QED BY <2>2, <2>3, ReloadOfBothNext DEF o
<1>7. CacheMatchesRepository' BY <1>3, CacheOfBothNext DEF InUpdate
<1>8. QED BY <1>2, <1>5, <1>6, <1>7, PartsNext, TypePartsNext

LEMMA ClearKeeps ==
    ASSUME SnapshotsInv, NEW p \in Procs, Clear(p)
    PROVE  SnapshotsInv'
<1> DEFINE o == Other(p)
<1>1. StoresTyped /\ ProcTyped /\ proc[p] \in Processes /\ proc[o] \in Processes
  BY Parts, TypeParts, TheOther DEF ProcTyped, Procs
<1>2. /\ StoresTyped' /\ ProcTyped'
      /\ proc'[p] = [proc[p] EXCEPT !.pc = "fill"]
      /\ proc'[o] = Marked(o, p)
  BY <1>1, ClearTyped
<1>3. /\ proc'[p].pc = "fill" /\ proc'[p].seen = proc[p].seen /\ proc'[p].left = proc[p].left
      /\ SameTask(proc'[p], proc[p])
  BY <1>1, <1>2 DEF Processes, SameTask
<1>4. /\ proc'[o].pc = proc[o].pc /\ proc'[o].seen = proc[o].seen /\ proc'[o].left = proc[o].left
      /\ proc'[o].mixed = (proc[o].mixed \/ (Listed(o) /\ proc[o].seen # proc[p].seen))
      /\ SameTask(proc'[o], proc[o])
  BY <1>1, <1>2 DEF Processes, SameTask, Marked
<1>5. proc[p].pc = "clear" /\ cache' = {} /\ UNCHANGED <<running, live, provider, mark>>
  BY DEF Clear, store, journal
<1> HIDE DEF o
<1>6. TurnsInv' /\ RunningIsLive' /\ NoRepository'
  BY <1>3, <1>4, <1>5, ReloadTurns DEF o
<1>7. ReloadInv'
  <2>1. ReloadOf(proc[o], proc[p], cache) /\ ReloadOf(proc[p], proc[o], cache)
    BY Parts, ReloadOfBoth DEF o
  <2>2. proc[p].left = proc[p].seen BY <2>1, <1>5 DEF ReloadOf
  <2>3. ReloadOf(proc'[o], proc'[p], cache')
    BY <1>3, <1>4, <1>5, <2>1, <2>2 DEF ReloadOf, Listed
  <2>4. ReloadOf(proc'[p], proc'[o], cache') BY <1>3, <1>4, <1>5, <2>2 DEF ReloadOf
  <2>5. QED BY <2>3, <2>4, ReloadOfBothNext DEF o
<1>8. CacheMatchesRepository' BY <1>3, CacheOfBothNext DEF InUpdate
<1>9. QED BY <1>2, <1>6, <1>7, <1>8, PartsNext, TypePartsNext

LEMMA FillKeeps ==
    ASSUME SnapshotsInv, NEW p \in Procs, Fill(p)
    PROVE  SnapshotsInv'
<1> DEFINE o == Other(p)
<1>1. StoresTyped /\ ProcTyped /\ proc[p] \in Processes /\ proc[o] \in Processes
  BY Parts, TypeParts, TheOther DEF ProcTyped, Procs
<1>2. StoresTyped' /\ ProcTyped' /\ proc'[o] = Marked(o, p)
  BY <1>1, FillTyped
<1>3. PICK x \in proc[p].left :
          cache' = cache \cup {x} /\ proc'[p] = [proc[p] EXCEPT !.left = @ \ {x}]
  BY <1>1, FillTyped
<1>4. /\ proc'[p].pc = proc[p].pc /\ proc'[p].seen = proc[p].seen
      /\ proc'[p].left = proc[p].left \ {x} /\ proc'[p].mixed = proc[p].mixed
      /\ SameTask(proc'[p], proc[p])
  BY <1>1, <1>3 DEF Processes, SameTask
<1>5. /\ proc'[o].pc = proc[o].pc /\ proc'[o].seen = proc[o].seen /\ proc'[o].left = proc[o].left
      /\ proc'[o].mixed = (proc[o].mixed \/ (Listed(o) /\ proc[o].seen # proc[p].seen))
      /\ SameTask(proc'[o], proc[o])
  BY <1>1, <1>2 DEF Processes, SameTask, Marked
<1>6. proc[p].pc = "fill" /\ UNCHANGED <<running, live, provider, mark>>
  BY DEF Fill, store, journal
<1> HIDE DEF o
<1>7. TurnsInv' /\ RunningIsLive' /\ NoRepository'
  BY <1>4, <1>5, <1>6, ReloadTurns DEF o
<1>8. ReloadInv'
  <2>1. ReloadOf(proc[o], proc[p], cache) /\ ReloadOf(proc[p], proc[o], cache)
    BY Parts, ReloadOfBoth DEF o
  <2>2. ReloadOf(proc'[o], proc'[p], cache')
    <3>1. CASE proc[o].pc = "fill" /\ ~proc'[o].mixed
      <4>1. proc[o].seen = proc[p].seen /\ ~proc[o].mixed BY <1>5, <3>1 DEF Listed
      <4>2. x \in proc[o].seen BY <1>3, <2>1, <4>1 DEF ReloadOf
      <4>3. /\ cache \subseteq proc[o].seen
            /\ proc[o].seen \subseteq cache \cup proc[o].left \cup proc[p].left
        BY <1>6, <2>1, <3>1, <4>1 DEF ReloadOf
      <4>4. QED BY <1>3, <1>4, <1>5, <1>6, <2>1, <3>1, <4>2, <4>3 DEF ReloadOf
    <3>2. CASE ~(proc[o].pc = "fill" /\ ~proc'[o].mixed)
      BY <1>5, <2>1, <3>2 DEF ReloadOf
    <3>3. QED BY <3>1, <3>2
  <2>3. ReloadOf(proc'[p], proc'[o], cache') BY <1>3, <1>4, <1>5, <1>6, <2>1 DEF ReloadOf
  <2>4. QED BY <2>2, <2>3, ReloadOfBothNext DEF o
<1>9. CacheMatchesRepository' BY <1>4, <1>6, CacheOfBothNext DEF InUpdate
<1>10. QED BY <1>2, <1>7, <1>8, <1>9, PartsNext, TypePartsNext

LEMMA FilledKeeps ==
    ASSUME SnapshotsInv, NEW p \in Procs, Filled(p)
    PROVE  SnapshotsInv'
<1> DEFINE o == Other(p)
<1>1. StoresTyped /\ ProcTyped /\ proc[p] \in Processes /\ proc[o] \in Processes
  BY Parts, TypeParts, TheOther DEF ProcTyped, Procs
<1>2. /\ StoresTyped' /\ ProcTyped'
      /\ proc'[p] = [proc[p] EXCEPT !.pc = proc[p].then, !.seen = {}, !.mixed = FALSE]
      /\ proc'[o] = proc[o]
  BY <1>1, FilledTyped
<1>3. /\ proc'[p].pc = proc[p].then /\ proc'[p].pc \in {"idle", "prune", "finish"}
      /\ proc'[p].left = proc[p].left /\ SameTask(proc'[p], proc[p])
  BY <1>1, <1>2 DEF Processes, SameTask
<1>4. /\ proc[p].pc = "fill" /\ proc[p].left = {} /\ cache' = cache
      /\ excused' = (proc[p].mixed \/ proc[p].seen # Listing(provider))
      /\ UNCHANGED <<running, live, provider, mark, repo>>
  BY DEF Filled, store, journal
<1> HIDE DEF o
<1>5. TurnsInv' /\ RunningIsLive' /\ NoRepository'
  BY <1>2, <1>3, <1>4, ReloadTurns DEF o, SameTask
<1>6. ReloadOf(proc[o], proc[p], cache) /\ ReloadOf(proc[p], proc[o], cache)
  BY Parts, ReloadOfBoth DEF o
<1>7. ReloadInv'
  <2>1. ReloadOf(proc'[o], proc'[p], cache') BY <1>2, <1>4, <1>6 DEF ReloadOf
  <2>2. ReloadOf(proc'[p], proc'[o], cache') BY <1>3, <1>4 DEF ReloadOf
  <2>3. QED BY <2>1, <2>2, ReloadOfBothNext DEF o
<1>8. CacheMatchesRepository'
  <2>1. ASSUME ~excused', ~InUpdate(proc'[o]) PROVE cache' = Listing(provider)'
    <3>1. ~proc[p].mixed /\ proc[p].seen = Listing(provider) BY <1>1, <1>4, <2>1 DEF Processes
    <3>2. proc[o].pc # "fill" BY <1>2, <2>1 DEF InUpdate
    <3>3. cache = proc[p].seen BY <1>4, <1>6, <3>1, <3>2 DEF ReloadOf
    <3>4. Listing(provider)' = Listing(provider) BY <1>4 DEF Listing
    <3>5. QED BY <1>4, <3>1, <3>3, <3>4
  <2>2. QED BY <2>1, CacheOfBothNext DEF o
<1>9. QED BY <1>2, <1>5, <1>7, <1>8, PartsNext, TypePartsNext

-----------------------------------------------------------------------------
(* The worker                                                                *)

\* What the invariant gives for a step of the worker.
LEMMA WorkerKnows ==
    ASSUME SnapshotsInv
    PROVE  /\ StoresTyped /\ ProcTyped /\ Worker \in Processes /\ RunningIsLive
           /\ WorkerTurn(Worker, running) /\ Worker.left \subseteq Worker.seen
           /\ (Worker.todo # <<>> => Service \in Names)
           /\ (Backing => Service \in Names /\ running[Service])
           /\ Service = Head(Worker.todo)
<1>1. StoresTyped /\ ProcTyped /\ Worker \in Processes /\ RunningIsLive
  BY Parts, TypeParts, Typed
<1>2. WorkerTurn(Worker, running) BY Parts, TurnsParts
<1>3. Worker.left \subseteq Worker.seen BY Parts, ReloadParts DEF ReloadOf
<1>4. Worker.todo # <<>> => Service \in Names BY <1>1, ServiceTyped
<1>5. Backing => Service \in Names /\ running[Service]
  BY <1>2, <1>4 DEF WorkerTurn, Backing, At, Service
<1>6. QED BY <1>1, <1>2, <1>3, <1>4, <1>5 DEF Service

LEMMA HeadOfTasks ==
    ASSUME StoresTyped, tasks # <<>>
    PROVE  /\ Head(tasks) \in Tasks /\ Tail(tasks) \in Seq(Tasks)
           /\ (Head(tasks).op = "backup" => Head(tasks).service \in Names)
<1>1. Head(tasks) \in Tasks /\ Tail(tasks) \in Seq(Tasks) BY DEF StoresTyped
<1>2. \A t \in Tasks : t.op = "backup" => t.service \in Names BY DEF Tasks
<1>3. QED BY <1>1, <1>2

\* A worker that takes a task on, or has none.
LEMMA TurnKeeps ==
    ASSUME SnapshotsInv, StoresTyped', RunningIsLive', NEW r \in Processes, Turn(r),
           r.pc \notin {"clear", "fill"}, r.left \subseteq r.seen, WorkerTurn(r, running'),
           UNCHANGED <<cache, provider, mark>>, Worker.pc # "fill",
           \/ excused' \/ InUpdate(r)
           \/ repo' = repo /\ excused' = excused /\ ~InUpdate(Worker)
    PROVE  SnapshotsInv'
<1>1. ProcTyped' /\ Worker' = r /\ proc'["api"] = proc["api"] BY WorkerKnows, TurnEffect
<1>2. QED BY <1>1, WorkerKeeps

LEMMA RestFields ==
    /\ Rest \in Processes /\ Rest.pc = "idle" /\ Rest.left = {} /\ Rest.seen = {}
    /\ Rest.then = "idle" /\ Rest.made = None /\ Rest.auto = FALSE
BY DEF Rest, Processes

LEMMA TaskTyped ==
    ASSUME NEW q \in Seq(Names), q # <<>>, NEW pc \in {"start", "prune"}, NEW run,
           NEW r, NEW a \in BOOLEAN, r = [[Rest EXCEPT !.pc = pc, !.todo = q] EXCEPT !.auto = a]
    PROVE  r \in Processes /\ r.pc = pc /\ r.left \subseteq r.seen /\ WorkerTurn(r, run)
<1>1. /\ r \in Processes /\ r.pc = pc /\ r.left = {} /\ r.todo = q /\ r.made = None
  BY RestFields DEF Processes
<1>2. QED BY <1>1 DEF WorkerTurn

LEMMA RestTurn ==
    ASSUME NEW run
    PROVE  Rest \in Processes /\ Rest.pc = "idle" /\ Rest.left \subseteq Rest.seen /\ WorkerTurn(Rest, run)
BY DEF Rest, Processes, WorkerTurn

LEMMA TakeKeeps ==
    ASSUME SnapshotsInv, TakeBackup \/ TakePrune \/ Autobackup
    PROVE  SnapshotsInv'
<1>1. Worker.pc = "idle" /\ UNCHANGED <<cache, provider, mark, running, live, repo, excused>>
  BY DEF TakeBackup, TakePrune, Autobackup, At, store, journal
<1>2. StoresTyped /\ RunningIsLive BY WorkerKnows
<1>3. RunningIsLive' BY <1>1, <1>2 DEF RunningIsLive
<1>4. ASSUME NEW q \in Seq(Names), q # <<>>, NEW pc \in {"start", "prune"}, StoresTyped',
             NEW r, NEW a \in BOOLEAN, r = [[Rest EXCEPT !.pc = pc, !.todo = q] EXCEPT !.auto = a],
             Turn(r)
      PROVE  SnapshotsInv'
  <2>1. r \in Processes /\ r.pc = pc /\ r.left \subseteq r.seen /\ WorkerTurn(r, running')
    BY <1>4, TaskTyped, Zenon
  <2>2. QED BY <1>1, <1>3, <1>4, <2>1, TurnKeeps DEF InUpdate
<1>5. CASE TakeBackup
  <2>1. tasks' = Tail(tasks) /\ tasks # <<>> /\ Head(tasks).op = "backup"
        /\ Turn([Rest EXCEPT !.pc = "start", !.todo = <<Head(tasks).service>>])
    BY <1>5 DEF TakeBackup
  <2>2. StoresTyped' BY <1>2, <1>5, <2>1, HeadOfTasks DEF TakeBackup, StoresTyped, store, journal, bounds
  <2>3. <<Head(tasks).service>> \in Seq(Names) /\ <<Head(tasks).service>> # <<>>
    BY <1>2, <2>1, HeadOfTasks
  <2> DEFINE q == <<Head(tasks).service>>
             r == [Rest EXCEPT !.pc = "start", !.todo = q]
  <2>4. r = [r EXCEPT !.auto = FALSE] BY <2>3, RestFields DEF Processes
  <2>5. QED BY <1>4, <2>1, <2>2, <2>3, <2>4
<1>6. CASE TakePrune
  <2>1. tasks' = Tail(tasks) /\ tasks # <<>>
        /\ Turn([Rest EXCEPT !.pc = "prune", !.todo = Services])
    BY <1>6 DEF TakePrune
  <2>2. StoresTyped' BY <1>2, <1>6, <2>1, HeadOfTasks DEF TakePrune, StoresTyped, store, journal, bounds
  <2> DEFINE r == [Rest EXCEPT !.pc = "prune", !.todo = Services]
  <2>3. r = [r EXCEPT !.auto = FALSE] BY ServicesTyped, RestFields DEF Processes
  <2>4. QED BY <1>4, <2>1, <2>2, <2>3, ServicesTyped
<1>7. CASE Autobackup
  <2>1. DueServices # <<>> /\ Turn([Rest EXCEPT !.pc = "start", !.todo = DueServices, !.auto = TRUE])
    BY <1>7 DEF Autobackup
  <2>2. StoresTyped' BY <1>2, <1>7 DEF Autobackup, StoresTyped, store, journal, bounds
  <2> DEFINE r == [Rest EXCEPT !.pc = "start", !.todo = DueServices, !.auto = TRUE]
  <2>3. r = [[Rest EXCEPT !.pc = "start", !.todo = DueServices] EXCEPT !.auto = TRUE] BY DEF Rest
  <2>4. QED BY <1>4, <2>1, <2>2, <2>3, DueServicesTyped
<1>8. QED BY <1>5, <1>6, <1>7

LEMMA PeriodicReloadKeeps ==
    ASSUME SnapshotsInv, PeriodicReload
    PROVE  SnapshotsInv'
<1> DEFINE r == [Rest EXCEPT !.pc = "list"]
<1>1. r \in Processes /\ r.pc = "list" /\ r.left = {} /\ r.then = "idle" /\ r.made = None
  BY RestFields DEF Processes
<1>2. Turn(r) /\ Worker.pc = "idle" /\ UNCHANGED <<cache, provider, mark, running, live>>
  BY DEF PeriodicReload, At, store, journal
<1>3. StoresTyped' BY WorkerKnows DEF PeriodicReload, StoresTyped, store, journal, bounds
<1>4. RunningIsLive' BY <1>2, WorkerKnows DEF RunningIsLive
<1> HIDE DEF r
<1>5. r.left \subseteq r.seen /\ WorkerTurn(r, running') BY <1>1 DEF WorkerTurn
<1>6. QED BY <1>1, <1>2, <1>3, <1>4, <1>5, TurnKeeps DEF InUpdate

LEMMA RunJobKeeps ==
    ASSUME SnapshotsInv, RunJob
    PROVE  SnapshotsInv'
<1>1. StoresTyped /\ ProcTyped /\ Worker \in Processes /\ RunningIsLive
      /\ WorkerTurn(Worker, running) /\ Worker.left \subseteq Worker.seen
  BY WorkerKnows
<1>2. Worker.pc = "start" /\ Goto("worker", "upload") BY DEF RunJob, At
<1>3. Worker.todo # <<>> BY <1>1, <1>2 DEF WorkerTurn
<1>4. Service \in Names /\ Service = Head(Worker.todo) BY <1>3, WorkerKnows
<1>5. /\ live' = [live EXCEPT ![Service] = IF @ = <<>> THEN <<clock>> ELSE @]
      /\ running' = [running EXCEPT ![Service] = TRUE]
      /\ UNCHANGED <<cache, provider, mark, repo, excused>>
  BY DEF RunJob, store
<1>6. live' \in [Names -> Seq(Times)] /\ running' \in [Names -> BOOLEAN]
  BY <1>1, <1>4, <1>5 DEF StoresTyped
<1>7. StoresTyped' BY <1>1, <1>6 DEF RunJob, StoresTyped, store, bounds
<1>8. RunningIsLive'
  <2>1. ASSUME NEW s \in Names, running'[s] PROVE live'[s] # <<>>
    <3>1. CASE s = Service BY <1>1, <1>4, <1>5, <3>1 DEF StoresTyped
    <3>2. CASE s # Service BY <1>1, <1>4, <1>5, <2>1, <3>2 DEF StoresTyped, RunningIsLive
    <3>3. QED BY <3>1, <3>2
  <2>2. QED BY <2>1 DEF RunningIsLive
<1>9. ProcTyped' /\ Worker' = [Worker EXCEPT !.pc = "upload"] /\ proc'["api"] = proc["api"]
  BY <1>1, <1>2, Typed, GotoEffect DEF Worker
<1>10. Worker'.pc = "upload" /\ Worker'.left = Worker.left /\ Worker'.seen = Worker.seen
       /\ Worker'.todo = Worker.todo
  BY <1>1, <1>9 DEF Processes
<1>11. running'[Head(Worker'.todo)] BY <1>1, <1>4, <1>5, <1>10 DEF StoresTyped
<1>12. WorkerTurn(Worker', running') BY <1>3, <1>10, <1>11 DEF WorkerTurn
<1>13. QED BY <1>1, <1>2, <1>5, <1>7, <1>8, <1>9, <1>10, <1>12, WorkerKeeps DEF InUpdate

\* The snapshot that a backup makes.
LEMMA UploadKeeps ==
    ASSUME SnapshotsInv, Upload
    PROVE  SnapshotsInv'
<1> DEFINE x == [at |-> clock, service |-> Service, auto |-> Worker.auto]
           r == [Worker EXCEPT !.pc = "stamp", !.made = x]
<1>1. StoresTyped /\ ProcTyped /\ Worker \in Processes /\ RunningIsLive
      /\ WorkerTurn(Worker, running) /\ Worker.left \subseteq Worker.seen
  BY WorkerKnows
<1>2. Worker.pc = "upload" /\ provider \in exists BY DEF Upload, At
<1>3. Worker.todo # <<>> /\ running[Head(Worker.todo)] BY <1>1, <1>2 DEF WorkerTurn
<1>4. Service \in Names BY <1>3, WorkerKnows
<1>5. x \in Snaps BY <1>1, <1>4 DEF Snaps, StoresTyped, Processes
<1>6. /\ repo' = [repo EXCEPT ![provider] = @ \cup {x}] /\ Turn(r)
      /\ UNCHANGED <<cache, provider, mark, running, live>>
  BY DEF Upload, store, journal
<1> HIDE DEF x
<1>8. repo' \in [Repos -> SUBSET Snaps] BY <1>1, <1>2, <1>5, <1>6 DEF StoresTyped
<1>9. StoresTyped' BY <1>1, <1>8 DEF Upload, Unlocked, StoresTyped, store, journal, bounds
<1>10. RunningIsLive' BY <1>1, <1>6 DEF RunningIsLive
<1>11. r \in Processes /\ r.pc = "stamp" /\ r.left \subseteq r.seen /\ r.todo = Worker.todo
       /\ r.made = x
  BY <1>1, <1>5 DEF Processes
<1> HIDE DEF r
<1>12. WorkerTurn(r, running') BY <1>3, <1>5, <1>6, <1>11 DEF WorkerTurn
<1>13. QED BY <1>2, <1>6, <1>9, <1>10, <1>11, <1>12, TurnKeeps DEF InUpdate

LEMMA StoreTimeKeeps ==
    ASSUME SnapshotsInv, StoreTime
    PROVE  SnapshotsInv'
<1> DEFINE r == [Worker EXCEPT !.pc = "list", !.then = IF Worker.auto THEN "prune" ELSE "finish"]
<1>1. StoresTyped /\ ProcTyped /\ Worker \in Processes /\ RunningIsLive
      /\ WorkerTurn(Worker, running) /\ Worker.left \subseteq Worker.seen
  BY WorkerKnows
<1>2. /\ Worker.pc = "stamp" /\ last' = [last EXCEPT ![Service] = Worker.made.at] /\ Turn(r)
      /\ UNCHANGED <<cache, provider, mark, running, live>>
  BY DEF StoreTime, At, store, journal
<1>3. Worker.made \in Snaps /\ Worker.todo # <<>> BY <1>1, <1>2 DEF WorkerTurn
<1>4. Service \in Names /\ Worker.made.at \in Times BY <1>3, WorkerKnows DEF Snaps
<1>5. last' \in [Names -> Times \cup {None}] BY <1>1, <1>2, <1>4 DEF StoresTyped
<1>6. StoresTyped' BY <1>1, <1>5 DEF StoreTime, StoresTyped, store, journal, bounds
<1>7. RunningIsLive' BY <1>1, <1>2 DEF RunningIsLive
<1>8. /\ r \in Processes /\ r.pc = "list" /\ r.left \subseteq r.seen /\ r.todo = Worker.todo
      /\ r.made = Worker.made
  BY <1>1 DEF Processes
<1> HIDE DEF r
<1>9. WorkerTurn(r, running') BY <1>1, <1>2, <1>3, <1>8 DEF WorkerTurn
<1>10. QED BY <1>2, <1>6, <1>7, <1>8, <1>9, TurnKeeps DEF InUpdate

\* A job that fails.
LEMMA JobFailsKeeps ==
    ASSUME SnapshotsInv, JobFails, Backing, UNCHANGED <<cache, provider, mark>>, Worker.pc # "fill",
           (live' \in [Names -> Seq(Times)] /\ running' \in [Names -> BOOLEAN]
              /\ failed' \in [Names -> Times \cup {None}]) => StoresTyped',
           excused' \/ (repo' = repo /\ excused' = excused /\ ~InUpdate(Worker))
    PROVE  SnapshotsInv'
<1>1. /\ live' \in [Names -> Seq(Times)] /\ running' \in [Names -> BOOLEAN]
      /\ failed' \in [Names -> Times \cup {None}] /\ RunningIsLive'
  BY WorkerKnows, JobFailsEffect
<1>2. Turn(Rest) BY DEF JobFails
<1>3. QED BY <1>1, <1>2, RestTurn, TurnKeeps

LEMMA UploadFailsKeeps ==
    ASSUME SnapshotsInv, UploadFails
    PROVE  SnapshotsInv'
<1>1. /\ JobFails /\ Worker.pc = "upload" /\ UNCHANGED <<cache, provider, mark, repo, excused>>
      /\ (faults' = faults \/ faults' = faults + 1)
  BY DEF UploadFails, At, store
<1>2. Backing BY <1>1 DEF Backing, At
<1>3. (live' \in [Names -> Seq(Times)] /\ running' \in [Names -> BOOLEAN]
         /\ failed' \in [Names -> Times \cup {None}]) => StoresTyped'
  BY <1>1, WorkerKnows DEF UploadFails, StoresTyped, store
<1>4. QED BY <1>1, <1>2, <1>3, JobFailsKeeps DEF InUpdate

LEMMA PruneKeeps ==
    ASSUME SnapshotsInv, Prune
    PROVE  SnapshotsInv'
<1> DEFINE auto   == AutoSnaps(cache, Service)
           doomed == auto \ Kept(quotas, auto)
           r      == [Worker EXCEPT !.doomed = doomed,
                                    !.pc = IF doomed = {} THEN "finish" ELSE "forget"]
<1>1. StoresTyped /\ ProcTyped /\ Worker \in Processes /\ RunningIsLive
      /\ WorkerTurn(Worker, running) /\ Worker.left \subseteq Worker.seen
  BY WorkerKnows
<1>2. Worker.pc = "prune" /\ Turn(r) /\ UNCHANGED <<cache, provider, mark, running, live, repo, excused>>
  BY DEF Prune, At, store, journal
<1>3. doomed \in SUBSET Snaps BY <1>1 DEF StoresTyped, AutoSnaps
<1> HIDE DEF doomed
<1>4. /\ r \in Processes /\ r.pc \in {"finish", "forget"} /\ r.left \subseteq r.seen
      /\ r.todo = Worker.todo /\ r.made = Worker.made
  BY <1>1, <1>3 DEF Processes
<1>5. StoresTyped' BY <1>1 DEF Prune, StoresTyped, store, journal, bounds
<1>6. RunningIsLive' BY <1>1, <1>2 DEF RunningIsLive
<1> HIDE DEF r
<1>7. WorkerTurn(r, running') BY <1>1, <1>2, <1>4 DEF WorkerTurn
<1>8. QED BY <1>2, <1>4, <1>5, <1>6, <1>7, TurnKeeps DEF InUpdate

LEMMA WorkerForgetKeeps ==
    ASSUME SnapshotsInv, WorkerForget
    PROVE  SnapshotsInv'
<1> DEFINE r == [Worker EXCEPT !.pc = "list", !.then = "finish", !.doomed = {}]
<1>1. StoresTyped /\ ProcTyped /\ Worker \in Processes /\ RunningIsLive
      /\ WorkerTurn(Worker, running) /\ Worker.left \subseteq Worker.seen
  BY WorkerKnows
<1>2. /\ Worker.pc = "forget" /\ Turn(r) /\ UNCHANGED <<cache, provider, mark, running, live>>
      /\ provider \in Repos /\ repo' = RemovedFrom(provider, Worker.doomed) /\ staleLock' = FALSE
  BY <1>1 DEF WorkerForget, Forget, Unlocked, At, store, journal, StoresTyped
<1>3. repo' \in [Repos -> SUBSET Snaps] BY <1>1, <1>2, RepoTyped
<1>4. StoresTyped' BY <1>1, <1>2, <1>3 DEF WorkerForget, StoresTyped, store, journal, bounds
<1>5. RunningIsLive' BY <1>1, <1>2 DEF RunningIsLive
<1>6. /\ r \in Processes /\ r.pc = "list" /\ r.left \subseteq r.seen
      /\ r.todo = Worker.todo /\ r.made = Worker.made
  BY <1>1 DEF Processes
<1> HIDE DEF r
<1>7. WorkerTurn(r, running') BY <1>1, <1>2, <1>6 DEF WorkerTurn
<1>8. QED BY <1>2, <1>4, <1>5, <1>6, <1>7, TurnKeeps DEF InUpdate

\* A task that fails, with the backup it may be part of.
LEMMA GiveUpKeeps ==
    ASSUME SnapshotsInv, GiveUp, UNCHANGED <<cache, provider, mark>>, Worker.pc # "fill", excused',
           (live' \in [Names -> Seq(Times)] /\ running' \in [Names -> BOOLEAN]
              /\ failed' \in [Names -> Times \cup {None}]) => StoresTyped'
    PROVE  SnapshotsInv'
<1>1. CASE Backing
  <2>1. JobFails BY <1>1 DEF GiveUp
  <2>2. QED BY <1>1, <2>1, JobFailsKeeps, Zenon
<1>2. CASE ~Backing
  <2>1. Turn(Rest) /\ UNCHANGED <<live, running, failed>> BY <1>2 DEF GiveUp, journal
  <2>2. StoresTyped' BY <2>1, WorkerKnows DEF StoresTyped
  <2>3. RunningIsLive' BY <2>1, WorkerKnows DEF RunningIsLive
  <2>4. QED BY <2>1, <2>2, <2>3, RestTurn, TurnKeeps
<1>3. QED BY <1>1, <1>2

LEMMA WorkerForgetErrorKeeps ==
    ASSUME SnapshotsInv, WorkerForgetError
    PROVE  SnapshotsInv'
<1>1. StoresTyped BY WorkerKnows
<1>2. /\ Worker.pc = "forget" /\ GiveUp /\ UNCHANGED <<cache, provider, mark>> /\ excused' = TRUE
      /\ ForgetError("worker", Worker.doomed)
  BY DEF WorkerForgetError, At, store
<1>3. repo' \in [Repos -> SUBSET Snaps] /\ staleLock' = staleLock
  <2>1. CASE provider = None BY <1>1, <1>2, <2>1 DEF ForgetError, StoresTyped
  <2>2. CASE provider # None
    BY <1>1, <1>2, <2>2, RepoTyped DEF ForgetError, StoresTyped
  <2>3. QED BY <2>1, <2>2
<1>4. (live' \in [Names -> Seq(Times)] /\ running' \in [Names -> BOOLEAN]
         /\ failed' \in [Names -> Times \cup {None}]) => StoresTyped'
  BY <1>1, <1>2, <1>3 DEF WorkerForgetError, StoresTyped, store, bounds
<1>5. QED BY <1>2, <1>4, GiveUpKeeps

LEMMA FinishBackupKeeps ==
    ASSUME SnapshotsInv, FinishBackup
    PROVE  SnapshotsInv'
<1> DEFINE r == IF Worker.made \notin cache \/ Len(Worker.todo) = 1 THEN Rest
                ELSE [Rest EXCEPT !.pc = "start", !.todo = Tail(Worker.todo), !.auto = Worker.auto]
<1>1. StoresTyped /\ ProcTyped /\ Worker \in Processes /\ RunningIsLive
      /\ WorkerTurn(Worker, running) /\ Service \in Names /\ running[Service]
  BY WorkerKnows DEF FinishBackup
<1>2. /\ Worker.pc = "finish" /\ Backing /\ Turn(r)
      /\ live' = [live EXCEPT ![Service] = AllFront(@)]
      /\ running' = [running EXCEPT ![Service] = FALSE]
      /\ failed' = [failed EXCEPT ![Service] = None]
      /\ UNCHANGED <<cache, provider, mark, repo, excused>>
  BY DEF FinishBackup, At, store
<1>3. live' \in [Names -> Seq(Times)] /\ running' \in [Names -> BOOLEAN] BY <1>1, <1>2, LiveTyped
<1>4. failed' \in [Names -> Times \cup {None}] BY <1>1, <1>2 DEF StoresTyped
<1>5. StoresTyped' BY <1>1, <1>3, <1>4 DEF FinishBackup, StoresTyped, store, bounds
<1>6. RunningIsLive' BY <1>1, <1>2 DEF RunningIsLive, StoresTyped
<1>7. Worker.todo # <<>> BY <1>1, <1>2 DEF WorkerTurn
<1>8. r \in Processes /\ r.pc \in {"idle", "start"} /\ r.left \subseteq r.seen
      /\ WorkerTurn(r, running')
  <2>1. CASE r = Rest BY <2>1, RestTurn
  <2>2. CASE r = [Rest EXCEPT !.pc = "start", !.todo = Tail(Worker.todo), !.auto = Worker.auto]
             /\ Len(Worker.todo) # 1
    <3>1. Tail(Worker.todo) \in Seq(Names) /\ Tail(Worker.todo) # <<>> /\ Worker.auto \in BOOLEAN
      BY <1>1, <1>7, <2>2, ServiceTyped DEF Processes
    <3>2. /\ r \in Processes /\ r.pc = "start" /\ r.left = {} /\ r.todo # <<>> /\ r.made = None
      BY <2>2, <3>1, RestFields DEF Processes
    <3>3. QED BY <3>2 DEF WorkerTurn
  <2>3. QED BY <2>1, <2>2
<1> HIDE DEF r
<1>9. QED BY <1>2, <1>5, <1>6, <1>8, TurnKeeps DEF InUpdate

LEMMA FinishPruneKeeps ==
    ASSUME SnapshotsInv, FinishPrune
    PROVE  SnapshotsInv'
<1> DEFINE r == IF Len(Worker.todo) = 1 THEN Rest
                ELSE [Rest EXCEPT !.pc = "prune", !.todo = Tail(Worker.todo)]
<1>1. StoresTyped /\ ProcTyped /\ Worker \in Processes /\ RunningIsLive
      /\ WorkerTurn(Worker, running)
  BY WorkerKnows
<1>2. /\ Worker.pc = "finish" /\ Turn(r)
      /\ UNCHANGED <<cache, provider, mark, repo, excused, live, running>>
  BY DEF FinishPrune, At, store, journal
<1>3. StoresTyped' BY <1>1 DEF FinishPrune, StoresTyped, store, journal, bounds
<1>4. RunningIsLive' BY <1>1, <1>2 DEF RunningIsLive
<1>5. Worker.todo # <<>> BY <1>1, <1>2 DEF WorkerTurn
<1>6. r \in Processes /\ r.pc \in {"idle", "prune"} /\ r.left \subseteq r.seen
      /\ WorkerTurn(r, running')
  <2>1. CASE r = Rest BY <2>1, RestTurn
  <2>2. CASE r = [Rest EXCEPT !.pc = "prune", !.todo = Tail(Worker.todo)] /\ Len(Worker.todo) # 1
    <3>1. Tail(Worker.todo) \in Seq(Names) /\ Tail(Worker.todo) # <<>>
      BY <1>1, <1>5, <2>2, ServiceTyped
    <3>2. /\ r \in Processes /\ r.pc = "prune" /\ r.left = {} /\ r.todo # <<>> /\ r.made = None
      BY <2>2, <3>1, RestFields DEF Processes
    <3>3. QED BY <3>2 DEF WorkerTurn
  <2>3. QED BY <2>1, <2>2
<1> HIDE DEF r
<1>7. QED BY <1>2, <1>3, <1>4, <1>6, TurnKeeps DEF InUpdate

-----------------------------------------------------------------------------
(* The API                                                                   *)

\* What the invariant gives for a step of the API.
LEMMA ApiKnows ==
    ASSUME SnapshotsInv
    PROVE  /\ StoresTyped /\ ProcTyped /\ proc["api"] \in Processes /\ RunningIsLive
           /\ NoRepository /\ ApiTurn /\ proc["api"].left \subseteq proc["api"].seen
BY Parts, TypeParts, Typed, TurnsParts, ReloadParts DEF ReloadOf

\* The API goes from one step of a request to another, or to none.
LEMMA ApiGoes ==
    ASSUME SnapshotsInv, NEW pc \in {"idle", "list", "init"}, Goto("api", pc),
           proc["api"].pc \in {"idle", "init"}, StoresTyped', NoRepository',
           UNCHANGED <<cache, running, live>>,
           \/ excused' \/ pc = "list"
           \/ repo' = repo /\ provider' = provider /\ excused' = excused
    PROVE  SnapshotsInv'
<1>1. ProcTyped' /\ proc'["api"] = [proc["api"] EXCEPT !.pc = pc] /\ Worker' = Worker
  BY ApiKnows, Typed, GotoEffect DEF Worker
<1>2. /\ proc'["api"].pc = pc /\ proc'["api"].left \subseteq proc'["api"].seen
      /\ proc'["api"].then = proc["api"].then
  BY <1>1, ApiKnows DEF Processes
<1>3. ApiTurn' BY <1>2, ApiKnows DEF ApiTurn
<1>4. RunningIsLive' BY ApiKnows DEF RunningIsLive
<1>5. QED BY <1>1, <1>2, <1>3, <1>4, ApiKeeps DEF InUpdate

\* The API does its request at once.
LEMMA ApiAtOnce ==
    ASSUME SnapshotsInv, UNCHANGED <<proc, cache, running, repo, provider>>,
           proc["api"].pc = "idle", StoresTyped', RunningIsLive', NoRepository',
           (excused' = excused) \/ excused'
    PROVE  SnapshotsInv'
<1>1. ProcTyped' /\ Worker' = Worker BY ApiKnows DEF ProcTyped, Worker
<1>2. ApiTurn' BY ApiKnows DEF ApiTurn
<1>3. proc'["api"] = proc["api"] OBVIOUS
<1>4. QED BY <1>1, <1>2, <1>3, ApiKnows, ApiKeeps DEF InUpdate

LEMMA QuotasTyped ==
    ASSUME NEW q \in QuotaChoices
    PROVE  /\ [b \in Buckets |-> StandardQuota(q[b])] \in [Buckets -> Int]
           /\ \A b \in Buckets : [c \in Buckets |-> StandardQuota(q[c])][b] >= -1
BY SnapshotsAssumption DEF StandardQuota

LEMMA NoneIsNoRepository == None \notin Repos
BY SnapshotsAssumption

LEMMA ApiRequestKeeps ==
    ASSUME SnapshotsInv, ApiReload \/ ApiForget \/ SetQuotas \/ SetPeriod \/ StartBackup
    PROVE  SnapshotsInv'
<1>1. /\ StoresTyped /\ RunningIsLive /\ NoRepository BY ApiKnows
<1>2. proc["api"].pc = "idle" /\ requests' = requests + 1 /\ UNCHANGED <<clock, faults, cache, provider, mark, running>>
  BY DEF ApiReload, ApiForget, SetQuotas, SetPeriod, StartBackup, Requesting, store, journal
<1>3. CASE ApiReload
  <2>1. StoresTyped' BY <1>1, <1>2, <1>3 DEF ApiReload, StoresTyped, store, journal
  <2>2. Goto("api", "list") /\ UNCHANGED <<live, repo, excused>> BY <1>3 DEF ApiReload, journal
  <2>3. proc'["api"].pc = "list" BY <2>2, ApiKnows, Typed, GotoEffect DEF Processes
  <2>4. NoRepository' BY <1>1, <1>2, <2>3 DEF NoRepository
  <2>5. QED BY <1>2, <2>1, <2>2, <2>4, ApiGoes
<1>4. CASE ApiForget
  <2>1. PICK x \in cache :
          \/ Forget("api", {x}) /\ Goto("api", "list") /\ UNCHANGED excused
          \/ ForgetError("api", {x}) /\ excused' = TRUE /\ UNCHANGED proc
    BY <1>4 DEF ApiForget
  <2>2. UNCHANGED <<exists, provider, mark, period, quotas, cache, last, live, running, failed, tasks>>
    BY <1>4 DEF ApiForget, store, journal
  <2>3. CASE Forget("api", {x}) /\ Goto("api", "list") /\ UNCHANGED excused
    <3>1. repo' \in [Repos -> SUBSET Snaps] /\ staleLock' = FALSE
      BY <1>1, <2>3, RepoTyped DEF Forget, Unlocked, StoresTyped
    <3>2. StoresTyped'
      <4>1. excused' = excused BY <2>3
      <4>2. staleLock' \in BOOLEAN BY <3>1
      <4>3. repo' \in [Repos -> SUBSET Snaps] BY <3>1
      <4>4. QED BY <1>1, <1>2, <2>2, <4>1, <4>2, <4>3 DEF StoresTyped
    <3>3. proc'["api"].pc = "list" BY <2>3, ApiKnows, Typed, GotoEffect DEF Processes
    <3>4. NoRepository' BY <1>1, <1>2, <3>3 DEF NoRepository
    <3>5. QED BY <1>2, <2>2, <2>3, <3>2, <3>4, ApiGoes
  <2>4. CASE ForgetError("api", {x}) /\ excused' = TRUE /\ UNCHANGED proc
    <3>1. repo' \in [Repos -> SUBSET Snaps] /\ staleLock' = staleLock
      <4>1. CASE provider = None BY <1>1, <2>4, <4>1 DEF ForgetError, StoresTyped
      <4>2. CASE provider # None BY <1>1, <2>4, <4>2, RepoTyped DEF ForgetError, StoresTyped
      <4>3. QED BY <4>1, <4>2
    <3>2. StoresTyped' BY <1>1, <1>2, <2>2, <2>4, <3>1 DEF StoresTyped
    <3>3. ProcTyped' /\ Worker' = Worker /\ ApiTurn' /\ RunningIsLive' /\ NoRepository'
      BY <1>1, <1>2, <2>2, <2>4, ApiKnows
         DEF ProcTyped, Worker, ApiTurn, RunningIsLive, NoRepository
    <3>4. QED BY <1>2, <2>2, <2>4, <3>2, <3>3, ApiKnows, ApiKeeps
  <2>5. QED BY <2>1, <2>3, <2>4
<1>5. CASE SetQuotas
  <2>1. quotas' \in [Buckets -> Int] /\ \A b \in Buckets : quotas'[b] >= -1
    BY <1>5, QuotasTyped DEF SetQuotas
  <2>2. tasks' \in Seq(Tasks)
    <3>1. [op |-> "prune"] \in Tasks BY DEF Tasks
    <3>2. QED BY <1>1, <1>5, <3>1 DEF SetQuotas, StoresTyped
  <2>3. UNCHANGED <<repo, exists, period, last, live, failed, proc, staleLock, excused>>
    BY <1>5 DEF SetQuotas, journal
  <2>4. StoresTyped' BY <1>1, <1>2, <2>1, <2>2, <2>3 DEF StoresTyped
  <2>5. RunningIsLive' /\ NoRepository' BY <1>1, <1>2, <2>3 DEF RunningIsLive, NoRepository
  <2>6. QED BY <1>2, <2>3, <2>4, <2>5, ApiAtOnce
<1>6. CASE SetPeriod
  <2>1. period' \in Periods \cup {None} BY <1>6 DEF SetPeriod
  <2>2. UNCHANGED <<repo, exists, quotas, last, live, failed, tasks, proc, staleLock, excused>>
    BY <1>6 DEF SetPeriod, journal
  <2>3. StoresTyped' BY <1>1, <1>2, <2>1, <2>2 DEF StoresTyped
  <2>4. RunningIsLive' /\ NoRepository' BY <1>1, <1>2, <2>2 DEF RunningIsLive, NoRepository
  <2>5. QED BY <1>2, <2>2, <2>3, <2>4, ApiAtOnce
<1>7. CASE StartBackup
  <2>1. PICK s \in Names : /\ ~running[s]
                           /\ live' = [live EXCEPT ![s] = Append(@, clock)]
                           /\ tasks' = Append(tasks, [op |-> "backup", service |-> s])
    BY <1>7 DEF StartBackup
  <2>2. UNCHANGED <<repo, exists, period, quotas, last, failed, proc, staleLock, excused>>
    BY <1>7 DEF StartBackup, store
  <2>3. live' \in [Names -> Seq(Times)] BY <1>1, <2>1 DEF StoresTyped
  <2>4. tasks' \in Seq(Tasks)
    <3>1. [op |-> "backup", service |-> s] \in Tasks BY DEF Tasks
    <3>2. QED BY <1>1, <2>1, <3>1 DEF StoresTyped
  <2>5. StoresTyped' BY <1>1, <1>2, <2>2, <2>3, <2>4 DEF StoresTyped
  <2>6. RunningIsLive' BY <1>1, <1>2, <2>1 DEF RunningIsLive, StoresTyped
  <2>7. NoRepository' BY <1>1, <1>2, <2>2 DEF NoRepository
  <2>8. QED BY <1>2, <2>2, <2>5, <2>6, <2>7, ApiAtOnce
<1>8. QED BY <1>3, <1>4, <1>5, <1>6, <1>7

LEMMA RepositoryKeeps ==
    ASSUME SnapshotsInv, Initialize \/ InitRepo \/ CheckInit
    PROVE  SnapshotsInv'
<1>1. /\ StoresTyped /\ RunningIsLive /\ NoRepository BY ApiKnows
<1>2. UNCHANGED <<repo, period, quotas, cache, last, live, running, failed, tasks, staleLock>>
  BY DEF Initialize, InitRepo, CheckInit, journal
<1>3. CASE Initialize
  <2>1. /\ proc["api"].pc = "idle" /\ provider' \in Repos /\ excused' = TRUE
        /\ requests' = requests + 1 /\ UNCHANGED <<clock, faults, exists, mark>>
    BY <1>3 DEF Initialize, Requesting
  <2>2. PICK pc \in {"init", "list"} : Goto("api", pc) BY <1>3 DEF Initialize
  <2>3. StoresTyped' BY <1>1, <1>2, <2>1 DEF StoresTyped
  <2>4. NoRepository' BY <2>1, NoneIsNoRepository DEF NoRepository
  <2>5. QED BY <1>2, <2>1, <2>2, <2>3, <2>4, ApiGoes
<1>4. CASE InitRepo
  <2>1. /\ proc["api"].pc = "init" /\ Goto("api", "idle") /\ exists' \in {exists, exists \cup {provider}}
        /\ mark' \in {mark, TRUE} /\ UNCHANGED <<provider, clock, requests, faults, excused>>
    BY <1>4 DEF InitRepo, bounds
  <2>2. provider # None /\ provider \in Repos BY <1>1, <2>1 DEF NoRepository, StoresTyped
  <2>3. StoresTyped' BY <1>1, <1>2, <2>1, <2>2 DEF StoresTyped
  <2>4. NoRepository' BY <2>1, <2>2 DEF NoRepository
  <2>5. QED BY <1>2, <2>1, <2>3, <2>4, ApiGoes
<1>5. CASE CheckInit
  <2>1. /\ proc["api"].pc = "idle" /\ provider \in exists /\ mark' = TRUE
        /\ UNCHANGED <<exists, provider, clock, requests, faults, excused, proc>>
    BY <1>5 DEF CheckInit, bounds
  <2>2. provider # None BY <1>1, <2>1, NoneIsNoRepository DEF StoresTyped
  <2>3. StoresTyped' BY <1>1, <1>2, <2>1 DEF StoresTyped
  <2>4. RunningIsLive' /\ NoRepository'
    BY <1>1, <1>2, <2>1, <2>2 DEF RunningIsLive, NoRepository
  <2>5. QED BY <1>2, <2>1, <2>3, <2>4, ApiAtOnce
<1>6. QED BY <1>3, <1>4, <1>5

LEMMA RemoveKeeps ==
    ASSUME SnapshotsInv, Remove
    PROVE  SnapshotsInv'
<1> DEFINE r == [Worker EXCEPT !.mixed = @ \/ Listed("worker")]
<1>1. /\ StoresTyped /\ ProcTyped /\ Worker \in Processes /\ RunningIsLive
      /\ ApiTurn /\ WorkerTurn(Worker, running) /\ Worker.left \subseteq Worker.seen
  BY WorkerKnows, ApiKnows
<1>2. /\ proc["api"].pc = "idle" /\ requests' = requests + 1
      /\ provider' = None /\ mark' = FALSE /\ period' = None /\ quotas' = Unlimited
      /\ cache' = {} /\ last' = [s \in Names |-> None]
      /\ proc' = [proc EXCEPT !["worker"].mixed = @ \/ Listed("worker")]
      /\ UNCHANGED <<repo, exists, live, running, failed, tasks, staleLock, excused, clock, faults>>
  BY DEF Remove, Requesting, journal
<1>3. Unlimited \in [Buckets -> Int] /\ \A b \in Buckets : Unlimited[b] >= -1 BY DEF Unlimited
<1>4. StoresTyped'
  <2>1. last' \in [Names -> Times \cup {None}] BY <1>2
  <2>2. quotas' \in [Buckets -> Int] /\ \A b \in Buckets : quotas'[b] >= -1 BY <1>2, <1>3
  <2>3. provider' \in Repos \cup {None} /\ mark' \in BOOLEAN /\ cache' \subseteq Snaps
        /\ period' \in Periods \cup {None}
    BY <1>2
  <2>4. QED BY <1>1, <1>2, <2>1, <2>2, <2>3 DEF StoresTyped
<1>5. r \in Processes
  <2>1. (Worker.mixed \/ Listed("worker")) \in BOOLEAN BY <1>1 DEF Processes, Listed
  <2>2. QED BY <1>1, <2>1 DEF Processes
<1>6. ProcTyped' /\ Worker' = r /\ proc'["api"] = proc["api"]
  <2>1. proc' = [proc EXCEPT !["worker"] = r] BY <1>1, <1>2 DEF Worker, ProcTyped
  <2>2. Turn(r) BY <2>1 DEF Turn
  <2>3. QED BY <1>1, <1>5, <2>2, TurnEffect
<1>7. /\ Worker'.pc = Worker.pc /\ Worker'.left = Worker.left /\ Worker'.seen = Worker.seen
      /\ Worker'.then = Worker.then /\ Worker'.todo = Worker.todo /\ Worker'.made = Worker.made
      /\ Worker'.mixed = (Worker.mixed \/ Listed("worker"))
  BY <1>1, <1>6 DEF Processes
<1>8. TurnsInv'
  <2>1. WorkerTurn(Worker', running') BY <1>1, <1>2, <1>7 DEF WorkerTurn
  <2>2. ApiTurn' BY <1>1, <1>6 DEF ApiTurn
  <2>3. QED BY <2>1, <2>2, TurnsPartsNext
<1>9. RunningIsLive' /\ NoRepository' BY <1>1, <1>2, <1>6 DEF RunningIsLive, NoRepository
<1>10. ReloadInv'
  <2>1. ReloadOf(proc["api"], Worker, cache) /\ ReloadOf(Worker, proc["api"], cache)
    BY Parts, ReloadParts
  <2>2. ReloadOf(proc'["api"], Worker', cache') BY <1>2, <1>6, <2>1 DEF ReloadOf
  <2>3. ReloadOf(Worker', proc'["api"], cache')
    BY <1>7, <2>1 DEF ReloadOf, Listed, Worker
  <2>4. QED BY <2>2, <2>3, ReloadPartsNext
<1>11. CacheMatchesRepository'
  <2>1. cache' = Listing(provider)' BY <1>2 DEF Listing
  <2>2. QED BY <2>1, CachePartsNext
<1>12. QED BY <1>4, <1>6, <1>8, <1>9, <1>10, <1>11, TypePartsNext, PartsNext

-----------------------------------------------------------------------------
(* Faults and time                                                           *)

LEMMA ListFailsKeeps ==
    ASSUME SnapshotsInv, ListFails
    PROVE  SnapshotsInv'
<1>1. /\ StoresTyped /\ ProcTyped /\ RunningIsLive /\ NoRepository /\ ApiTurn
  BY ApiKnows
<1>2. /\ excused' = TRUE /\ UNCHANGED <<clock, requests>> /\ (faults' = faults \/ faults' = faults + 1)
      /\ UNCHANGED <<repo, exists, provider, mark, period, quotas, cache, last, tasks, staleLock>>
  BY DEF ListFails, bounds, store
<1>3. CASE /\ proc["api"].pc = "list"
           /\ proc' = [proc EXCEPT !["api"] = Rest] /\ UNCHANGED journal
  <2>1. StoresTyped' BY <1>1, <1>2, <1>3 DEF StoresTyped, journal
  <2>2. ProcTyped' /\ proc'["api"] = Rest /\ Worker' = Worker
    BY <1>1, <1>3, Typed, RestTyped, OneProcess DEF Worker
  <2>3. ApiTurn' /\ NoRepository' BY <1>1, <1>2, <2>2, RestFields DEF ApiTurn, NoRepository
  <2>4. RunningIsLive' BY <1>1, <1>3 DEF RunningIsLive, journal
  <2>5. running' = running BY <1>3 DEF journal
  <2>6. QED BY <1>2, <1>3, <2>1, <2>2, <2>3, <2>4, <2>5, RestFields, ApiKeeps
<1>4. CASE At("list") /\ GiveUp
  <2>1. (live' \in [Names -> Seq(Times)] /\ running' \in [Names -> BOOLEAN]
           /\ failed' \in [Names -> Times \cup {None}]) => StoresTyped'
    BY <1>1, <1>2 DEF StoresTyped
  <2>2. Worker.pc # "fill" BY <1>4 DEF At
  <2>3. QED BY <1>2, <1>4, <2>1, <2>2, GiveUpKeeps
<1>5. QED BY <1>3, <1>4 DEF ListFails

LEMMA CrashKeeps ==
    ASSUME SnapshotsInv, Crash
    PROVE  SnapshotsInv'
<1> DEFINE r == [proc["api"] EXCEPT !.mixed = @ \/ Listed("api")]
<1>1. /\ StoresTyped /\ ProcTyped /\ proc["api"] \in Processes /\ RunningIsLive
      /\ NoRepository /\ ApiTurn /\ proc["api"].left \subseteq proc["api"].seen
  BY ApiKnows
<1>2. /\ excused' = (excused \/ InUpdate(Worker)) /\ staleLock' \in BOOLEAN /\ faults' = faults + 1
      /\ proc' = [proc EXCEPT !["worker"] = Rest, !["api"].mixed = @ \/ Listed("api")]
      /\ UNCHANGED <<repo, exists, provider, mark, period, quotas, cache, last, live, running,
                     failed, tasks, clock, requests>>
  BY <1>1 DEF Crash, InUpdate, store, journal, StoresTyped
<1>3. StoresTyped' BY <1>1, <1>2 DEF StoresTyped, InUpdate
<1>4. r \in Processes
  <2>1. (proc["api"].mixed \/ Listed("api")) \in BOOLEAN BY <1>1 DEF Processes, Listed
  <2>2. QED BY <1>1, <2>1 DEF Processes
<1>5. ProcTyped' /\ Worker' = Rest /\ proc'["api"] = r
  <2> DEFINE m == [proc EXCEPT !["worker"] = Rest]
  <2>1. m \in [Procs -> Processes] /\ m["api"] = proc["api"] /\ m["worker"] = Rest
    BY <1>1, Typed, RestTyped
  <2>2. proc' = [m EXCEPT !["api"] = r] BY <1>1, <1>2, Typed
  <2> HIDE DEF m, r
  <2>3. QED BY <1>4, <2>1, <2>2, Typed, OneProcess, <1>1 DEF Worker
<1>6. /\ proc'["api"].pc = proc["api"].pc /\ proc'["api"].left = proc["api"].left
      /\ proc'["api"].seen = proc["api"].seen /\ proc'["api"].then = proc["api"].then
      /\ proc'["api"].mixed = (proc["api"].mixed \/ Listed("api"))
  BY <1>1, <1>5 DEF Processes
<1>7. TurnsInv'
  <2>1. WorkerTurn(Worker', running') BY <1>5, RestTurn
  <2>2. ApiTurn' BY <1>1, <1>6 DEF ApiTurn
  <2>3. QED BY <2>1, <2>2, TurnsPartsNext
<1>8. RunningIsLive' /\ NoRepository' BY <1>1, <1>2, <1>6 DEF RunningIsLive, NoRepository
<1>9. ReloadInv'
  <2>1. ReloadOf(proc["api"], Worker, cache) BY Parts, ReloadParts
  <2>2. ReloadOf(proc'["api"], Worker', cache') BY <1>6, <2>1 DEF ReloadOf, Listed
  <2>3. ReloadOf(Worker', proc'["api"], cache') BY <1>5, RestFields DEF ReloadOf
  <2>4. QED BY <2>2, <2>3, ReloadPartsNext
<1>10. CacheMatchesRepository'
  <2>1. Listing(provider)' = Listing(provider) BY <1>2 DEF Listing
  <2>2. InUpdate(proc'["api"]) <=> InUpdate(proc["api"]) BY <1>6 DEF InUpdate
  <2>3. QED BY <1>2, <2>1, <2>2, Parts, CacheParts, CachePartsNext
<1>11. QED BY <1>3, <1>5, <1>7, <1>8, <1>9, <1>10, TypePartsNext, PartsNext

LEMMA TickKeeps ==
    ASSUME SnapshotsInv, Tick
    PROVE  SnapshotsInv'
<1>1. proc["api"].pc = "idle" BY DEF Tick
<1>2. UNCHANGED <<proc, cache, running, live, repo, provider, mark, excused>>
  BY DEF Tick, store, journal
<1>3. StoresTyped' BY ApiKnows, SnapshotsAssumption DEF Tick, StoresTyped, Times, store, journal
<1>4. RunningIsLive' /\ NoRepository' BY <1>2, ApiKnows DEF RunningIsLive, NoRepository
<1>5. QED BY <1>1, <1>2, <1>3, <1>4, ApiAtOnce

LEMMA StutterKeeps ==
    ASSUME SnapshotsInv, UNCHANGED vars
    PROVE  SnapshotsInv'
<1>1. UNCHANGED <<repo, exists, provider, mark, period, quotas, cache, last, live, running, failed,
                  tasks, proc, staleLock, clock, requests, faults, excused>>
  BY DEF vars, store, journal, bounds
<1>2. TypeOK' BY <1>1, Parts DEF TypeOK
<1>3. TurnsInv' BY <1>1, Parts DEF TurnsInv, Reloading, Worker, At, Backing, Service
<1>4. RunningIsLive' /\ NoRepository' BY <1>1, Parts DEF RunningIsLive, NoRepository
<1>5. ReloadInv' BY <1>1, Parts, ReloadParts, ReloadPartsNext DEF Worker
<1>6. CacheMatchesRepository' BY <1>1, Parts, CacheParts, CachePartsNext DEF Worker, Listing
<1>7. QED BY <1>2, <1>3, <1>4, <1>5, <1>6, PartsNext

-----------------------------------------------------------------------------
(* The invariant                                                             *)

\* One of a set of snapshots is the newest.
LEMMA LatestIs ==
    ASSUME NEW S \in SUBSET Snaps, S # {}
    PROVE  \E x \in S : \A y \in S : y.at <= x.at
<1> DEFINE T == {MaxClock - x.at : x \in S}
<1>1. \A x \in S : x.at \in Nat /\ MaxClock - x.at \in Nat /\ MaxClock \in Nat
  BY SnapshotsAssumption DEF Snaps, Times
<1>2. T \in SUBSET Nat /\ T # {} BY <1>1
<1> HIDE DEF T
<1>3. PICK t \in T : \A u \in T : t <= u BY <1>2, LeastNumber
<1>4. PICK x \in S : MaxClock - x.at = t BY <1>3 DEF T
<1>5. \A y \in S : MaxClock - x.at <= MaxClock - y.at BY <1>3, <1>4 DEF T
<1>6. \A y \in S : y.at <= x.at BY <1>1, <1>5
<1>7. QED BY <1>6

LEMMA Latest ==
    ASSUME NEW S \in SUBSET Snaps, S # {}
    PROVE  (CHOOSE x \in S : \A y \in S : y.at <= x.at) \in S
BY LatestIs

LEMMA LastMadeTyped ==
    ASSUME NEW S \in SUBSET Snaps, NEW s
    PROVE  LastMade(s, S) \in Times \cup {None}
<1> DEFINE of == {x \in S : x.service = s}
<1>1. CASE of = {} BY <1>1 DEF LastMade
<1>2. CASE of # {}
  <2>1. (CHOOSE x \in of : \A y \in of : y.at <= x.at) \in of BY <1>2, Latest
  <2>2. (CHOOSE x \in of : \A y \in of : y.at <= x.at).at \in Times BY <2>1 DEF Snaps
  <2>3. LastMade(s, S) = (CHOOSE x \in of : \A y \in of : y.at <= x.at).at BY <1>2 DEF LastMade
  <2>4. QED BY <2>2, <2>3
<1>3. QED BY <1>1, <1>2

LEMMA InitHolds == ASSUME Init PROVE SnapshotsInv
<1>1. Old \in SUBSET Snaps BY SnapshotsAssumption DEF Snaps
<1>2. proc = [p \in Procs |-> Rest] BY DEF Init
<1>3. ProcTyped /\ proc["api"] = Rest /\ Worker = Rest
  BY <1>2, RestTyped DEF ProcTyped, Worker, Procs
<1>4. StoresTyped
  <2>1. repo \in [Repos -> SUBSET Snaps] /\ exists \subseteq Repos /\ provider \in Repos \cup {None}
    BY <1>1, SnapshotsAssumption DEF Init
  <2>2. last \in [Names -> Times \cup {None}]
    <3>1. cache = Old /\ last = [s \in Names |-> LastMade(s, cache)] BY DEF Init
    <3>2. \A s \in Names : LastMade(s, cache) \in Times \cup {None} BY <1>1, <3>1, LastMadeTyped
    <3>3. QED BY <3>1, <3>2
  <2>3. quotas \in [Buckets -> Int] /\ \A b \in Buckets : quotas[b] >= -1
    BY QuotasTyped DEF Init
  <2>4. /\ live \in [Names -> Seq(Times)] /\ running \in [Names -> BOOLEAN]
        /\ failed \in [Names -> Times \cup {None}] /\ tasks \in Seq(Tasks)
    BY DEF Init
  <2>5. /\ mark \in BOOLEAN /\ cache \subseteq Snaps /\ period \in Periods \cup {None}
        /\ staleLock \in BOOLEAN /\ clock \in Times /\ requests \in Nat /\ faults \in Nat
        /\ excused \in BOOLEAN
    BY <1>1, SnapshotsAssumption DEF Init
  <2>6. QED BY <2>1, <2>2, <2>3, <2>4, <2>5 DEF StoresTyped
<1>5. TurnsInv BY <1>3, RestFields, RestTurn, TurnsParts DEF ApiTurn
<1>6. RunningIsLive /\ NoRepository
  <2>1. running = [s \in Names |-> FALSE] /\ provider = FirstRepo BY DEF Init
  <2>2. QED BY <2>1, SnapshotsAssumption DEF RunningIsLive, NoRepository
<1>7. ReloadInv BY <1>3, RestFields, ReloadParts DEF ReloadOf
<1>8. CacheMatchesRepository
  <2>1. cache = Old /\ provider = FirstRepo /\ repo = [r \in Repos |-> IF r = FirstRepo THEN Old ELSE {}]
    BY DEF Init
  <2>2. cache = Listing(provider) BY <2>1, SnapshotsAssumption DEF Listing
  <2>3. QED BY <2>2, CacheParts
<1>9. QED BY <1>3, <1>4, <1>5, <1>6, <1>7, <1>8, Parts, TypeParts

LEMMA NextKeeps == ASSUME SnapshotsInv, [Next]_vars PROVE SnapshotsInv'
<1>1. CASE ApiStep
  <2>1. CASE ApiReload \/ ApiForget \/ SetQuotas \/ SetPeriod \/ StartBackup
    BY <2>1, ApiRequestKeeps
  <2>2. CASE Initialize \/ InitRepo \/ CheckInit BY <2>2, RepositoryKeeps
  <2>3. CASE Remove BY <2>3, RemoveKeeps
  <2>4. CASE List("api") \/ Clear("api") \/ Fill("api") \/ Filled("api")
    BY <2>4, ListKeeps, ClearKeeps, FillKeeps, FilledKeeps DEF Procs
  <2>5. QED BY <1>1, <2>1, <2>2, <2>3, <2>4 DEF ApiStep
<1>2. CASE WorkerStep
  <2>1. CASE TakeBackup \/ TakePrune \/ Autobackup BY <2>1, TakeKeeps
  <2>2. CASE RunJob \/ Upload \/ StoreTime \/ UploadFails
    BY <2>2, RunJobKeeps, UploadKeeps, StoreTimeKeeps, UploadFailsKeeps
  <2>3. CASE Prune \/ WorkerForget \/ WorkerForgetError \/ FinishBackup \/ FinishPrune
    BY <2>3, PruneKeeps, WorkerForgetKeeps, WorkerForgetErrorKeeps, FinishBackupKeeps,
       FinishPruneKeeps
  <2>4. CASE List("worker") \/ Clear("worker") \/ Fill("worker") \/ Filled("worker")
    BY <2>4, ListKeeps, ClearKeeps, FillKeeps, FilledKeeps DEF Procs
  <2>5. QED BY <1>2, <2>1, <2>2, <2>3, <2>4 DEF WorkerStep
<1>3. CASE PeriodicReload BY <1>3, PeriodicReloadKeeps
<1>4. CASE ListFails \/ Crash \/ Tick BY <1>4, ListFailsKeeps, CrashKeeps, TickKeeps
<1>5. CASE UNCHANGED vars BY <1>5, StutterKeeps
<1>6. QED BY <1>1, <1>2, <1>3, <1>4, <1>5 DEF Next

\* For any services, repositories, quotas, requests, faults and times: whoever reloads
\* the cache, forgets snapshots, restarts or changes the provider in between, the
\* invariant holds: each store keeps its type, whoever goes on with a task has what it
\* needs for it, and a reload stores its list (backup/__init__.py, backup/tasks.py).
THEOREM SnapshotsInvariance == Spec => []SnapshotsInv
<1>1. Init => SnapshotsInv BY InitHolds
<1>2. SnapshotsInv /\ [Next]_vars => SnapshotsInv' BY NextKeeps
<1>3. QED BY <1>1, <1>2, PTL DEF Spec

\* When nobody is updating the cache, it lists what the repository has, for any services
\* and any order of the steps, unless an error, a restart, a change of the provider or a
\* second reload is known to have come between (force_snapshot_cache_reload,
\* backup/__init__.py:641-653).
THEOREM CacheMatchesRepositoryHolds == Spec => []CacheMatchesRepository
<1>1. SnapshotsInv => CacheMatchesRepository BY Parts
<1>2. QED BY <1>1, SnapshotsInvariance, PTL

-----------------------------------------------------------------------------
(* Snapshots in the order of their times                                     *)

\* Snapshots that no two were made at one time.
Dated(S) == S \in SUBSET Snaps /\ \A x, y \in S : x.at = y.at => x = y

\* How many are newer.
Rank(x, S) == Cardinality(Newer(x, S))

\* The n newest.
Top(n, S) == {x \in S : Rank(x, S) < n}

\* Automatic snapshots of one service are told apart by their times.
LEMMA AutoSnapsDated ==
    ASSUME NEW X \in SUBSET Snaps, NEW s
    PROVE  Dated(AutoSnaps(X, s))
BY DEF Dated, AutoSnaps, Snaps

\* There are finitely many, for there are finitely many times.
LEMMA DatedFinite == ASSUME NEW S, Dated(S) PROVE IsFiniteSet(S)
<1> DEFINE f == [x \in S |-> x.at]
<1>1. f \in Injection(S, Times) BY DEF Dated, Snaps, Injection, IsInjective
<1>2. IsFiniteSet(Times) BY FS_Interval, SnapshotsAssumption DEF Times
<1> HIDE DEF f
<1>3. QED BY <1>1, <1>2, FS_Injection

LEMMA TimesAreNumbers == ASSUME NEW S, Dated(S) PROVE \A x \in S : x.at \in Nat
BY SnapshotsAssumption DEF Dated, Snaps, Times

\* A snapshot has as many newer ones as it has a rank: the newer, the fewer.
LEMMA RankTyped ==
    ASSUME NEW S, Dated(S), NEW x \in S
    PROVE  /\ IsFiniteSet(Newer(x, S)) /\ Newer(x, S) \in SUBSET S
           /\ Cardinality(S) \in Nat /\ Rank(x, S) \in 0 .. Cardinality(S) - 1
<1>1. IsFiniteSet(S) BY DatedFinite
<1>2. Newer(x, S) \in SUBSET S /\ x \notin Newer(x, S)
  BY TimesAreNumbers DEF Newer
<1>3. /\ IsFiniteSet(Newer(x, S)) /\ Rank(x, S) <= Cardinality(S) /\ Rank(x, S) # Cardinality(S)
  BY <1>1, <1>2, FS_Subset DEF Rank
<1>4. Cardinality(S) \in Nat /\ Rank(x, S) \in Nat BY <1>1, <1>3, FS_CardinalityType DEF Rank
<1>5. QED BY <1>2, <1>3, <1>4

LEMMA RankFalls ==
    ASSUME NEW S, Dated(S), NEW x \in S, NEW y \in S, y.at > x.at
    PROVE  Rank(y, S) < Rank(x, S)
<1>1. /\ IsFiniteSet(Newer(x, S)) /\ Rank(x, S) \in Int /\ Rank(y, S) \in Int
  BY RankTyped
<1>2. /\ Newer(y, S) \in SUBSET Newer(x, S)
      /\ y \in Newer(x, S) /\ y \notin Newer(y, S)
  BY TimesAreNumbers DEF Newer
<1>3. Rank(y, S) <= Rank(x, S) /\ Rank(y, S) # Rank(x, S)
  BY <1>1, <1>2, FS_Subset DEF Rank
<1>4. QED BY <1>1, <1>3

LEMMA RankOrders ==
    ASSUME NEW S, Dated(S), NEW x \in S, NEW y \in S
    PROVE  /\ y.at > x.at <=> Rank(y, S) < Rank(x, S)
           /\ y = x <=> Rank(y, S) = Rank(x, S)
<1>1. x.at \in Nat /\ y.at \in Nat /\ Rank(x, S) \in Int /\ Rank(y, S) \in Int
  BY TimesAreNumbers, RankTyped
<1>2. x.at = y.at => x = y BY DEF Dated
<1>3. CASE y.at > x.at
  <2>1. Rank(y, S) < Rank(x, S) BY <1>3, RankFalls
  <2>2. QED BY <1>1, <1>3, <2>1
<1>4. CASE x.at > y.at
  <2>1. Rank(x, S) < Rank(y, S) BY <1>4, RankFalls
  <2>2. QED BY <1>1, <1>4, <2>1
<1>5. CASE x.at = y.at BY <1>1, <1>2, <1>5
<1>6. QED BY <1>1, <1>3, <1>4, <1>5

\* Every place in the order is taken.
LEMMA NthOrders ==
    ASSUME NEW S, Dated(S), NEW n \in 1 .. Cardinality(S)
    PROVE  Nth(n, S) \in S /\ Rank(Nth(n, S), S) = n - 1
<1> DEFINE N == Cardinality(S)
           f == [x \in S |-> Rank(x, S)]
<1>1. N \in Nat BY DatedFinite, FS_CardinalityType
<1>2. f \in Injection(S, 0 .. N - 1)
  <2>1. f \in [S -> 0 .. N - 1] BY RankTyped
  <2>2. \A x, y \in S : f[x] = f[y] => x = y BY RankOrders
  <2>3. QED BY <2>1, <2>2 DEF Injection, IsInjective
<1>3. IsFiniteSet(0 .. N - 1) /\ Cardinality(0 .. N - 1) = N
  <2> HIDE DEF N
  <2> DEFINE m == N - 1
  <2>1. 0 \in Int /\ m \in Int BY <1>1
  <2> HIDE DEF m
  <2>2. IsFiniteSet(0 .. m) /\ Cardinality(0 .. m) = IF 0 > m THEN 0 ELSE m - 0 + 1
    BY <2>1, FS_Interval
  <2>3. (IF 0 > m THEN 0 ELSE m - 0 + 1) = N BY <1>1 DEF m
  <2>4. QED BY <2>2, <2>3 DEF m
<1> HIDE DEF f
<1>4. f \in Surjection(S, 0 .. N - 1)
  BY <1>2, <1>3, FS_Injection
<1>5. PICK x \in S : f[x] = n - 1
  BY <1>1, <1>4 DEF Surjection
<1>6. Cardinality(Newer(x, S)) = n - 1 BY <1>5 DEF f, Rank
<1>7. Nth(n, S) \in S /\ Cardinality(Newer(Nth(n, S), S)) = n - 1 BY <1>6 DEF Nth
<1>8. QED BY <1>7 DEF Rank

\* The n newest are the n - 1 newest and the n-th.
LEMMA TopGrows ==
    ASSUME NEW S, Dated(S), NEW n \in 1 .. Cardinality(S)
    PROVE  /\ Newer(Nth(n, S), S) = Top(n - 1, S)
           /\ Top(n, S) = Top(n - 1, S) \cup {Nth(n, S)}
           /\ Nth(n, S) \notin Top(n - 1, S)
<1> DEFINE x == Nth(n, S)
<1>1. x \in S /\ Rank(x, S) = n - 1 BY NthOrders
<1> HIDE DEF x
<1>2. \A y \in S : /\ y.at > x.at <=> Rank(y, S) < n - 1
                   /\ y = x <=> Rank(y, S) = n - 1
                   /\ Rank(y, S) \in Int
  BY <1>1, RankOrders, RankTyped
<1>3. \A y \in S : Rank(y, S) < n <=> Rank(y, S) < n - 1 \/ Rank(y, S) = n - 1
  BY <1>2
<1>4. Newer(x, S) = Top(n - 1, S) BY <1>2 DEF Newer, Top
<1>5. Top(n, S) = Top(n - 1, S) \cup {x} BY <1>1, <1>2, <1>3 DEF Top
<1>6. x \notin Top(n - 1, S) BY <1>1, <1>2 DEF Top
<1>7. QED BY <1>4, <1>5, <1>6 DEF x

\* The one before the n-th is the oldest of the newer ones.
LEMMA NthBefore ==
    ASSUME NEW S, Dated(S), NEW n \in 2 .. Cardinality(S)
    PROVE  /\ Nth(n - 1, S) \in Newer(Nth(n, S), S)
           /\ \A y \in Newer(Nth(n, S), S) : Nth(n - 1, S).at <= y.at
<1> DEFINE x == Nth(n, S)
           z == Nth(n - 1, S)
<1>1. Cardinality(S) \in Nat BY DatedFinite, FS_CardinalityType
<1>2. n \in 1 .. Cardinality(S) /\ n - 1 \in 1 .. Cardinality(S) BY <1>1
<1>3. x \in S /\ Rank(x, S) = n - 1 /\ z \in S /\ Rank(z, S) = n - 2 BY <1>2, NthOrders
<1> HIDE DEF x, z
<1>4. z.at > x.at BY <1>3, RankOrders
<1>5. ASSUME NEW y \in Newer(x, S) PROVE z.at <= y.at
  <2>1. y \in S /\ y.at > x.at BY DEF Newer
  <2>2. Rank(y, S) < n - 1 /\ Rank(y, S) \in Int BY <1>3, <2>1, RankOrders, RankTyped
  <2>3. ~(z.at > y.at) BY <1>3, <2>1, <2>2, RankOrders
  <2>4. QED BY <1>3, <2>1, <2>3, TimesAreNumbers
<1>6. QED BY <1>3, <1>4, <1>5 DEF Newer, x, z

-----------------------------------------------------------------------------
(* One bucket: Pass                                                          *)

\* The number of the period of a snapshot, or its place in the order.
Val(b, x, S) == IF b = "last" THEN Rank(x, S) ELSE Calendar[b][x.at]

BucketStates(S) == [counter : {-1} \cup Nat, last : {-1} \cup Nat, kept : SUBSET S]

LEMMA ValTyped ==
    ASSUME NEW b \in Buckets, NEW S, Dated(S), NEW x \in S
    PROVE  Val(b, x, S) \in Nat
<1>1. CASE b = "last" BY <1>1, RankTyped DEF Val
<1>2. CASE b # "last"
  <2>1. b \in Timeframes /\ x.at \in Times BY <1>2 DEF Buckets, Dated, Snaps
  <2>2. Calendar[b][x.at] \in Nat BY <2>1, SnapshotsAssumption
  <2>3. QED BY <1>2, <2>2 DEF Val
<1>3. QED BY <1>1, <1>2

LEMMA FirstsByVal ==
    ASSUME NEW b \in Buckets, NEW S, Dated(S)
    PROVE  FirstOfPeriod(b, S) = {x \in S : \A y \in Newer(x, S) : Val(b, y, S) # Val(b, x, S)}
<1>1. CASE b = "last"
  <2>1. ASSUME NEW x \in S, NEW y \in Newer(x, S) PROVE Rank(y, S) # Rank(x, S)
    <3>1. y \in S /\ y.at > x.at BY DEF Newer
    <3>2. x.at \in Nat /\ y.at \in Nat BY <3>1, TimesAreNumbers
    <3>3. y # x BY <3>1, <3>2
    <3>4. QED BY <3>1, <3>3, RankOrders
  <2>2. FirstOfPeriod(b, S) = S BY <1>1 DEF FirstOfPeriod
  <2>3. QED BY <1>1, <2>1, <2>2 DEF Val
<1>2. CASE b # "last" BY <1>2 DEF FirstOfPeriod, Val
<1>3. QED BY <1>1, <1>2

LEMMA StepByVal ==
    ASSUME NEW b \in Buckets, NEW S, Dated(S), NEW n \in 1 .. Cardinality(S), NEW w \in BucketStates(S)
    PROVE  PassStep(b, n, S, w) =
             IF w.counter # 0 /\ (Val(b, Nth(n, S), S) # w.last \/ n = Cardinality(S))
             THEN [counter |-> IF w.counter > 0 THEN w.counter - 1 ELSE -1,
                   last |-> Val(b, Nth(n, S), S), kept |-> w.kept \cup {Nth(n, S)}]
             ELSE w
<1>1. Rank(Nth(n, S), S) = n - 1 BY NthOrders
<1>2. Val(b, Nth(n, S), S) = IF b = "last" THEN n - 1 ELSE Calendar[b][Nth(n, S).at]
  BY <1>1 DEF Val
<1>3. (w.counter > 0 \/ w.counter = -1) <=> w.counter # 0 BY DEF BucketStates
<1>4. QED BY <1>2, <1>3 DEF PassStep

LEMMA StepTyped ==
    ASSUME NEW b \in Buckets, NEW S, Dated(S), NEW n \in 1 .. Cardinality(S), NEW w \in BucketStates(S)
    PROVE  PassStep(b, n, S, w) \in BucketStates(S)
<1> DEFINE x == Nth(n, S)
           v == Val(b, x, S)
           c == IF w.counter > 0 THEN w.counter - 1 ELSE -1
<1>1. x \in S BY NthOrders
<1>2. v \in Nat BY <1>1, ValTyped
<1>3. c \in {-1} \cup Nat /\ w.kept \in SUBSET S BY DEF BucketStates
<1>4. [counter |-> c, last |-> v, kept |-> w.kept \cup {x}] \in BucketStates(S)
  <2> HIDE DEF c, v, x
  <2>1. w.kept \cup {x} \in SUBSET S BY <1>1, <1>3
  <2>2. QED BY <1>2, <1>3, <2>1 DEF BucketStates
<1> DEFINE r == [counter |-> c, last |-> v, kept |-> w.kept \cup {x}]
           kept == w.counter # 0 /\ (v # w.last \/ n = Cardinality(S))
<1>5. PassStep(b, n, S, w) = IF kept THEN r ELSE w BY StepByVal, Zenon
<1> HIDE DEF r, kept
<1>6. PassStep(b, n, S, w) = r \/ PassStep(b, n, S, w) = w BY <1>5
<1>7. QED BY <1>4, <1>6 DEF r

\* f is the state of the bucket after each of the snapshots.
PassRounds(f, b, limit, S) ==
    /\ f \in [0 .. Cardinality(S) -> BucketStates(S)]
    /\ f[0] = [counter |-> limit, last |-> -1, kept |-> {}]
    /\ \A n \in 1 .. Cardinality(S) : f[n] = PassStep(b, n, S, f[n - 1])

LEMMA PassIsRounds ==
    ASSUME NEW b \in Buckets, NEW limit \in Int, limit >= -1, NEW S, Dated(S)
    PROVE  \E f : PassRounds(f, b, limit, S) /\ Pass(b, limit, S) = f[Cardinality(S)]
<1> DEFINE N == Cardinality(S)
           X == BucketStates(S)
           c == [counter |-> limit, last |-> -1, kept |-> {}]
           step == [n \in 1 .. N |-> [w \in X |-> PassStep(b, n, S, w)]]
<1>1. N \in Nat BY DatedFinite, FS_CardinalityType
<1>2. step \in [1 .. N -> [X -> X]]
  <2>1. \A n \in 1 .. N : \A w \in X : PassStep(b, n, S, w) \in X BY StepTyped
  <2> HIDE DEF X, N
  <2>2. QED BY <2>1
<1>3. c \in X
  <2>1. limit \in {-1} \cup Nat /\ -1 \in {-1} \cup Nat OBVIOUS
  <2>2. QED BY <2>1 DEF BucketStates
<1> HIDE DEF step, N, X, c
<1>4. PICK g : Rounds(g, N, X, c, step) BY <1>1, <1>2, <1>3, Recursion, Zenon
<1>5. g \in [0 .. N -> X] /\ g[0] = c BY <1>4 DEF Rounds
<1>6. ASSUME NEW n \in 1 .. N PROVE g[n] = PassStep(b, n, S, g[n - 1])
  <2>1. n - 1 \in 0 .. N BY <1>1
  <2>2. g[n - 1] \in X BY <1>5, <2>1
  <2>3. step[n] = [w \in X |-> PassStep(b, n, S, w)] BY Zenon DEF step
  <2>4. step[n][g[n - 1]] = PassStep(b, n, S, g[n - 1]) BY <2>2, <2>3, Zenon
  <2>5. g[n] = step[n][g[n - 1]] BY <1>4 DEF Rounds
  <2>6. QED BY <2>4, <2>5, Zenon
<1> DEFINE F(f) == [n \in 0 .. N |-> IF n = 0 THEN c ELSE PassStep(b, n, S, f[n - 1])]
           pass == CHOOSE f : f = F(f)
<1>7. g = F(g)
  <2>1. \A n \in 0 .. N : n # 0 => n \in 1 .. N BY <1>1
  <2>2. \A n \in 0 .. N : g[n] = IF n = 0 THEN c ELSE PassStep(b, n, S, g[n - 1])
    BY <1>5, <1>6, <2>1, Zenon
  <2>3. QED BY <1>5, <2>2
<1>8. pass = F(pass) BY <1>7
<1>9. Pass(b, limit, S) = pass[N] BY Zenon DEF Pass, N, c
<1> HIDE DEF pass
<1>10. 0 \in 0 .. N /\ \A n \in 1 .. N : n \in 0 .. N /\ n # 0 BY <1>1
<1>11. pass[0] = c BY <1>8, <1>10
<1>12. ASSUME NEW n \in 1 .. N PROVE pass[n] = PassStep(b, n, S, pass[n - 1])
  <2>1. F(pass)[n] = PassStep(b, n, S, pass[n - 1]) BY <1>10
  <2>2. QED BY <1>8, <2>1, Zenon
<1> DEFINE T == {n \in 0 .. N : pass[n] = g[n]}
<1>13. T = 0 .. N
  <2>1. 0 \in T BY <1>5, <1>10, <1>11
  <2>2. ASSUME NEW n \in 1 .. N, n - 1 \in T PROVE n \in T
    <3>1. pass[n - 1] = g[n - 1] BY <2>2
    <3>2. pass[n] = g[n] BY <1>6, <1>12, <3>1, Zenon
    <3>3. QED BY <1>10, <3>2
  <2>3. T \in SUBSET (0 .. N) OBVIOUS
  <2> HIDE DEF T
  <2>4. QED BY <2>1, <2>2, <2>3, <1>1, Counting
<1>14. pass[N] = g[N]
  <2>1. N \in 0 .. N BY <1>1
  <2>2. QED BY <1>13, <2>1
<1>15. PassRounds(g, b, limit, S) BY <1>5, <1>6, Zenon DEF PassRounds, N, X, c
<1>16. QED BY <1>9, <1>14, <1>15, Zenon DEF N

\* What a bucket has kept of the n newest: it takes one from the quota for each.
CountInv(limit, S, n, w) ==
    /\ w \in BucketStates(S) /\ w.kept \in SUBSET Top(n, S)
    /\ limit = -1 => w.counter = -1
    /\ limit # -1 => w.counter >= 0 /\ w.counter + Cardinality(w.kept) = limit

TheOldest(S) == {x \in S : \A y \in S : x.at <= y.at}

\* But for the oldest of all, which is kept when there is quota left, they are the
\* first ones of their periods, and none of these is left out while the quota lasts.
FirstInv(b, limit, S, n, w) ==
    /\ w.kept \in SUBSET (FirstOfPeriod(b, S) \cup TheOldest(S))
    /\ n < Cardinality(S) => w.kept \in SUBSET FirstOfPeriod(b, S)
    /\ n = 0 => w.last = -1
    /\ n \in 1 .. Cardinality(S) - 1 /\ w.counter # 0 => w.last = Val(b, Nth(n, S), S)
    /\ \A x \in (FirstOfPeriod(b, S) \cup TheOldest(S)) \cap Top(n, S) :
         limit = -1 \/ Cardinality(Newer(x, FirstOfPeriod(b, S))) < limit => x \in w.kept
    /\ \A x \in w.kept : limit = -1 \/ Cardinality(Newer(x, FirstOfPeriod(b, S))) < limit
    /\ w.counter # 0 => FirstOfPeriod(b, S) \cap Top(n, S) \in SUBSET w.kept

LEMMA TopFinite ==
    ASSUME NEW S, Dated(S), NEW n, NEW K \in SUBSET Top(n, S)
    PROVE  K \in SUBSET S /\ IsFiniteSet(K) /\ Cardinality(K) \in Nat
<1>1. K \in SUBSET S BY DEF Top
<1>2. IsFiniteSet(K) BY <1>1, DatedFinite, FS_Subset
<1>3. QED BY <1>1, <1>2, FS_CardinalityType

LEMMA TopOfAll == ASSUME NEW S, Dated(S) PROVE Top(Cardinality(S), S) = S
<1>1. \A x \in S : Rank(x, S) \in 0 .. Cardinality(S) - 1 /\ Cardinality(S) \in Nat
  BY RankTyped
<1>2. QED BY <1>1 DEF Top

LEMMA CountBegins ==
    ASSUME NEW b \in Buckets, NEW limit \in Int, limit >= -1, NEW S, Dated(S)
    PROVE  CountInv(limit, S, 0, [counter |-> limit, last |-> -1, kept |-> {}])
<1>1. limit \in {-1} \cup Nat /\ -1 \in {-1} \cup Nat OBVIOUS
<1>2. Cardinality({}) = 0 BY FS_EmptySet
<1>3. QED BY <1>1, <1>2 DEF CountInv, BucketStates

LEMMA CountGoesOn ==
    ASSUME NEW b \in Buckets, NEW limit \in Int, limit >= -1, NEW S, Dated(S),
           NEW n \in 1 .. Cardinality(S), NEW w, CountInv(limit, S, n - 1, w)
    PROVE  CountInv(limit, S, n, PassStep(b, n, S, w))
<1> DEFINE x == Nth(n, S)
           r == PassStep(b, n, S, w)
           kept == w.counter # 0 /\ (Val(b, x, S) # w.last \/ n = Cardinality(S))
<1>1. w \in BucketStates(S) BY DEF CountInv
<1>2. r \in BucketStates(S) BY <1>1, StepTyped
<1>3. Top(n, S) = Top(n - 1, S) \cup {x} /\ x \notin Top(n - 1, S) BY TopGrows
<1>4. w.kept \in SUBSET Top(n - 1, S) BY DEF CountInv
<1>5. /\ kept => /\ r.kept = w.kept \cup {x}
                 /\ r.counter = IF w.counter > 0 THEN w.counter - 1 ELSE -1
      /\ ~kept => r = w
  BY <1>1, StepByVal
<1> HIDE DEF kept, x, r
<1>6. CASE ~kept
  <2>1. w.kept \in SUBSET Top(n, S) BY <1>3, <1>4
  <2>2. QED BY <1>5, <1>6, <2>1 DEF CountInv, r
<1>7. CASE kept
  <2>1. r.kept = w.kept \cup {x} /\ r.kept \in SUBSET Top(n, S) BY <1>3, <1>4, <1>5, <1>7
  <2>2. IsFiniteSet(w.kept) /\ x \notin w.kept /\ Cardinality(w.kept) \in Nat
    BY <1>3, <1>4, TopFinite
  <2>3. Cardinality(r.kept) = Cardinality(w.kept) + 1 BY <2>1, <2>2, FS_AddElement
  <2>4. w.counter \in {-1} \cup Nat /\ w.counter # 0 BY <1>1, <1>7 DEF BucketStates, kept
  <2>5. r.counter = IF w.counter > 0 THEN w.counter - 1 ELSE -1 BY <1>5, <1>7
  <2>6. limit = -1 => r.counter = -1 BY <2>4, <2>5 DEF CountInv
  <2>7. limit # -1 => r.counter >= 0 /\ r.counter + Cardinality(r.kept) = limit
    BY <2>2, <2>3, <2>4, <2>5 DEF CountInv
  <2>8. QED BY <1>2, <2>1, <2>6, <2>7 DEF CountInv, r
<1>8. QED BY <1>6, <1>7

LEMMA SamePeriod ==
    ASSUME NEW b \in Buckets, NoGaps(b), NEW S, Dated(S),
           NEW x \in S, NEW y \in S, NEW z \in S,
           x.at <= y.at, y.at <= z.at, Val(b, x, S) = Val(b, z, S)
    PROVE  Val(b, y, S) = Val(b, x, S)
<1>1. CASE b = "last"
  <2>1. x = z BY <1>1, RankOrders DEF Val
  <2>2. x.at = y.at BY <2>1, TimesAreNumbers
  <2>3. QED BY <2>2 DEF Dated
<1>2. CASE b # "last"
  <2>1. x.at \in Times /\ y.at \in Times /\ z.at \in Times BY DEF Dated, Snaps
  <2>2. QED BY <1>2, <2>1 DEF NoGaps, Val
<1>3. QED BY <1>1, <1>2

LEMMA FirstBegins ==
    ASSUME NEW b \in Buckets, NEW limit \in Int, limit >= -1, NEW S, Dated(S)
    PROVE  FirstInv(b, limit, S, 0, [counter |-> limit, last |-> -1, kept |-> {}])
<1>1. Top(0, S) = {} BY RankTyped DEF Top
<1>2. QED BY <1>1 DEF FirstInv

LEMMA FirstGoesOn ==
    ASSUME NEW b \in Buckets, NoGaps(b),
           NEW limit \in Int, limit >= -1, NEW S, Dated(S),
           NEW n \in 1 .. Cardinality(S), NEW w,
           CountInv(limit, S, n - 1, w), FirstInv(b, limit, S, n - 1, w)
    PROVE  FirstInv(b, limit, S, n, PassStep(b, n, S, w))
<1> DEFINE x == Nth(n, S)
           N == Cardinality(S)
           F == FirstOfPeriod(b, S)
           O == TheOldest(S)
           v == Val(b, x, S)
           r == PassStep(b, n, S, w)
           kept == w.counter # 0 /\ (v # w.last \/ n = N)
<1>1. w \in BucketStates(S) /\ w.kept \in SUBSET Top(n - 1, S) /\ w.counter \in {-1} \cup Nat
  BY DEF CountInv, BucketStates
<1>2. /\ Top(n, S) = Top(n - 1, S) \cup {x} /\ x \notin Top(n - 1, S)
      /\ Newer(x, S) = Top(n - 1, S) /\ x \in S
  BY TopGrows, NthOrders
<1>3. N \in Nat BY DatedFinite, FS_CardinalityType
<1>4. /\ kept => /\ r.kept = w.kept \cup {x} /\ r.last = v
                 /\ r.counter = IF w.counter > 0 THEN w.counter - 1 ELSE -1
      /\ ~kept => r = w
  BY <1>1, StepByVal
<1>5. w.kept \in SUBSET F BY <1>3 DEF FirstInv
<1>6. v \in Nat BY <1>2, ValTyped
\* While there is quota left, the n-th is the first of its period just when it is not
\* of the period of the one before.
<1>7. ASSUME w.counter # 0 PROVE x \in F <=> v # w.last
  <2>1. CASE n = 1
    <3>1. w.last = -1 BY <2>1 DEF FirstInv
    <3>2. Top(0, S) = {} BY RankTyped DEF Top
    <3>3. x \in F BY <1>2, <2>1, <3>2, FirstsByVal
    <3>4. QED BY <1>6, <3>1, <3>3
  <2>2. CASE n # 1
    <3> DEFINE z == Nth(n - 1, S)
    <3>1. n \in 2 .. N /\ n - 1 \in 1 .. N - 1 BY <1>3, <2>2
    <3>2. w.last = Val(b, z, S) BY <1>7, <3>1 DEF FirstInv
    <3>3. z \in Newer(x, S) /\ \A y \in Newer(x, S) : z.at <= y.at BY <3>1, NthBefore
    <3> HIDE DEF z, x
    <3>4. ASSUME x \in F PROVE v # w.last BY <1>2, <3>2, <3>3, <3>4, FirstsByVal
    <3>5. ASSUME v # w.last, NEW y \in Newer(x, S) PROVE Val(b, y, S) # v
      <4>1. y \in S /\ z \in S /\ y.at > x.at /\ z.at > x.at /\ z.at <= y.at BY <3>3, <3>5 DEF Newer
      <4>2. x.at <= z.at /\ x.at \in Nat /\ z.at \in Nat BY <1>2, <4>1, TimesAreNumbers
      <4>3. Val(b, x, S) = Val(b, y, S) => Val(b, z, S) = Val(b, x, S)
        BY <1>2, <4>1, <4>2, SamePeriod
      <4>4. QED BY <3>2, <3>5, <4>3
    <3>6. ASSUME v # w.last PROVE x \in F BY <1>2, <3>5, <3>6, FirstsByVal
    <3>7. QED BY <3>4, <3>6
  <2>3. QED BY <2>1, <2>2
<1> HIDE DEF kept, x, r, F, O, N, v
<1>8. Newer(x, F) = F \cap Top(n - 1, S) /\ F \in SUBSET S
  BY <1>2 DEF Newer, F, FirstOfPeriod
<1>9. IsFiniteSet(Newer(x, F)) /\ Cardinality(Newer(x, F)) \in Nat
  <2>1. Newer(x, F) \in SUBSET S BY <1>8
  <2>2. QED BY <2>1, DatedFinite, FS_Subset, FS_CardinalityType
<1>10. IsFiniteSet(w.kept) /\ Cardinality(w.kept) \in Nat
  <2>1. w.kept \in SUBSET S BY <1>1 DEF Top
  <2>2. QED BY <2>1, DatedFinite, FS_Subset, FS_CardinalityType
\* The last snapshot is the oldest.
<1>11. x \in O <=> n = N
  <2>1. x \in O => \A y \in S : ~(x.at > y.at) BY <1>2, TimesAreNumbers DEF O, TheOldest
  <2>2. ASSUME x \in O, n # N PROVE FALSE
    <3>1. n + 1 \in 2 .. N /\ n + 1 \in 1 .. N /\ n + 1 - 1 = n BY <1>3, <2>2 DEF N
    <3>2. Nth(n, S) \in Newer(Nth(n + 1, S), S) BY <3>1, NthBefore DEF N
    <3>3. Nth(n + 1, S) \in S BY <3>1, NthOrders DEF N
    <3>4. QED BY <2>1, <2>2, <3>2, <3>3 DEF Newer, x
  <2>3. ASSUME n = N, NEW y \in S PROVE x.at <= y.at
    <3>1. y \in Top(n, S) BY <2>3, TopOfAll DEF N
    <3>2. y = x \/ y \in Newer(x, S) BY <1>2, <3>1
    <3>3. QED BY <1>2, <3>2, TimesAreNumbers DEF Newer
  <2>4. QED BY <1>2, <2>2, <2>3 DEF O, TheOldest
<1>12. ASSUME kept PROVE x \in F \cup O /\ (n < N => x \in F)
  <2>1. CASE n = N BY <1>3, <1>11, <2>1
  <2>2. CASE n # N
    <3>1. w.counter # 0 /\ v # w.last BY <1>12, <2>2 DEF kept
    <3>2. QED BY <1>7, <3>1
  <2>3. QED BY <2>1, <2>2
<1>13. w.kept \in SUBSET r.kept /\ r.kept \in SUBSET (w.kept \cup {x}) /\ (x \in r.kept <=> kept)
  BY <1>1, <1>2, <1>4
<1>14. r.kept \in SUBSET (F \cup O) /\ (n < N => r.kept \in SUBSET F)
  BY <1>5, <1>12, <1>13
<1>15. ASSUME n \in 1 .. N - 1, r.counter # 0 PROVE r.last = v
  <2>1. CASE kept BY <1>4, <2>1
  <2>2. CASE ~kept
    <3>1. w.counter # 0 /\ n # N /\ v = w.last /\ r = w BY <1>3, <1>4, <1>15, <2>2 DEF kept
    <3>2. QED BY <3>1
  <2>3. QED BY <2>1, <2>2
<1>16. ASSUME w.counter # 0, x \in F \cup O PROVE kept
  <2>1. CASE n = N BY <1>16, <2>1 DEF kept
  <2>2. CASE n # N BY <1>7, <1>11, <1>16, <2>2 DEF kept
  <2>3. QED BY <2>1, <2>2
<1>17. ASSUME NEW y \in (F \cup O) \cap Top(n, S), limit = -1 \/ Cardinality(Newer(y, F)) < limit
       PROVE  y \in r.kept
  <2>1. CASE y \in Top(n - 1, S)
    <3>1. y \in w.kept BY <1>17, <2>1 DEF FirstInv, F, O
    <3>2. QED BY <1>13, <3>1
  <2>2. CASE y = x
    <3>1. CASE w.counter # 0 BY <1>13, <1>16, <1>17, <2>2, <3>1
    <3>2. CASE w.counter = 0
      <4>1. limit # -1 /\ w.counter + Cardinality(w.kept) = limit BY <3>2 DEF CountInv
      <4>2. w.kept \in SUBSET Newer(x, F) BY <1>1, <1>5, <1>8
      <4>3. Cardinality(w.kept) <= Cardinality(Newer(x, F)) BY <1>9, <4>2, FS_Subset
      <4>4. QED BY <1>9, <1>10, <1>17, <2>2, <3>2, <4>1, <4>3
    <3>3. QED BY <3>1, <3>2
  <2>3. QED BY <1>2, <1>17, <2>1, <2>2
<1>18. ASSUME NEW y \in r.kept PROVE limit = -1 \/ Cardinality(Newer(y, F)) < limit
  <2>1. CASE y \in w.kept BY <2>1 DEF FirstInv, F
  <2>2. CASE y = x /\ limit # -1
    <3>1. w.counter # 0 BY <1>13, <1>18, <2>2 DEF kept
    <3>2. Newer(x, F) \in SUBSET w.kept BY <1>8, <3>1 DEF FirstInv, F
    <3>3. Cardinality(Newer(x, F)) <= Cardinality(w.kept) BY <1>10, <3>2, FS_Subset
    <3>4. w.counter >= 0 /\ w.counter + Cardinality(w.kept) = limit BY <2>2 DEF CountInv
    <3>5. QED BY <1>1, <1>9, <1>10, <2>2, <3>1, <3>3, <3>4
  <2>3. QED BY <1>13, <1>18, <2>1, <2>2
<1>19. ASSUME r.counter # 0 PROVE F \cap Top(n, S) \in SUBSET r.kept
  <2>1. w.counter # 0
    <3>1. CASE kept BY <3>1 DEF kept
    <3>2. CASE ~kept BY <1>4, <1>19, <3>2
    <3>3. QED BY <3>1, <3>2
  <2>2. F \cap Top(n - 1, S) \in SUBSET w.kept BY <2>1 DEF FirstInv, F
  <2>3. x \in F => x \in r.kept BY <1>13, <1>16, <2>1
  <2>4. QED BY <1>2, <1>13, <2>2, <2>3
<1>20. n # 0 OBVIOUS
<1>21. QED BY <1>14, <1>15, <1>17, <1>18, <1>19, <1>20 DEF FirstInv, r, F, O, N, v, x

\* The bucket as it was after each of the snapshots, by induction on their order.
LEMMA PassCounts ==
    ASSUME NEW b \in Buckets, NEW limit \in Int, limit >= -1, NEW S, Dated(S),
           NEW f, PassRounds(f, b, limit, S)
    PROVE  \A n \in 0 .. Cardinality(S) : CountInv(limit, S, n, f[n])
<1> DEFINE N == Cardinality(S)
           T == {n \in 0 .. N : CountInv(limit, S, n, f[n])}
<1>1. N \in Nat /\ 0 \in 0 .. N /\ \A n \in 1 .. N : n \in 0 .. N
  BY DatedFinite, FS_CardinalityType
<1>2. 0 \in T BY <1>1, CountBegins DEF PassRounds
<1>3. ASSUME NEW n \in 1 .. N, n - 1 \in T PROVE n \in T
  <2>1. CountInv(limit, S, n - 1, f[n - 1]) BY <1>3
  <2>2. CountInv(limit, S, n, PassStep(b, n, S, f[n - 1])) BY <2>1, CountGoesOn
  <2>3. f[n] = PassStep(b, n, S, f[n - 1]) BY DEF PassRounds
  <2>4. QED BY <1>1, <2>2, <2>3
<1>4. T \in SUBSET (0 .. N) OBVIOUS
<1> HIDE DEF T
<1>5. T = 0 .. N BY <1>1, <1>2, <1>3, <1>4, Counting
<1>6. QED BY <1>5 DEF T

LEMMA PassFirsts ==
    ASSUME NEW b \in Buckets, NoGaps(b),
           NEW limit \in Int, limit >= -1, NEW S, Dated(S),
           NEW f, PassRounds(f, b, limit, S)
    PROVE  \A n \in 0 .. Cardinality(S) : FirstInv(b, limit, S, n, f[n])
<1> DEFINE N == Cardinality(S)
           T == {n \in 0 .. N : FirstInv(b, limit, S, n, f[n])}
<1>1. N \in Nat /\ 0 \in 0 .. N /\ \A n \in 1 .. N : n \in 0 .. N /\ n - 1 \in 0 .. N
  BY DatedFinite, FS_CardinalityType
<1>2. 0 \in T BY <1>1, FirstBegins DEF PassRounds
<1>3. ASSUME NEW n \in 1 .. N, n - 1 \in T PROVE n \in T
  <2>1. FirstInv(b, limit, S, n - 1, f[n - 1]) /\ CountInv(limit, S, n - 1, f[n - 1])
    BY <1>1, <1>3, PassCounts
  <2>2. FirstInv(b, limit, S, n, PassStep(b, n, S, f[n - 1])) BY <2>1, FirstGoesOn
  <2>3. f[n] = PassStep(b, n, S, f[n - 1]) BY DEF PassRounds
  <2>4. QED BY <1>1, <2>2, <2>3
<1>4. T \in SUBSET (0 .. N) OBVIOUS
<1> HIDE DEF T
<1>5. T = 0 .. N BY <1>1, <1>2, <1>3, <1>4, Counting
<1>6. QED BY <1>5 DEF T

\* A bucket keeps no more snapshots than its quota.
LEMMA PassWithinQuota ==
    ASSUME NEW b \in Buckets, NEW limit \in Int, limit >= -1, NEW S, Dated(S)
    PROVE  /\ Pass(b, limit, S).kept \in SUBSET S
           /\ limit # -1 => Cardinality(Pass(b, limit, S).kept) <= limit
<1> DEFINE N == Cardinality(S)
<1>1. PICK f : PassRounds(f, b, limit, S) /\ Pass(b, limit, S) = f[N] BY PassIsRounds
<1>2. N \in 0 .. N BY DatedFinite, FS_CardinalityType
<1>3. CountInv(limit, S, N, f[N]) BY <1>1, <1>2, PassCounts
<1>4. f[N].kept \in SUBSET S BY <1>3, TopOfAll DEF CountInv
<1>5. Cardinality(f[N].kept) \in Nat BY <1>4, DatedFinite, FS_Subset, FS_CardinalityType
<1>6. limit # -1 => f[N].counter >= 0 /\ f[N].counter + Cardinality(f[N].kept) = limit
                      /\ f[N].counter \in Int
  BY <1>3 DEF CountInv, BucketStates
<1>7. QED BY <1>1, <1>4, <1>5, <1>6

\* The newest of the newest periods, and the oldest snapshot: as many as the quota says.
Reference(b, limit, S) ==
    {x \in FirstOfPeriod(b, S) \cup TheOldest(S) :
        limit = -1 \/ Cardinality(Newer(x, FirstOfPeriod(b, S))) < limit}

\* One bucket keeps the newest snapshot of each of the newest periods, as many as its
\* quota says, and the oldest of all if there is quota left, whatever the snapshots
\* and the periods are, as long as these have no gaps (_prune_snaps_with_quotas,
\* backup/__init__.py:324-372).
THEOREM PassIsReference ==
    ASSUME NEW b \in Buckets, NoGaps(b), NEW limit \in Int, limit >= -1, NEW S, Dated(S)
    PROVE  Pass(b, limit, S).kept = Reference(b, limit, S)
<1> DEFINE N == Cardinality(S)
<1>1. PICK f : PassRounds(f, b, limit, S) /\ Pass(b, limit, S) = f[N] BY PassIsRounds
<1>2. N \in 0 .. N BY DatedFinite, FS_CardinalityType
<1>3. FirstInv(b, limit, S, N, f[N]) BY <1>1, <1>2, PassFirsts
<1>4. FirstOfPeriod(b, S) \cup TheOldest(S) \in SUBSET Top(N, S) BY TopOfAll DEF FirstOfPeriod, TheOldest
<1>5. QED BY <1>1, <1>3, <1>4 DEF FirstInv, Reference

\* So it keeps what is promised.
LEMMA PassKeepsPromises ==
    ASSUME NEW b \in Buckets, NoGaps(b), NEW limit \in Int, limit >= -1, NEW S, Dated(S)
    PROVE  PromisedBy(b, limit, S) \in SUBSET Pass(b, limit, S).kept
<1>1. PromisedBy(b, limit, S) \in SUBSET Reference(b, limit, S) BY DEF PromisedBy, Reference
<1>2. QED BY <1>1, PassIsReference

-----------------------------------------------------------------------------
(* A part of the snapshots                                                   *)

\* The newest of the period of y.
NewestOfPeriod(b, y, S) ==
    LET same == {z \in S : Calendar[b][z.at] = Calendar[b][y.at]}
    IN  CHOOSE z \in same : \A u \in same : u.at <= z.at

LEMMA NewestIsFirst ==
    ASSUME NEW b, b # "last", NEW S, Dated(S), NEW y \in S
    PROVE  LET z == NewestOfPeriod(b, y, S)
           IN  /\ z \in FirstOfPeriod(b, S) /\ y.at <= z.at
               /\ Calendar[b][z.at] = Calendar[b][y.at]
<1> DEFINE same == {z \in S : Calendar[b][z.at] = Calendar[b][y.at]}
           z == CHOOSE z \in same : \A u \in same : u.at <= z.at
<1>1. same \in SUBSET Snaps /\ same # {} /\ y \in same BY DEF Dated
<1>2. z \in same BY <1>1, Latest
<1>3. \A u \in same : u.at <= z.at
  <2>1. \E t \in same : \A u \in same : u.at <= t.at BY <1>1, LatestIs
  <2>2. QED BY <2>1
<1> HIDE DEF z
<1>4. \A u \in Newer(z, S) : Calendar[b][u.at] # Calendar[b][z.at]
  <2>1. \A u \in Newer(z, S) : u \in S /\ u.at > z.at BY DEF Newer
  <2>2. \A u \in S : u.at \in Nat BY TimesAreNumbers
  <2>3. z \in S /\ Calendar[b][z.at] = Calendar[b][y.at] BY <1>2
  <2>4. QED BY <1>3, <2>1, <2>2, <2>3
<1>5. z = NewestOfPeriod(b, y, S) BY DEF z, NewestOfPeriod
<1>6. QED BY <1>1, <1>2, <1>3, <1>4, <1>5 DEF FirstOfPeriod

\* What is promised of the snapshots that exist is promised of any part of them that it
\* is in: with fewer snapshots there are no more newer periods.
LEMMA PartKeepsPromises ==
    ASSUME NEW b \in Buckets, NEW limit \in Int, NEW S, Dated(S), NEW R \in SUBSET S
    PROVE  PromisedBy(b, limit, S) \cap R \in SUBSET PromisedBy(b, limit, R)
<1>1. SUFFICES ASSUME NEW x \in PromisedBy(b, limit, S) \cap R
               PROVE  x \in PromisedBy(b, limit, R)
  OBVIOUS
<1> DEFINE FS == FirstOfPeriod(b, S)
           FR == FirstOfPeriod(b, R)
<1>2. Dated(R) BY DEF Dated
<1>3. x \in FS /\ x \in R /\ (limit = -1 \/ Cardinality(Newer(x, FS)) < limit)
  BY <1>1 DEF PromisedBy
<1>4. x \in FR BY <1>3 DEF FirstOfPeriod, Newer
<1>5. FS \in SUBSET S /\ FR \in SUBSET R BY DEF FirstOfPeriod
<1>6. IsFiniteSet(Newer(x, FS)) /\ Cardinality(Newer(x, FS)) \in Nat
  <2>1. Newer(x, FS) \in SUBSET S BY <1>5 DEF Newer
  <2>2. QED BY <2>1, DatedFinite, FS_Subset, FS_CardinalityType
<1>7. Cardinality(Newer(x, FR)) \in Nat /\ Cardinality(Newer(x, FR)) <= Cardinality(Newer(x, FS))
  <2>1. CASE b = "last"
    <3>1. FS = S /\ FR = R BY <2>1 DEF FirstOfPeriod
    <3>2. Newer(x, FR) \in SUBSET Newer(x, FS) BY <3>1 DEF Newer
    <3>3. QED BY <1>6, <3>2, FS_Subset, FS_CardinalityType
  <2>2. CASE b # "last"
    <3> DEFINE g == [y \in Newer(x, FR) |-> NewestOfPeriod(b, y, S)]
    <3>1. ASSUME NEW y \in Newer(x, FR)
          PROVE  /\ NewestOfPeriod(b, y, S) \in Newer(x, FS)
                 /\ Calendar[b][NewestOfPeriod(b, y, S).at] = Calendar[b][y.at]
      <4> DEFINE z == NewestOfPeriod(b, y, S)
      <4>1. y \in S /\ y.at > x.at BY <1>5 DEF Newer
      <4>2. z \in FS /\ y.at <= z.at /\ Calendar[b][z.at] = Calendar[b][y.at]
        BY <2>2, <4>1, NewestIsFirst
      <4> HIDE DEF z
      <4>3. x.at \in Nat /\ y.at \in Nat /\ z.at \in Nat BY <1>3, <1>5, <4>1, <4>2, TimesAreNumbers
      <4>4. z.at > x.at BY <4>1, <4>2, <4>3
      <4>5. QED BY <4>2, <4>4 DEF Newer, z
    <3>2. ASSUME NEW y \in Newer(x, FR), NEW u \in Newer(x, FR),
                 NewestOfPeriod(b, y, S) = NewestOfPeriod(b, u, S)
          PROVE  y = u
      <4>1. Calendar[b][y.at] = Calendar[b][u.at] BY <3>1, <3>2
      <4>2. y \in FR /\ u \in FR /\ y \in R /\ u \in R BY <1>5 DEF Newer
      <4>3. ~(y.at > u.at) /\ ~(u.at > y.at) BY <2>2, <4>1, <4>2 DEF FirstOfPeriod, Newer
      <4>4. y.at \in Nat /\ u.at \in Nat BY <1>2, <4>2, TimesAreNumbers
      <4>5. y.at = u.at BY <4>3, <4>4
      <4>6. QED BY <1>2, <4>2, <4>5 DEF Dated
    <3>3. g \in Injection(Newer(x, FR), Newer(x, FS))
      <4>1. g \in [Newer(x, FR) -> Newer(x, FS)] BY <3>1
      <4>2. \A y, u \in Newer(x, FR) : g[y] = g[u] => y = u BY <3>2
      <4> HIDE DEF g
      <4>3. QED BY <4>1, <4>2 DEF Injection, IsInjective
    <3> HIDE DEF g
    <3>4. QED BY <1>6, <3>3, FS_Injection, FS_CardinalityType
  <2>3. QED BY <2>1, <2>2
<1>8. limit = -1 \/ Cardinality(Newer(x, FR)) < limit BY <1>3, <1>6, <1>7
<1>9. QED BY <1>4, <1>8 DEF PromisedBy

-----------------------------------------------------------------------------
(* Sums over sets                                                            *)

Total(q, T) == MapThenSumSet(LAMBDA b : q[b], T)

\* g sums the values of q over the subsets of T, taking one element after the other.
Sums(g, T, q) ==
    /\ g \in [SUBSET T -> Int] /\ g[{}] = 0
    /\ \A s \in SUBSET T : s # {} => \E x \in s : g[s] = q[x] + g[s \ {x}]

\* Induction over the sizes of the subsets of a finite set: C holds the subsets that
\* something is true of.
LEMMA SubsetInduction ==
    ASSUME NEW T, IsFiniteSet(T), NEW C \in SUBSET (SUBSET T), {} \in C,
           \A s \in SUBSET T : s # {} /\ (\A x \in s : s \ {x} \in C) => s \in C
    PROVE  C = SUBSET T
<1> DEFINE N == Cardinality(T)
           D == {n \in 0 .. N : \A s \in SUBSET T : Cardinality(s) <= n => s \in C}
<1>1. N \in Nat BY FS_CardinalityType
<1>2. \A s \in SUBSET T : IsFiniteSet(s) /\ Cardinality(s) \in Nat /\ Cardinality(s) <= N
  BY FS_Subset, FS_CardinalityType
<1>3. 0 \in D
  <2>1. \A s \in SUBSET T : Cardinality(s) <= 0 => s = {} BY <1>2, FS_EmptySet
  <2>2. QED BY <1>1, <2>1
<1>4. ASSUME NEW n \in 1 .. N, n - 1 \in D PROVE n \in D
  <2>1. SUFFICES ASSUME NEW s \in SUBSET T, Cardinality(s) <= n, s # {} PROVE s \in C
    BY <1>1
  <2>2. ASSUME NEW x \in s PROVE s \ {x} \in C
    <3>1. Cardinality(s \ {x}) = Cardinality(s) - 1 BY <1>2, FS_RemoveElement
    <3>2. Cardinality(s \ {x}) <= n - 1 /\ s \ {x} \in SUBSET T BY <1>2, <2>1, <3>1
    <3>3. QED BY <1>4, <3>2
  <2>3. QED BY <2>1, <2>2
<1>5. D \in SUBSET (0 .. N) OBVIOUS
<1> HIDE DEF D
<1>6. D = 0 .. N BY <1>1, <1>3, <1>4, <1>5, Counting
<1>7. N \in D BY <1>1, <1>6
<1>8. QED BY <1>2, <1>7 DEF D

LEMMA SumRecursion ==
    ASSUME NEW T, IsFiniteSet(T), NEW q \in [T -> Int]
    PROVE  \E g : Sums(g, T, q) /\ Total(q, T) = g[T]
<1> DEFINE N == Cardinality(T)
           X == [SUBSET T -> Int]
           some(s) == CHOOSE x \in s : TRUE
           F(f) == [s \in SUBSET T |-> IF s = {} THEN 0 ELSE q[some(s)] + f[s \ {some(s)}]]
           step == [n \in 1 .. N |-> [f \in X |-> F(f)]]
           c == [s \in SUBSET T |-> 0]
<1>1. N \in Nat BY FS_CardinalityType
<1>2. \A s \in SUBSET T : s # {} => some(s) \in s /\ q[some(s)] \in Int /\ s \ {some(s)} \in SUBSET T
  OBVIOUS
<1> HIDE DEF some
<1>3. \A f \in X : F(f) \in X BY <1>2
<1>4. c \in X /\ step \in [1 .. N -> [X -> X]]
  <2>1. c \in X OBVIOUS
  <2> HIDE DEF N, X, c, F
  <2>2. QED BY <1>3, <2>1
<1> HIDE DEF step, N, X, c, F
<1>5. PICK h : Rounds(h, N, X, c, step) BY <1>1, <1>4, Recursion, Zenon
<1>6. ASSUME NEW n \in 1 .. N PROVE n - 1 \in 0 .. N /\ h[n - 1] \in X /\ h[n] = F(h[n - 1])
  <2>1. n - 1 \in 0 .. N BY <1>1
  <2>2. h[n - 1] \in X BY <1>5, <2>1 DEF Rounds
  <2>3. step[n] = [f \in X |-> F(f)] BY Zenon DEF step
  <2>4. h[n] = step[n][h[n - 1]] BY <1>5 DEF Rounds
  <2>5. QED BY <2>1, <2>2, <2>3, <2>4, Zenon
<1>7. \A f : F(f)[{}] = 0
         /\ \A s \in SUBSET T : s # {} => F(f)[s] = q[some(s)] + f[s \ {some(s)}]
  BY DEF F
\* After n rounds the sums over up to n elements stay as they are.
<1> DEFINE D == {n \in 0 .. N : \A s \in SUBSET T : Cardinality(s) <= n => F(h[n])[s] = h[n][s]}
<1>8. D = 0 .. N
  <2>1. \A s \in SUBSET T : IsFiniteSet(s) /\ Cardinality(s) \in Nat
    BY FS_Subset, FS_CardinalityType
  <2>2. 0 \in D
    <3>1. \A s \in SUBSET T : Cardinality(s) <= 0 => s = {} BY <2>1, FS_EmptySet
    <3>2. h[0][{}] = 0 BY <1>5 DEF Rounds, c
    <3>3. 0 \in 0 .. N BY <1>1
    <3>4. QED BY <1>7, <3>1, <3>2, <3>3
  <2>3. ASSUME NEW n \in 1 .. N, n - 1 \in D PROVE n \in D
    <3>1. n \in 0 .. N BY <1>1
    <3>2. SUFFICES ASSUME NEW s \in SUBSET T, Cardinality(s) <= n PROVE F(h[n])[s] = h[n][s]
      BY <3>1
    <3>3. CASE s = {} BY <1>6, <1>7, <3>3
    <3>4. CASE s # {}
      <4> DEFINE r == s \ {some(s)}
      <4>1. r \in SUBSET T /\ some(s) \in s BY <1>2, <3>4
      <4>2. Cardinality(r) = Cardinality(s) - 1 BY <2>1, <4>1, FS_RemoveElement
      <4>3. Cardinality(r) <= n - 1 BY <2>1, <3>2, <4>2
      <4>4. F(h[n - 1])[r] = h[n - 1][r] BY <2>3, <4>1, <4>3
      <4>5. h[n][r] = h[n - 1][r] BY <1>6, <4>4
      <4>6. F(h[n])[s] = q[some(s)] + h[n][r] /\ F(h[n - 1])[s] = q[some(s)] + h[n - 1][r]
        BY <1>7, <3>4
      <4>7. QED BY <1>6, <4>5, <4>6
    <3>5. QED BY <3>3, <3>4
  <2>4. D \in SUBSET (0 .. N) OBVIOUS
  <2> HIDE DEF D
  <2>5. QED BY <1>1, <2>2, <2>3, <2>4, Counting
<1>9. h[N] = F(h[N])
  <2>1. N \in D BY <1>1, <1>8
  <2>2. \A s \in SUBSET T : Cardinality(s) \in Nat /\ Cardinality(s) <= N
    BY FS_Subset, FS_CardinalityType DEF N
  <2>3. \A s \in SUBSET T : F(h[N])[s] = h[N][s] BY <2>1, <2>2
  <2>4. N \in 0 .. N /\ h[N] \in X BY <1>1, <1>5 DEF Rounds
  <2>5. F(h[N]) \in X BY <1>3, <2>4 
  <2>6. QED BY <2>3, <2>4, <2>5 DEF X
<1> DEFINE iter == CHOOSE f : f = F(f)
<1>10. iter = F(iter) BY <1>9, Zenon
<1>11. Total(q, T) = iter[T]
  BY Zenon DEF Total, MapThenSumSet, MapThenFoldSet, F, some
<1> HIDE DEF iter
<1>12. iter[{}] = 0 /\ \A s \in SUBSET T : s # {} => iter[s] = q[some(s)] + iter[s \ {some(s)}]
  BY <1>7, <1>10, Zenon
<1> DEFINE C == {s \in SUBSET T : iter[s] \in Int}
<1>13. C = SUBSET T
  <2>1. {} \in C BY <1>12
  <2>2. ASSUME NEW s \in SUBSET T, s # {}, \A x \in s : s \ {x} \in C PROVE s \in C
    <3>1. iter[s \ {some(s)}] \in Int /\ q[some(s)] \in Int BY <1>2, <2>2
    <3>2. iter[s] = q[some(s)] + iter[s \ {some(s)}] BY <1>12, <2>2, Zenon
    <3>3. iter[s] \in Int BY <3>1, <3>2
    <3>4. QED BY <2>2, <3>3
  <2>3. C \in SUBSET (SUBSET T) OBVIOUS
  <2> HIDE DEF C
  <2>4. QED BY <2>1, <2>2, <2>3, SubsetInduction
<1>14. iter \in [SUBSET T -> Int]
  <2>1. iter = [s \in SUBSET T |-> iter[s]] BY <1>10 DEF F
  <2>2. \A s \in SUBSET T : iter[s] \in Int BY <1>13
  <2>3. QED BY <2>1, <2>2
<1>15. Sums(iter, T, q)
  <2>1. \A s \in SUBSET T : s # {} => some(s) \in s BY <1>2
  <2>2. QED BY <1>12, <1>14, <2>1 DEF Sums
<1>16. QED BY <1>11, <1>15, Zenon

\* Together, sets have no more elements than their sizes add up to.
LEMMA UnionWithinSum ==
    ASSUME NEW T, IsFiniteSet(T), NEW q \in [T -> Int], NEW S, IsFiniteSet(S),
           NEW k \in [T -> SUBSET S], \A b \in T : Cardinality(k[b]) <= q[b]
    PROVE  Cardinality(UNION {k[b] : b \in T}) <= Total(q, T)
<1>1. PICK g : Sums(g, T, q) /\ Total(q, T) = g[T] BY SumRecursion
<1> DEFINE U(s) == UNION {k[b] : b \in s}
           C == {s \in SUBSET T : Cardinality(U(s)) <= g[s]}
<1>2. \A s \in SUBSET T : IsFiniteSet(U(s)) /\ Cardinality(U(s)) \in Nat
  <2>1. \A s \in SUBSET T : U(s) \in SUBSET S OBVIOUS
  <2> HIDE DEF U
  <2>2. QED BY <2>1, FS_Subset, FS_CardinalityType
<1>3. {} \in C
  <2>1. U({}) = {} OBVIOUS
  <2>2. Cardinality(U({})) = 0 BY <2>1, FS_EmptySet, Zenon
  <2> HIDE DEF U
  <2>3. QED BY <1>1, <2>2 DEF Sums
<1>4. ASSUME NEW s \in SUBSET T, s # {}, \A x \in s : s \ {x} \in C PROVE s \in C
  <2>1. PICK x \in s : g[s] = q[x] + g[s \ {x}] BY <1>1, <1>4 DEF Sums
  <2> DEFINE r == s \ {x}
  <2>2. U(s) = U(r) \cup k[x] OBVIOUS
  <2>3. Cardinality(U(r)) <= g[r] BY <1>4
  <2>4. IsFiniteSet(k[x]) /\ Cardinality(k[x]) \in Nat /\ Cardinality(k[x]) <= q[x]
    BY FS_Subset, FS_CardinalityType
  <2>5. r \in SUBSET T /\ g[r] \in Int /\ q[x] \in Int /\ g[s] = q[x] + g[r] BY <1>1, <2>1 DEF Sums
  <2> HIDE DEF U, r
  <2>6. IsFiniteSet(U(r)) /\ Cardinality(U(r)) \in Nat /\ Cardinality(U(s)) \in Nat BY <1>2, <2>5
  <2>7. /\ Cardinality(U(s)) = Cardinality(U(r)) + Cardinality(k[x]) - Cardinality(U(r) \cap k[x])
        /\ IsFiniteSet(U(r) \cap k[x])
    BY <2>2, <2>4, <2>6, FS_Union, FS_Intersection
  <2>8. Cardinality(U(r) \cap k[x]) \in Nat BY <2>7, FS_CardinalityType
  <2>9. QED BY <2>3, <2>4, <2>5, <2>6, <2>7, <2>8
<1>5. C \in SUBSET (SUBSET T) OBVIOUS
<1> HIDE DEF C
<1>6. C = SUBSET T BY <1>3, <1>4, <1>5, SubsetInduction
<1>7. T \in C BY <1>6
<1>8. QED BY <1>1, <1>7 DEF C

-----------------------------------------------------------------------------
(* Pruning                                                                   *)

\* Only Prune chooses what is pruned: no other step goes on from there.
LEMMA OnlyPrunePrunes ==
    ASSUME SnapshotsInv, [Next]_vars, Pruning
    PROVE  Prune
<1>1. /\ ProcTyped /\ Worker \in Processes /\ proc["api"] \in Processes
      /\ proc \in [Procs -> Processes] /\ "api" \in Procs /\ "worker" \in Procs
  BY WorkerKnows, Typed
<1>2. Worker.pc = "prune" /\ Worker'.pc \in {"finish", "forget"} /\ proc["worker"].pc = "prune"
  BY DEF Pruning, At, Worker
\* What leaves it there, or idle, is none of it.
<1>3. SUFFICES ASSUME ~Prune PROVE Worker'.pc \in {"prune", "idle"}
  BY <1>2
<1>4. CASE ApiStep
  <2>1. CASE SetQuotas \/ SetPeriod \/ StartBackup \/ CheckInit
    BY <1>2, <2>1 DEF SetQuotas, SetPeriod, StartBackup, CheckInit, Worker
  <2>2. CASE ApiReload \/ ApiForget \/ Initialize \/ InitRepo
    <3>1. proc' = proc \/ \E pc \in {"idle", "list", "init"} : Goto("api", pc)
      BY <2>2 DEF ApiReload, ApiForget, Initialize, InitRepo
    <3>2. Worker' = Worker BY <1>1, <3>1, GotoEffect DEF Worker
    <3>3. QED BY <1>2, <3>2
  <2>3. CASE Remove
    <3>1. proc' = [proc EXCEPT !["worker"].mixed = @ \/ Listed("worker")] BY <2>3 DEF Remove
    <3>2. QED BY <1>1, <1>2, <3>1 DEF Worker, Processes
  <2>4. CASE List("api") \/ Filled("api")
    <3>1. proc'["worker"] = proc["worker"] BY <1>1, <2>4 DEF List, Filled
    <3>2. QED BY <1>2, <3>1 DEF Worker
  <2>5. CASE Clear("api") \/ Fill("api")
    <3>1. proc'["worker"] = Mixing("api")["worker"]
      BY <1>1, <2>5, MixingTyped DEF Clear, Fill
    <3>2. Mixing("api")["worker"].pc = proc["worker"].pc
      <4>1. Mixing("api")["worker"]
              = [proc["worker"] EXCEPT !.mixed =
                   @ \/ (Listed("worker") /\ proc["worker"].seen # proc["api"].seen)]
        BY <1>1, MixingTyped, TheOther
      <4>2. QED BY <1>1, <4>1 DEF Processes
    <3>3. QED BY <1>2, <3>1, <3>2 DEF Worker
  <2>6. QED BY <1>4, <2>1, <2>2, <2>3, <2>4, <2>5 DEF ApiStep
<1>5. ~(WorkerStep \/ PeriodicReload \/ Tick)
  <2>1. ~(TakeBackup \/ TakePrune \/ Autobackup \/ RunJob \/ Upload \/ StoreTime \/ UploadFails)
    BY <1>2 DEF TakeBackup, TakePrune, Autobackup, RunJob, Upload, StoreTime, UploadFails, At
  <2>2. ~(WorkerForget \/ WorkerForgetError \/ FinishBackup \/ FinishPrune)
    BY <1>2 DEF WorkerForget, WorkerForgetError, FinishBackup, FinishPrune, At
  <2>3. ~(List("worker") \/ Clear("worker") \/ Fill("worker") \/ Filled("worker"))
    BY <1>2 DEF List, Clear, Fill, Filled
  <2>4. ~(PeriodicReload \/ Tick) BY <1>2 DEF PeriodicReload, Tick, At
  <2>5. QED BY <1>3, <2>1, <2>2, <2>3, <2>4 DEF WorkerStep
<1>6. CASE ListFails
  <2>1. proc' = [proc EXCEPT !["api"] = Rest] BY <1>2, <1>6 DEF ListFails, At
  <2>2. Worker' = Worker BY <1>1, <2>1 DEF Worker
  <2>3. QED BY <1>2, <2>2
<1>7. CASE Crash
  <2>1. proc' = [proc EXCEPT !["worker"] = Rest, !["api"].mixed = @ \/ Listed("api")]
    BY <1>7 DEF Crash
  <2>2. Worker' = Rest BY <1>1, <2>1 DEF Worker
  <2>3. QED BY <2>2, RestFields
<1>8. CASE UNCHANGED vars BY <1>2, <1>8 DEF vars, Worker
<1>9. QED BY <1>4, <1>5, <1>6, <1>7, <1>8 DEF Next

\* What Prune marks for removal.
LEMMA PruneEffect ==
    ASSUME SnapshotsInv, Prune
    PROVE  /\ Worker'.doomed = Read \ Kept(quotas, Read)
           /\ Dated(Read) /\ Dated(Has)
           /\ quotas \in [Buckets -> Int] /\ \A b \in Buckets : quotas[b] >= -1
<1> DEFINE doomed == Read \ Kept(quotas, Read)
           r == [Worker EXCEPT !.doomed = doomed,
                               !.pc = IF doomed = {} THEN "finish" ELSE "forget"]
<1>1. StoresTyped /\ ProcTyped /\ Worker \in Processes BY WorkerKnows
<1>2. Turn(r) BY DEF Prune, Read
<1>3. doomed \in SUBSET Snaps BY <1>1 DEF StoresTyped, Read, AutoSnaps
<1> HIDE DEF doomed
<1>4. r \in Processes /\ r.doomed = doomed BY <1>1, <1>3 DEF Processes
<1> HIDE DEF r
<1>5. Worker' = r BY <1>1, <1>2, <1>4, TurnEffect
<1>6. Listing(provider) \in SUBSET Snaps /\ cache \in SUBSET Snaps
  BY <1>1, ListingTyped DEF StoresTyped
<1>7. Dated(Read) /\ Dated(Has) BY <1>6, AutoSnapsDated DEF Read, Has
<1>8. QED BY <1>1, <1>4, <1>5, <1>7 DEF StoresTyped, doomed

\* Nothing of what is promised is marked.
LEMMA PromisesKept ==
    ASSUME SnapshotsInv, Prune, Read \subseteq Has
    PROVE  Worker'.doomed \cap Promised(quotas, Has) = {}
<1>1. SUFFICES ASSUME NEW x \in Read, x \notin Kept(quotas, Read), x \in Promised(quotas, Has)
               PROVE  FALSE
  BY PruneEffect
<1>2. PICK b \in Buckets : NoGaps(b) /\ x \in PromisedBy(b, quotas[b], Has)
  BY <1>1 DEF Promised
<1>3. Dated(Read) /\ Dated(Has) /\ quotas[b] \in Int /\ quotas[b] >= -1 BY PruneEffect
<1>4. x \in PromisedBy(b, quotas[b], Read) BY <1>1, <1>2, <1>3, PartKeepsPromises
<1>5. x \in Pass(b, quotas[b], Read).kept BY <1>2, <1>3, <1>4, PassKeepsPromises
<1>6. QED BY <1>1, <1>5 DEF Kept

\* What is not marked is within the quotas.
LEMMA QuotasKept ==
    ASSUME SnapshotsInv, Prune, Read = Has, \A b \in Buckets : quotas[b] # -1
    PROVE  Cardinality(Has \ Worker'.doomed) <= MapThenSumSet(LAMBDA b : quotas[b], Buckets)
<1> DEFINE k == [b \in Buckets |-> Pass(b, quotas[b], Has).kept]
<1>1. /\ Dated(Has) /\ quotas \in [Buckets -> Int] /\ \A b \in Buckets : quotas[b] >= -1
      /\ Worker'.doomed = Has \ Kept(quotas, Has)
  BY PruneEffect
<1>2. IsFiniteSet(Has) /\ IsFiniteSet(Buckets)
  BY <1>1, DatedFinite, FS_Singleton, FS_Union, SnapshotsAssumption DEF Buckets
<1>3. \A b \in Buckets : /\ Pass(b, quotas[b], Has).kept \in SUBSET Has
                         /\ Cardinality(Pass(b, quotas[b], Has).kept) <= quotas[b]
  BY <1>1, PassWithinQuota
<1>4. k \in [Buckets -> SUBSET Has] /\ \A b \in Buckets : Cardinality(k[b]) <= quotas[b] BY <1>3
<1>5. Has \ Worker'.doomed = UNION {k[b] : b \in Buckets}
  <2>1. Kept(quotas, Has) = UNION {k[b] : b \in Buckets} BY DEF Kept
  <2>2. Kept(quotas, Has) \in SUBSET Has BY <1>3 DEF Kept
  <2>3. QED BY <1>1, <2>1, <2>2
<1> HIDE DEF k
<1>6. Cardinality(UNION {k[b] : b \in Buckets}) <= Total(quotas, Buckets)
  BY <1>1, <1>2, <1>4, UnionWithinSum
<1>7. QED BY <1>5, <1>6, Zenon DEF Total

\* For any calendar, quotas and snapshots: pruning takes none of the newest snapshots of
\* the newest periods that the quotas count, even while the cache shows only a part of
\* the repository, and leaves no more than they count when it shows all of it
\* (_prune_snaps_with_quotas, backup/__init__.py:324-384).
THEOREM PruneFollowsQuotasHolds == Spec => PruneFollowsQuotas
<1>1. SnapshotsInv /\ [Next]_vars =>
        [Pruning /\ Read \subseteq Has =>
           /\ Worker'.doomed \cap Promised(quotas, Has) = {}
           /\ Read = Has /\ (\A b \in Buckets : quotas[b] # -1) =>
                Cardinality(Has \ Worker'.doomed) <= MapThenSumSet(LAMBDA b : quotas[b], Buckets)]_vars
  BY OnlyPrunePrunes, PromisesKept, QuotasKept
<1>2. QED BY <1>1, SnapshotsInvariance, PTL DEF Spec, PruneFollowsQuotas

=============================================================================
