------------------------- MODULE ArtifactPollingProofs -------------------------
(***************************************************************************)
(* Safety of shared polling, and that its waiters are answered, for any    *)
(* number of waiters, keys and polls.                                      *)
(***************************************************************************)
EXTENDS ArtifactPolling, TLAPS

Phases == {"accepting", "draining", "drainHook", "idleWait", "closing", "closeHook", "released"}

TaskStates == {"none", "running", "cancelling", "returned", "raised", "cancelled"}

FutureStates == {"none", "pending", "returned", "raised", "cancelled"}

Labels == {"idle", "spawning", "reaping", "waiting", "unwinding", "joining", "ended"}

Types == /\ phase \in Phases
         /\ polls \in 0 .. MaxPolls
         /\ pending \in [Keys -> 0 .. MaxPolls]
         /\ key \in [Polls -> Keys]
         /\ task \in [Polls -> TaskStates]
         /\ attached \in [Polls -> BOOLEAN]
         /\ future \in [Polls -> FutureStates]
         /\ pc \in [Waiters -> Labels]
         /\ on \in [Waiters -> 0 .. MaxPolls]

(* The registry holds the pending futures, each under its own key.         *)
Entries == /\ \A n \in Polls : future[n] = "pending" <=> pending[key[n]] = n
           /\ \A k \in Keys : pending[k] # 0 => key[pending[k]] = k
           /\ \A n \in Polls : n > polls => future[n] = "none"

(* A poll task runs only under a pending future, and once it is attached   *)
(* nobody cancels it in an open client.                                    *)
Loop(n) == /\ future[n] = "none" => task[n] = "none" /\ ~attached[n]
           /\ Alive(n) => future[n] = "pending"
           /\ attached[n] => task[n] # "none"
           /\ attached[n] /\ (task[n] \in {"cancelling", "cancelled"} \/ future[n] = "cancelled")
                => phase # "accepting"

(* Until its task is attached, a pending future has one leader, and the    *)
(* leader knows what has become of the task.                               *)
Leads(w) == /\ on[w] \in Polls
            /\ future[on[w]] = "pending" /\ ~attached[on[w]]
            /\ pc[w] = "spawning" => task[on[w]] \in {"none", "running"}
            /\ pc[w] = "reaping" => task[on[w]] \in {"cancelling", "cancelled"}

Led == /\ \A w \in Reserving : Leads(w)
       /\ \A v, w \in Reserving : on[v] = on[w] => v = w
       /\ \A n \in Polls : future[n] = "pending" /\ ~attached[n] => \E w \in Reserving : on[w] = n

(* Behind the fence the hook has seen all there is.                        *)
Seen == phase = "closeHook" =>
    /\ \A w \in Reserving : pc[w] = "reaping" /\ Waiter(w) \in awaited
    /\ \A n \in Polls : Alive(n) /\ attached[n] => Poll(n) \in awaited

PInv == /\ Types
        /\ Entries
        /\ \A n \in Polls : Loop(n)
        /\ Led
        /\ Seen
        /\ NothingPollsAfterClose

-----------------------------------------------------------------------------
LEMMA InvInit == Init => PInv
<1> SUFFICES ASSUME Init PROVE PInv
  OBVIOUS
<1> USE PollingAssumption DEF Init, Polls
<1>1. Types
  BY DEF Types, Phases, TaskStates, FutureStates, Labels
<1>2. Entries
  BY <1>1 DEF Entries, Types
<1>3. \A n \in Polls : Loop(n)
  BY DEF Loop, Alive
<1>4. Led
  BY DEF Led, Reserving
<1>5. Seen /\ NothingPollsAfterClose
  BY DEF Seen, NothingPollsAfterClose
<1> QED BY <1>1, <1>2, <1>3, <1>4, <1>5 DEF PInv

(* A step that leaves the registry, the polls and their leaders alone.     *)
LEMMA MoveKeeps ==
    ASSUME PInv, UNCHANGED <<pending, pollVars>>, Reserving' = Reserving,
           \A w \in Reserving : pc'[w] = pc[w] /\ on'[w] = on[w],
           phase' \in Phases, phase' = "accepting" => phase = "accepting",
           phase' = "closeHook" => phase = "closeHook" /\ awaited' = awaited,
           phase' = "released" => phase = "released",
           pc' \in [Waiters -> Labels], on' \in [Waiters -> 0 .. MaxPolls]
    PROVE  PInv'
<1>1. UNCHANGED <<pending, polls, key, task, attached, future>>
  BY DEF pollVars
<1>2. Types'
  BY <1>1 DEF PInv, Types
<1>3. Entries'
  BY <1>1 DEF PInv, Entries
<1>4. \A n \in Polls : Alive(n)' <=> Alive(n)
  BY <1>1 DEF Alive
<1>5. (\A n \in Polls : Loop(n))'
  BY <1>1, <1>4 DEF PInv, Loop
<1>6. Led'
  <2>1. ASSUME NEW w \in Reserving PROVE Leads(w)'
    BY <1>1, <2>1 DEF PInv, Led, Leads
  <2> QED BY <1>1, <2>1 DEF PInv, Led
<1>7. Seen'
  BY <1>1, <1>4 DEF PInv, Seen
<1>8. NothingPollsAfterClose'
  BY <1>1, <1>4 DEF PInv, NothingPollsAfterClose
<1> QED BY <1>2, <1>3, <1>5, <1>6, <1>7, <1>8 DEF PInv

(* A task goes from one await to another and leads no poll in either.      *)
LEMMA WaiterMoves ==
    ASSUME PInv, NEW w \in Waiters, NEW label \in Labels \ {"spawning", "reaping"},
           pc[w] \notin {"spawning", "reaping"}, Goto(w, label),
           UNCHANGED <<pending, pollVars, awaited>>,
           UNCHANGED on \/ \E n \in 0 .. MaxPolls : on' = [on EXCEPT ![w] = n],
           phase' = phase \/ (phase = "accepting" /\ phase' \in {"draining", "closing"})
    PROVE  PInv'
<1>1. Reserving' = Reserving
  BY DEF PInv, Types, Goto, Reserving
<1>2. \A v \in Reserving : pc'[v] = pc[v] /\ on'[v] = on[v]
  BY DEF PInv, Types, Goto, Reserving
<1>3. pc' \in [Waiters -> Labels] /\ on' \in [Waiters -> 0 .. MaxPolls]
  BY DEF PInv, Types, Goto
<1>4. phase' \in Phases
  BY DEF PInv, Types, Phases
<1> QED BY <1>1, <1>2, <1>3, <1>4, MoveKeeps

(* What is known of a waiter that leads.                                   *)
LEMMA Leader ==
    ASSUME PInv, NEW w \in Waiters, pc[w] \in {"spawning", "reaping"}
    PROVE  /\ w \in Reserving /\ Leads(w) /\ on[w] \in Polls
           /\ key[on[w]] \in Keys /\ pending[key[on[w]]] = on[w]
           /\ \A v \in Reserving : on[v] = on[w] => v = w
<1>1. w \in Reserving
  BY DEF Reserving
<1>2. Leads(w) /\ on[w] \in Polls
  BY <1>1 DEF PInv, Led, Leads
<1>3. \A v \in Reserving : on[v] = on[w] => v = w
  BY <1>1 DEF PInv, Led
<1>4. key[on[w]] \in Keys /\ pending[key[on[w]]] = on[w]
  BY <1>2 DEF PInv, Types, Entries, Leads
<1> QED BY <1>1, <1>2, <1>3, <1>4

-----------------------------------------------------------------------------
(* The leader's path.                                                      *)
LEMMA LeadKeeps ==
    ASSUME PInv, NEW w \in Waiters, NEW k \in Keys, Lead(w, k)
    PROVE  PInv'
<1> DEFINE n == polls + 1
<1>1. /\ polls' = n /\ pending' = [pending EXCEPT ![k] = n] /\ key' = [key EXCEPT ![n] = k]
      /\ future' = [future EXCEPT ![n] = "pending"] /\ on' = [on EXCEPT ![w] = n]
      /\ pc' = [pc EXCEPT ![w] = "spawning"] /\ UNCHANGED <<phase, awaited, task, attached>>
      /\ pending[k] = 0 /\ pc[w] = "idle" /\ ~Fenced
  BY DEF Lead, CanWait, Goto, closeVars, Fenced
<1>2. n \in Polls /\ n # 0 /\ polls \in Nat /\ MaxPolls \in Nat
  BY PollingAssumption DEF PInv, Types, Lead, Polls
<1>3. future[n] = "none" /\ task[n] = "none" /\ ~attached[n]
  BY <1>2 DEF PInv, Entries, Loop
<1> HIDE DEF n
<1>4. Types'
  <2>1. n \in 0 .. MaxPolls
    BY <1>2 DEF Polls
  <2> QED BY <1>1, <1>2, <2>1 DEF PInv, Types, FutureStates, Labels
<1>5. Entries'
  <2>1. \A m \in Polls : m # n => key'[m] = key[m] /\ future'[m] = future[m]
    BY <1>1 DEF PInv, Types
  <2>2. key'[n] = k /\ future'[n] = "pending"
    BY <1>1, <1>2 DEF PInv, Types
  <2>3. \A h \in Keys : pending'[h] = IF h = k THEN n ELSE pending[h]
    BY <1>1 DEF PInv, Types
  <2>4. \A m \in Polls : key[m] \in Keys /\ m # 0
    BY <1>2 DEF PInv, Types, Polls
  <2>5. \A h \in Keys : pending[h] # 0 => pending[h] \in Polls /\ pending[h] # n
    <3>1. ASSUME NEW h \in Keys, pending[h] # 0 PROVE pending[h] \in Polls
      BY <1>2, <3>1 DEF PInv, Types, Polls
    <3>2. ASSUME NEW h \in Keys, pending[h] # 0, pending[h] = n PROVE FALSE
      BY <1>3, <3>1, <3>2 DEF PInv, Entries
    <3> QED BY <3>1, <3>2
  <2>6. \A m \in Polls : future'[m] = "pending" <=> pending'[key'[m]] = m
    BY <1>1, <2>1, <2>2, <2>3, <2>4, <2>5 DEF PInv, Entries
  <2>7. \A h \in Keys : pending'[h] # 0 => key'[pending'[h]] = h
    BY <2>1, <2>2, <2>3, <2>5 DEF PInv, Entries
  <2>8. \A m \in Polls : m > polls' => m > polls /\ m # n
    BY <1>1, <1>2 DEF Polls, n
  <2> QED BY <2>1, <2>6, <2>7, <2>8 DEF PInv, Entries
<1>6. ASSUME NEW m \in Polls PROVE Loop(m)'
  BY <1>1, <1>3, <1>2 DEF PInv, Types, Loop, Alive
<1>7. Reserving' = Reserving \cup {w} /\ w \notin Reserving
  BY <1>1 DEF PInv, Types, Reserving
<1>8. Led'
  <2>1. \A v \in Reserving : on[v] # n
    BY <1>3 DEF PInv, Led, Leads
  <2>2. ASSUME NEW v \in Reserving PROVE v \in Waiters /\ v # w
    BY <1>7 DEF Reserving
  <2>3. \A v \in Reserving : on'[v] = on[v] /\ pc'[v] = pc[v]
    BY <1>1, <2>2 DEF PInv, Types
  <2>4. on'[w] = n /\ pc'[w] = "spawning"
    BY <1>1 DEF PInv, Types
  <2>5. \A m \in Polls : future'[m] = IF m = n THEN "pending" ELSE future[m]
    BY <1>1 DEF PInv, Types
  <2>6. ASSUME NEW v \in Reserving PROVE Leads(v)'
    BY <1>1, <2>1, <2>3, <2>5 DEF PInv, Led, Leads
  <2>7. Leads(w)'
    BY <1>1, <1>2, <1>3, <2>4, <2>5 DEF Leads
  <2>8. \A u, v \in Reserving' : on'[u] = on'[v] => u = v
    BY <1>7, <2>1, <2>3, <2>4 DEF PInv, Led
  <2>9. \A m \in Polls : future'[m] = "pending" /\ ~attached'[m] => \E v \in Reserving' : on'[v] = m
    BY <1>1, <1>7, <2>3, <2>4, <2>5 DEF PInv, Led
  <2> QED BY <1>7, <2>6, <2>7, <2>8, <2>9 DEF Led
<1>9. Seen' /\ NothingPollsAfterClose'
  BY <1>1 DEF Seen, NothingPollsAfterClose, Fenced
<1> QED BY <1>4, <1>5, <1>6, <1>8, <1>9 DEF PInv

(* A poll that is not resolved changes, with or without its leader.        *)
LEMMA PollChanges ==
    ASSUME PInv, NEW n \in Polls, NEW x \in TaskStates, NEW b \in BOOLEAN,
           future[n] = "pending",
           task' = [task EXCEPT ![n] = x], attached' = [attached EXCEPT ![n] = b],
           UNCHANGED <<phase, awaited, pending, polls, key, future, on>>,
           pc' \in [Waiters -> Labels], Reserving' \subseteq Reserving,
           \A w \in Waiters : on[w] # n => pc'[w] = pc[w],
           \A w \in Reserving : on[w] = n => (w \in Reserving' /\ Leads(w)') \/ (b /\ w \notin Reserving'),
           b => x # "none",
           ~b => ~attached[n],
           b /\ x \in {"cancelling", "cancelled"} => phase # "accepting",
           phase = "closeHook" =>
               /\ \A w \in Reserving' : on[w] = n => pc'[w] = "reaping"
               /\ x \in {"running", "cancelling"} => Alive(n) /\ (b => attached[n])
    PROVE  PInv'
<1> USE DEF Loop
<1>1. Types'
  BY DEF PInv, Types
<1>2. Entries'
  BY DEF PInv, Entries
<1>3. \A m \in Polls : /\ task'[m] = IF m = n THEN x ELSE task[m]
                       /\ attached'[m] = IF m = n THEN b ELSE attached[m]
  BY DEF PInv, Types
<1>4. ASSUME NEW m \in Polls PROVE Loop(m)'
  BY <1>3 DEF PInv, Alive
<1>5. Led'
  <2>1. ASSUME NEW w \in Reserving' PROVE Leads(w)'
    <3>1. w \in Reserving /\ w \in Waiters /\ Leads(w)
      BY <2>1 DEF PInv, Led, Reserving
    <3>2. CASE on[w] = n
      BY <2>1, <3>1, <3>2
    <3>3. CASE on[w] # n
      BY <1>3, <3>1, <3>3 DEF Leads
    <3> QED BY <3>2, <3>3
  <2>2. \A v, w \in Reserving' : on'[v] = on'[w] => v = w
    BY DEF PInv, Led
  <2>3. ASSUME NEW m \in Polls, future[m] = "pending", ~attached'[m]
        PROVE  \E w \in Reserving' : on'[w] = m
    <3>1. ~attached[m]
      BY <1>3, <2>3
    <3>2. PICK w \in Reserving : on[w] = m
      BY <2>3, <3>1 DEF PInv, Led
    <3>3. w \in Reserving'
      BY <1>3, <2>3, <3>2 DEF Reserving
    <3> QED BY <3>2, <3>3
  <2> QED BY <2>1, <2>2, <2>3 DEF Led
<1>6. Seen'
  BY <1>3 DEF PInv, Seen, Alive, Reserving
<1>7. NothingPollsAfterClose'
  <2>1. key[n] \in Keys /\ pending[key[n]] = n /\ n # 0
    BY DEF PInv, Types, Entries, Polls
  <2> QED BY <2>1 DEF PInv, NothingPollsAfterClose
<1> QED BY <1>1, <1>2, <1>4, <1>5, <1>6, <1>7 DEF PInv

(* A future is resolved and leaves the registry.                           *)
LEMMA FutureEnds ==
    ASSUME PInv, NEW n \in Polls, NEW x \in {"returned", "raised", "cancelled"},
           future[n] = "pending", ~Alive(n),
           x = "cancelled" /\ attached[n] => phase # "accepting",
           future' = [future EXCEPT ![n] = x], pending' = [pending EXCEPT ![key[n]] = 0],
           UNCHANGED <<phase, awaited, polls, key, task, attached, on>>,
           pc' \in [Waiters -> Labels],
           Reserving' = {w \in Reserving : on[w] # n},
           \A w \in Waiters : on[w] # n => pc'[w] = pc[w]
    PROVE  PInv'
<1>1. /\ \A m \in Polls : future'[m] = IF m = n THEN x ELSE future[m]
      /\ \A k \in Keys : pending'[k] = IF k = key[n] THEN 0 ELSE pending[k]
      /\ \A m \in Polls : key[m] \in Keys
  BY DEF PInv, Types
<1>2. Types'
  BY PollingAssumption DEF PInv, Types, FutureStates
<1>3. Entries'
  <2>1. pending[key[n]] = n
    BY DEF PInv, Entries
  <2>2. \A m \in Polls : m # 0
    BY DEF Polls
  <2>3. \A m \in Polls : future'[m] = "pending" <=> pending'[key'[m]] = m
    BY <1>1, <2>1, <2>2 DEF PInv, Entries
  <2>4. \A m \in Polls : m > polls' => future'[m] = "none"
    BY <1>1 DEF PInv, Entries
  <2> QED BY <1>1, <2>3, <2>4 DEF PInv, Entries
<1>4. ASSUME NEW m \in Polls PROVE Loop(m)'
  BY <1>1 DEF PInv, Loop, Alive
<1>5. Led'
  <2>1. ASSUME NEW w \in Reserving' PROVE Leads(w)'
    <3>1. w \in Waiters /\ Leads(w) /\ on[w] # n
      BY <2>1 DEF PInv, Led, Reserving
    <3> QED BY <1>1, <3>1 DEF Leads
  <2>2. \A v, w \in Reserving' : on'[v] = on'[w] => v = w
    BY DEF PInv, Led
  <2>3. \A m \in Polls : future'[m] = "pending" /\ ~attached'[m] => \E w \in Reserving' : on'[w] = m
    BY <1>1 DEF PInv, Led
  <2> QED BY <2>1, <2>2, <2>3 DEF Led
<1>6. Seen'
  BY DEF PInv, Seen, Alive, Reserving
<1>7. NothingPollsAfterClose'
  BY <1>1 DEF PInv, NothingPollsAfterClose, Alive
<1> QED BY <1>2, <1>3, <1>4, <1>5, <1>6, <1>7 DEF PInv

-----------------------------------------------------------------------------
(* The steps of a leader and of a poll.                                    *)
LEMMA SpawnKeeps ==
    ASSUME PInv, NEW w \in Waiters, Spawn(w)
    PROVE  PInv'
<1>1. w \in Reserving /\ Leads(w) /\ on[w] \in Polls /\ pc[w] = "spawning"
  BY Leader DEF Spawn
<1>2. /\ task' = [task EXCEPT ![on[w]] = "running"] /\ pc' = pc /\ on' = on
      /\ UNCHANGED <<phase, awaited, pending, polls, key, attached, future>>
      /\ phase # "closeHook"
  BY DEF Spawn, closeVars, waiterVars, Fenced
<1>3. Reserving' = Reserving /\ pc' \in [Waiters -> Labels]
  BY <1>2 DEF Reserving, PInv, Types
<1>4. attached' = [attached EXCEPT ![on[w]] = FALSE] /\ ~attached[on[w]]
      /\ future[on[w]] = "pending"
  BY <1>1, <1>2 DEF PInv, Types, Leads
<1>5. \A v \in Reserving : on[v] = on[w] => v \in Reserving' /\ Leads(v)'
  <2>1. Leads(w)'
    BY <1>1, <1>2 DEF Leads, PInv, Types
  <2> QED BY <1>1, <1>3, <2>1, Leader
<1> QED BY <1>1, <1>2, <1>3, <1>4, <1>5, PollChanges DEF TaskStates

LEMMA AttachKeeps ==
    ASSUME PInv, NEW w \in Waiters, Attach(w)
    PROVE  PInv'
<1>1. w \in Reserving /\ Leads(w) /\ on[w] \in Polls /\ pc[w] = "spawning"
  BY Leader DEF Attach
<1>2. /\ attached' = [attached EXCEPT ![on[w]] = TRUE] /\ pc' = [pc EXCEPT ![w] = "waiting"]
      /\ UNCHANGED <<phase, awaited, pending, polls, key, task, future, on>>
      /\ phase # "closeHook"
  BY <1>1 DEF Attach, closeVars, Goto, PInv, Seen
<1>3. task[on[w]] = "running" /\ future[on[w]] = "pending"
  BY <1>1 DEF Attach, Leads
<1>4. task' = [task EXCEPT ![on[w]] = "running"]
  BY <1>2, <1>3 DEF PInv, Types
<1>5. Reserving' = Reserving \ {w} /\ pc' \in [Waiters -> Labels]
  BY <1>2 DEF Reserving, PInv, Types, Labels
<1>6. \A v \in Waiters : on[v] # on[w] => pc'[v] = pc[v]
  BY <1>2 DEF PInv, Types
<1>7. \A v \in Reserving : on[v] = on[w] => v \notin Reserving'
  BY <1>1, <1>5, Leader
<1> QED BY <1>1, <1>2, <1>3, <1>4, <1>5, <1>6, <1>7, PollChanges DEF TaskStates

(* The spawned task is cancelled with its leader.                          *)
LEMMA ReapKeeps ==
    ASSUME PInv, NEW w \in Waiters, CancelSpawning(w), task[on[w]] # "none"
    PROVE  PInv'
<1>1. w \in Reserving /\ Leads(w) /\ on[w] \in Polls /\ pc[w] = "spawning"
  BY Leader DEF CancelSpawning
<1>2. task[on[w]] = "running" /\ future[on[w]] = "pending" /\ ~attached[on[w]]
  BY <1>1 DEF Leads
<1>3. /\ task' = [task EXCEPT ![on[w]] = "cancelling"] /\ pc' = [pc EXCEPT ![w] = "reaping"]
      /\ UNCHANGED <<phase, awaited, pending, polls, key, attached, future, on>>
  BY <1>2 DEF CancelSpawning, closeVars, Goto
<1>4. attached' = [attached EXCEPT ![on[w]] = FALSE] /\ phase # "closeHook"
  BY <1>1, <1>2, <1>3 DEF PInv, Types, Seen
<1>5. Reserving' = Reserving /\ pc' \in [Waiters -> Labels]
  BY <1>1, <1>3 DEF Reserving, PInv, Types, Labels
<1>6. \A v \in Waiters : on[v] # on[w] => pc'[v] = pc[v]
  BY <1>3 DEF PInv, Types
<1>7. \A v \in Reserving : on[v] = on[w] => v \in Reserving' /\ Leads(v)'
  <2>1. Leads(w)'
    BY <1>1, <1>2, <1>3 DEF Leads, PInv, Types
  <2> QED BY <1>1, <1>5, <2>1, Leader
<1> QED BY <1>1, <1>2, <1>3, <1>4, <1>5, <1>6, <1>7, PollChanges DEF TaskStates

LEMMA PollEndsKeeps ==
    ASSUME PInv, NEW n \in Polls, PollEnds(n)
    PROVE  PInv'
<1>1. PICK x \in {"returned", "raised", "cancelled"} :
        /\ task' = [task EXCEPT ![n] = x]
        /\ x = "cancelled" => task[n] = "cancelling"
        /\ x # "cancelled" => task[n] = "running" /\ attached[n]
  BY DEF PollEnds
<1>2. UNCHANGED <<phase, awaited, pending, polls, key, attached, future, pc, on>> /\ Alive(n)
  BY DEF PollEnds, closeVars, waiterVars, Alive
<1>3. future[n] = "pending" /\ Loop(n)
  BY <1>2 DEF PInv, Loop
<1>4. attached' = [attached EXCEPT ![n] = attached[n]] /\ attached[n] \in BOOLEAN
      /\ pc' \in [Waiters -> Labels] /\ Reserving' = Reserving
  BY <1>2 DEF PInv, Types, Reserving
<1>5. ASSUME NEW v \in Reserving, on[v] = n PROVE v \in Reserving' /\ Leads(v)'
  <2>1. Leads(v) /\ ~attached[n] /\ x = "cancelled" /\ task[n] = "cancelling"
    BY <1>1, <1>5 DEF PInv, Led, Leads
  <2>2. pc[v] = "reaping"
    BY <1>5, <2>1 DEF Leads, Reserving
  <2>3. Leads(v)'
    BY <1>1, <1>2, <1>5, <2>1, <2>2 DEF Leads, PInv, Types
  <2> QED BY <1>4, <2>3
<1>6. attached[n] /\ x = "cancelled" => phase # "accepting"
  BY <1>1, <1>3 DEF Loop
<1>7. phase = "closeHook" => \A v \in Reserving' : on[v] = n => pc'[v] = "reaping"
  BY <1>2, <1>4 DEF PInv, Seen
<1> QED BY <1>1, <1>2, <1>3, <1>4, <1>5, <1>6, <1>7, PollChanges DEF TaskStates

LEMMA ResolveKeeps ==
    ASSUME PInv, NEW n \in Polls, Resolve(n)
    PROVE  PInv'
<1>1. /\ UNCHANGED <<phase, awaited, polls, key, task, attached, pc, on>>
      /\ pending' = [pending EXCEPT ![key[n]] = 0] /\ future' = [future EXCEPT ![n] = task[n]]
      /\ attached[n] /\ future[n] = "pending" /\ task[n] \in {"returned", "raised", "cancelled"}
  BY DEF Resolve, closeVars, waiterVars, TaskDone
<1>2. ~Alive(n) /\ (task[n] = "cancelled" => phase # "accepting")
  BY <1>1 DEF Alive, PInv, Loop
<1>3. pc' \in [Waiters -> Labels] /\ Reserving' = Reserving
  BY <1>1 DEF PInv, Types, Reserving
<1>4. \A w \in Reserving : on[w] # n
  BY <1>1 DEF PInv, Led, Leads
<1> QED BY <1>1, <1>2, <1>3, <1>4, FutureEnds

(* The leader gives up: no task was spawned, or it has ended.              *)
LEMMA GiveUpKeeps ==
    ASSUME PInv, NEW w \in Waiters, pc[w] \in {"spawning", "reaping"},
           task[on[w]] = "none" \/ TaskDone(on[w]), Unreserve(on[w]),
           NEW label \in {"idle", "unwinding"}, Goto(w, label),
           UNCHANGED <<phase, awaited, polls, key, task, attached, on>>
    PROVE  PInv'
<1>1. w \in Reserving /\ Leads(w) /\ on[w] \in Polls /\ future[on[w]] = "pending"
      /\ ~attached[on[w]] /\ \A v \in Reserving : on[v] = on[w] => v = w
  BY Leader DEF Leads
<1>2. pc' = [pc EXCEPT ![w] = label] /\ ~Alive(on[w])
  BY DEF Goto, Alive, TaskDone
<1>3. pc' \in [Waiters -> Labels] /\ Reserving' = Reserving \ {w}
      /\ \A v \in Waiters : v # w => pc'[v] = pc[v]
  BY <1>2 DEF PInv, Types, Labels, Reserving
<1>4. Reserving' = {v \in Reserving : on[v] # on[w]}
  BY <1>1, <1>3
<1>5. /\ future' = [future EXCEPT ![on[w]] = "cancelled"]
      /\ pending' = [pending EXCEPT ![key[on[w]]] = 0]
  BY DEF Unreserve
<1> QED BY <1>1, <1>2, <1>3, <1>4, <1>5, FutureEnds

-----------------------------------------------------------------------------
(* The drain hook.                                                         *)
LEMMA ActiveNames ==
    /\ \A n \in Polls : Poll(n) \in ActiveTasks <=> n \in Leaders
    /\ \A w \in Waiters : Waiter(w) \in ActiveTasks <=> w \in Reserving
<1>1. \A m, n : Poll(n) = Poll(m) => n = m
  BY DEF Poll
<1>2. \A v, w : Waiter(w) = Waiter(v) => w = v
  BY DEF Waiter
<1>3. \A m, v : Poll(m) # Waiter(v)
  BY DEF Poll, Waiter
<1> QED BY <1>1, <1>2, <1>3 DEF ActiveTasks

LEMMA HookKeeps ==
    ASSUME PInv, DrainHook
    PROVE  PInv'
<1> DEFINE Unborn == {w \in Waiters : pc[w] = "spawning" /\ task[on[w]] = "none"}
           Born == {w \in Waiters : pc[w] = "spawning" /\ task[on[w]] # "none"}
<1>1. \/ phase = "draining" /\ phase' = "drainHook"
      \/ phase = "closing" /\ phase' = "closeHook"
  BY DEF DrainHook
<1>2. UNCHANGED <<polls, key, attached, on>> /\ CancelAll(ActiveTasks) /\ awaited' = ActiveTasks
  BY DEF DrainHook, CancelAll
<1>3. /\ {n \in Polls : Poll(n) \in ActiveTasks} = Leaders
      /\ {w \in Waiters : Waiter(w) \in ActiveTasks /\ pc[w] = "spawning"} = Unborn \cup Born
  <2>1. {n \in Polls : Poll(n) \in ActiveTasks} = Leaders
    BY ActiveNames DEF Leaders
  <2>2. \A w \in Waiters : pc[w] = "spawning" => Waiter(w) \in ActiveTasks
    BY ActiveNames DEF Reserving
  <2> QED BY <2>1, <2>2
<1>4. /\ task' = [n \in Polls |-> IF (n \in Leaders \/ \E w \in Born : on[w] = n) /\ task[n] = "running"
                                  THEN "cancelling" ELSE task[n]]
      /\ pc' = [w \in Waiters |-> IF w \in Unborn THEN "unwinding"
                                  ELSE IF w \in Born THEN "reaping" ELSE pc[w]]
      /\ pending' = [k \in Keys |-> IF \E w \in Unborn : pending[k] = on[w] THEN 0 ELSE pending[k]]
      /\ future' = [n \in Polls |-> IF \E w \in Unborn : on[w] = n THEN "cancelled" ELSE future[n]]
  <2> DEFINE waits == Unborn \cup Born
  <2>1. {w \in waits : task[on[w]] = "none"} = Unborn /\ waits \ Unborn = Born
    OBVIOUS
  <2>2. \A n : n \in {on[w] : w \in Born} <=> \E w \in Born : on[w] = n
    OBVIOUS
  <2>3. \A w \in Waiters : w \in waits => w \in Unborn \/ w \in Born
    OBVIOUS
  <2> HIDE DEF Unborn, Born
  <2>4. pending' = [k \in Keys |-> IF \E w \in Unborn : pending[k] = on[w] THEN 0 ELSE pending[k]]
        /\ future' = [n \in Polls |-> IF \E w \in Unborn : on[w] = n THEN "cancelled" ELSE future[n]]
    BY <1>2, <1>3, <2>1 DEF CancelAll
  <2>5. pc' = [w \in Waiters |-> IF w \in Unborn THEN "unwinding"
                                 ELSE IF w \in waits THEN "reaping" ELSE pc[w]]
    BY <1>2, <1>3, <2>1 DEF CancelAll
  <2>6. task' = [n \in Polls |-> IF n \in Leaders \cup {on[w] : w \in Born} /\ task[n] = "running"
                                 THEN "cancelling" ELSE task[n]]
    BY <1>2, <1>3, <2>1 DEF CancelAll
  <2> QED BY <2>2, <2>3, <2>4, <2>5, <2>6
<1>5. Unborn \subseteq Reserving /\ Born \subseteq Reserving /\ Reserving' = Reserving \ Unborn
  BY <1>4 DEF Reserving
<1>6. \A w \in Unborn : on[w] \in Polls /\ task[on[w]] = "none" /\ Leads(w)
  BY <1>5 DEF PInv, Led, Leads
<1>7. \A w \in Born : on[w] \in Polls /\ task[on[w]] = "running" /\ Leads(w)
  BY <1>5 DEF PInv, Led, Leads
<1>8. \A n \in Polls : /\ task'[n] \in {task[n], "cancelling"} /\ (task'[n] # task[n] => task[n] = "running")
                       /\ Alive(n)' => Alive(n)
  BY <1>4 DEF Alive
<1>9. Types'
  BY <1>1, <1>2, <1>4, PollingAssumption DEF PInv, Types, Phases, TaskStates, FutureStates, Labels
<1> HIDE DEF Unborn, Born
<1>10. Entries'
  <2>1. \A n \in Polls : n # 0 /\ key[n] \in Keys
    BY DEF PInv, Types, Polls
  <2>2. ASSUME NEW n \in Polls PROVE future'[n] = "pending" <=> pending'[key[n]] = n
    BY <1>4, <2>1 DEF PInv, Entries
  <2>3. \A k \in Keys : pending'[k] # 0 => pending'[k] = pending[k]
    BY <1>4
  <2>4. \A n \in Polls : n > polls => future'[n] = "none"
    BY <1>4, <1>6 DEF PInv, Entries, Leads
  <2> QED BY <1>2, <2>2, <2>3, <2>4 DEF PInv, Entries
<1>11. ASSUME NEW n \in Polls PROVE Loop(n)'
  <2>1. phase' # "accepting"
    BY <1>1
  <2>2. Alive(n) => ~\E w \in Unborn : on[w] = n
    BY <1>6 DEF Alive
  <2>3. Alive(n)' => future'[n] = "pending"
    BY <1>4, <1>8, <2>2 DEF PInv, Loop
  <2>4. future'[n] = "none" => future[n] = "none" /\ task'[n] = task[n]
    BY <1>4, <1>8 DEF PInv, Loop
  <2>5. attached[n] => task'[n] # "none"
    BY <1>8 DEF PInv, Loop
  <2> QED BY <1>2, <2>1, <2>3, <2>4, <2>5 DEF PInv, Loop
<1>12. Led'
  <2>1. ASSUME NEW w \in Reserving' PROVE Leads(w)'
    <3>1. w \in Reserving /\ w \in Waiters /\ w \notin Unborn /\ Leads(w)
      BY <1>5, <2>1 DEF PInv, Led, Reserving
    <3>2. ~\E v \in Unborn : on[v] = on[w]
      BY <1>5, <3>1 DEF PInv, Led
    <3>3. future'[on[w]] = "pending" /\ on[w] \in Polls
      BY <1>4, <3>1, <3>2 DEF Leads
    <3>4. CASE w \in Born
      BY <1>2, <1>4, <1>7, <3>1, <3>3, <3>4 DEF Leads
    <3>5. CASE w \notin Born
      <4>1. pc'[w] = pc[w] /\ pc[w] = "reaping"
        BY <1>4, <3>1, <3>5 DEF Reserving, Unborn, Born
      <4> QED BY <1>2, <1>8, <3>1, <3>3, <4>1 DEF Leads
    <3> QED BY <3>4, <3>5
  <2>2. \A v, w \in Reserving' : on'[v] = on'[w] => v = w
    BY <1>2, <1>5 DEF PInv, Led
  <2>3. ASSUME NEW n \in Polls, future'[n] = "pending", ~attached'[n]
        PROVE  \E w \in Reserving' : on'[w] = n
    <3>1. future[n] = "pending" /\ ~attached[n] /\ ~\E w \in Unborn : on[w] = n
      BY <1>2, <1>4, <2>3
    <3>2. PICK w \in Reserving : on[w] = n
      BY <3>1 DEF PInv, Led
    <3> QED BY <1>2, <1>5, <3>1, <3>2
  <2> QED BY <2>1, <2>2, <2>3 DEF Led
<1>13. Seen'
  <2>1. ASSUME NEW w \in Reserving' PROVE pc'[w] = "reaping" /\ Waiter(w) \in awaited'
    <3>1. w \in Reserving /\ w \in Waiters /\ w \notin Unborn
      BY <1>5, <2>1 DEF Reserving
    <3>2. pc'[w] = "reaping"
      BY <1>4, <3>1 DEF Reserving, Unborn, Born
    <3>3. Waiter(w) \in ActiveTasks
      BY <3>1, ActiveNames
    <3> QED BY <1>2, <3>2, <3>3
  <2>2. ASSUME NEW n \in Polls, Alive(n)', attached'[n] PROVE Poll(n) \in awaited'
    <3>1. Alive(n) /\ attached[n] /\ future[n] = "pending"
      BY <1>2, <1>8, <2>2 DEF PInv, Loop
    <3>2. n \in Leaders
      BY <3>1 DEF Leaders, PInv, Entries
    <3>3. Poll(n) \in ActiveTasks
      BY <3>2 DEF ActiveTasks
    <3> QED BY <1>2, <3>3
  <2> QED BY <2>1, <2>2 DEF Seen
<1>14. NothingPollsAfterClose'
  BY <1>1 DEF NothingPollsAfterClose
<1> QED BY <1>9, <1>10, <1>11, <1>12, <1>13, <1>14 DEF PInv

(* The second hook leaves nothing: a reserving waiter it awaited has not   *)
(* ended, a poll it awaited has, and so has its callback.                  *)
LEMMA ReleaseKeeps ==
    ASSUME PInv, phase = "closeHook", HookReturns
    PROVE  PInv'
<1>1. /\ phase' = "released" /\ Gathered
      /\ UNCHANGED <<pending, polls, key, task, attached, future, pc, on>>
  BY DEF HookReturns, pollVars, waiterVars
<1>2. Reserving = {}
  BY <1>1 DEF PInv, Seen, Gathered, Reserving
<1>3. ASSUME NEW n \in Polls PROVE future[n] # "pending"
  <2>1. ASSUME future[n] = "pending" PROVE attached[n] /\ TaskDone(n)
    <3>1. attached[n] /\ task[n] # "none" /\ task[n] \in TaskStates
      BY <1>2, <2>1 DEF PInv, Led, Loop, Types
    <3>2. Alive(n) => TaskDone(n)
      BY <1>1, <3>1 DEF PInv, Seen, Gathered
    <3> QED BY <3>1, <3>2 DEF Alive, TaskDone, TaskStates
  <2> QED BY <1>1, <2>1 DEF Gathered
<1>4. \A n \in Polls : ~Alive(n)
  BY <1>3 DEF PInv, Loop
<1>5. ASSUME NEW k \in Keys PROVE pending[k] = 0
  <2>1. ASSUME pending[k] # 0 PROVE FALSE
    <3>1. pending[k] \in Polls /\ key[pending[k]] = k
      BY <2>1, PollingAssumption DEF PInv, Types, Entries, Polls
    <3> QED BY <1>3, <3>1 DEF PInv, Entries
  <2> QED BY <2>1
<1>6. NothingPollsAfterClose'
  BY <1>1, <1>2, <1>4, <1>5 DEF NothingPollsAfterClose, Alive, Reserving
<1>7. Types' /\ Entries' /\ Seen'
  BY <1>1 DEF PInv, Types, Entries, Seen, Phases
<1>8. ASSUME NEW n \in Polls PROVE Loop(n)'
  BY <1>1 DEF PInv, Loop, Alive
<1>9. Led'
  BY <1>1, <1>2, <1>3, <1>4 DEF PInv, Led, Reserving
<1> QED BY <1>6, <1>7, <1>8, <1>9 DEF PInv

-----------------------------------------------------------------------------
LEMMA WaiterKeeps ==
    ASSUME PInv, NEW w \in Waiters,
           \/ Enter(w) \/ Exit(w) \/ Wait(w) \/ Cancel(w) \/ Waited(w)
           \/ End(w) \/ Close(w) \/ Joined(w)
    PROVE  PInv'
<1> USE DEF closeVars, waiterVars
<1>1. CASE Enter(w) \/ Exit(w)
  <2>1. UNCHANGED <<phase, awaited, pending, pollVars, pc, on>>
    BY <1>1 DEF Enter, Exit
  <2> QED BY <2>1, MoveKeeps DEF PInv, Types, Reserving
<1>2. ASSUME NEW k \in Keys, Lead(w, k) PROVE PInv'
  BY <1>2, LeadKeeps
<1>3. ASSUME NEW k \in Keys, Follow(w, k) PROVE PInv'
  <2>1. pending[k] \in 0 .. MaxPolls
    BY DEF PInv, Types
  <2> QED BY <1>3, <2>1, WaiterMoves DEF Follow, CanWait, Labels
<1>4. CASE CancelWaiting(w) \/ Return(w)
  <2>1. PICK label \in {"idle", "unwinding"} : Goto(w, label)
    BY <1>4 DEF CancelWaiting, Return, LeaveWait
  <2> QED BY <1>4, <2>1, WaiterMoves DEF CancelWaiting, Return, Labels
<1>5. CASE (CancelSpawning(w) /\ task[on[w]] = "none") \/ SpawnRefused(w) \/ Reaped(w)
  <2>1. PICK label \in {"idle", "unwinding"} : Goto(w, label)
    BY <1>5 DEF CancelSpawning, SpawnRefused, Reaped, LeaveWait
  <2>2. Unreserve(on[w]) /\ UNCHANGED <<phase, awaited, polls, key, task, attached, on>>
    BY <1>5 DEF CancelSpawning, SpawnRefused, Reaped
  <2>3. pc[w] \in {"spawning", "reaping"} /\ (task[on[w]] = "none" \/ TaskDone(on[w]))
    BY <1>5 DEF CancelSpawning, SpawnRefused, Reaped
  <2> QED BY <2>1, <2>2, <2>3, GiveUpKeeps
<1>6. CASE CancelSpawning(w) /\ task[on[w]] # "none"
  BY <1>6, ReapKeeps
<1>7. CASE Spawn(w)
  BY <1>7, SpawnKeeps
<1>8. CASE Attach(w)
  BY <1>8, AttachKeeps
<1>9. CASE End(w) \/ Close(w) \/ Joined(w)
  <2>1. PICK label \in {"ended", "joining"} : Goto(w, label)
    BY <1>9 DEF End, Close, Joined
  <2>2. UNCHANGED <<pending, pollVars, awaited, on>> /\ pc[w] \notin {"spawning", "reaping"}
    BY <1>9 DEF End, Close, Joined
  <2>3. phase' = phase \/ (phase = "accepting" /\ phase' \in {"draining", "closing"})
    BY <1>9 DEF End, Close, Joined
  <2> QED BY <2>1, <2>2, <2>3, WaiterMoves DEF Labels
<1> QED BY <1>1, <1>2, <1>3, <1>4, <1>5, <1>6, <1>7, <1>8, <1>9 DEF Wait, Cancel, Waited

LEMMA WaveKeeps ==
    ASSUME PInv, HookReturns \/ WaitForIdle \/ EndGrace
    PROVE  PInv'
<1>1. CASE HookReturns /\ phase = "closeHook"
  BY <1>1, ReleaseKeeps
<1>2. CASE ~(HookReturns /\ phase = "closeHook")
  <2>1. UNCHANGED <<pending, pollVars, pc, on>> /\ phase' \in {"idleWait", "closing"}
    BY <1>2 DEF HookReturns, WaitForIdle, EndGrace, waiterVars
  <2> QED BY <2>1, MoveKeeps DEF PInv, Types, Phases, Reserving
<1> QED BY <1>1, <1>2

LEMMA InvNext == PInv /\ [Next]_vars => PInv'
<1> SUFFICES ASSUME PInv, [Next]_vars PROVE PInv'
  OBVIOUS
<1>1. ASSUME NEW n \in Polls, PollStep(n) PROVE PInv'
  BY <1>1, PollEndsKeeps, ResolveKeeps DEF PollStep
<1>2. CASE UNCHANGED vars
  BY <1>2, MoveKeeps DEF vars, pollVars, PInv, Types, Reserving
<1> QED BY <1>1, <1>2, WaiterKeeps, HookKeeps, WaveKeeps DEF Next, CloseStep

THEOREM Invariance == Spec => []PInv
<1> QED BY InvInit, InvNext, PTL DEF Spec

-----------------------------------------------------------------------------
(* The registry holds exactly the unresolved futures, and one poll loop at *)
(* most runs for a key: a running loop has an unresolved future, which is  *)
(* the one registered under its key.                                       *)
THEOREM RegistryIsExact == Spec => []Registered
<1>1. PInv => Registered
  BY DEF PInv, Entries, Loop, Registered
<1> QED BY <1>1, Invariance, PTL

(* An attached poll is cancelled only with its client.                     *)
THEOREM PollsSurviveWaiters == Spec => []AttachedPollSurvives
<1>1. PInv => AttachedPollSurvives
  BY DEF PInv, Loop, AttachedPollSurvives
<1> QED BY <1>1, Invariance, PTL

(* Behind a close nothing polls and the registry is empty.                 *)
THEOREM CloseLeavesNothing == Spec => []NothingPollsAfterClose
<1>1. PInv => NothingPollsAfterClose
  BY DEF PInv
<1> QED BY <1>1, Invariance, PTL

-----------------------------------------------------------------------------
(* Every waiter is answered.  FairSpec's weak fairness is used with its    *)
(* ENABLED written out: CanResume(w) is the guard of Waited(w), CanStep(n) *)
(* that of PollStep(n).                                                    *)

Over == {"returned", "raised", "cancelled"}

CanResume(w) == \/ pc[w] = "spawning"
                \/ pc[w] = "reaping" /\ TaskDone(on[w])
                \/ pc[w] = "waiting" /\ future[on[w]] \in Over

CanStep(n) == \/ task[n] = "running" /\ attached[n]
              \/ task[n] = "cancelling"
              \/ attached[n] /\ TaskDone(n) /\ future[n] = "pending"

Resumes(w) == []<>~CanResume(w) \/ []<><<Waited(w)>>_vars

GoesOn(n) == []<>~CanStep(n) \/ []<><<PollStep(n)>>_vars

Scheduled == /\ \A w \in Waiters : Resumes(w)
             /\ \A n \in Polls : GoesOn(n)

Resolved(n) == future[n] \in Over

(* A future that is awaited is somebody's.                                 *)
Awaits == \A w \in Waiters : pc[w] = "waiting" => on[w] \in Polls /\ future[on[w]] # "none"

LEMMA StaysResolved ==
    ASSUME PInv, [Next]_vars, NEW n \in Polls, future[n] # "none"
    PROVE  future'[n] # "none" /\ (Resolved(n) => Resolved(n)')
<1> USE DEF Resolved, Over
<1>1. ASSUME NEW w \in Waiters, Unreserve(on[w]) PROVE future'[n] # "none" /\ (Resolved(n) => Resolved(n)')
  BY <1>1 DEF Unreserve, PInv, Types
<1>2. ASSUME NEW w \in Waiters, NEW k \in Keys, Lead(w, k) PROVE future'[n] = future[n]
  <2>1. polls + 1 # n
    BY PollingAssumption DEF PInv, Types, Entries, Polls
  <2> QED BY <1>2, <2>1 DEF Lead, PInv, Types
<1>3. ASSUME NEW m \in Polls, PollStep(m) PROVE future'[n] # "none" /\ (Resolved(n) => Resolved(n)')
  BY <1>3 DEF PollStep, PollEnds, Resolve, TaskDone, PInv, Types
<1>4. CASE DrainHook
  BY <1>4 DEF DrainHook, CancelAll
<1>5. CASE UNCHANGED future
  BY <1>5
<1>6. ASSUME NEW w \in Waiters, Waited(w) \/ Cancel(w) \/ Wait(w)
      PROVE  UNCHANGED future \/ Unreserve(on[w]) \/ \E k \in Keys : Lead(w, k)
  BY <1>6 DEF Waited, Spawn, SpawnRefused, Attach, Return, Reaped, Cancel, CancelWaiting,
              CancelSpawning, Wait, Follow, pollVars
<1>7. ASSUME NEW w \in Waiters, Enter(w) \/ Exit(w) \/ End(w) \/ Close(w) \/ Joined(w)
      PROVE  UNCHANGED future
  BY <1>7 DEF Enter, Exit, End, Close, Joined, pollVars
<1>8. CASE HookReturns \/ WaitForIdle \/ EndGrace
  BY <1>5, <1>8 DEF HookReturns, WaitForIdle, EndGrace, pollVars
<1> QED BY <1>1, <1>2, <1>3, <1>4, <1>5, <1>6, <1>7, <1>8 DEF Next, CloseStep, vars

LEMMA AwaitsStep == PInv /\ Awaits /\ [Next]_vars => Awaits'
<1> SUFFICES ASSUME PInv, Awaits, [Next]_vars, NEW w \in Waiters, pc'[w] = "waiting"
             PROVE  on'[w] \in Polls /\ future'[on'[w]] # "none"
  BY DEF Awaits
<1>1. CASE pc[w] = "waiting" /\ on'[w] = on[w]
  BY <1>1, StaysResolved DEF Awaits
<1>2. CASE pc[w] = "spawning" /\ on'[w] = on[w]
  BY <1>2, StaysResolved, Leader DEF Leads
<1>3. ASSUME NEW k \in Keys, Follow(w, k)
      PROVE  on'[w] \in Polls /\ future'[on'[w]] # "none"
  <2>1. on'[w] = pending[k] /\ pending[k] \in Polls /\ UNCHANGED future
    BY <1>3, PollingAssumption DEF Follow, PInv, Types, Polls, pollVars
  <2>2. future[pending[k]] = "pending"
    BY <1>3, <2>1 DEF Follow, PInv, Entries
  <2> QED BY <2>1, <2>2
<1>4. ASSUME NEW u \in Waiters, u # w, NEW k \in Keys, Lead(u, k) \/ Follow(u, k)
      PROVE  on'[w] = on[w] /\ pc'[w] = pc[w]
  BY <1>4 DEF Lead, Follow, Goto, PInv, Types
<1>5. ASSUME NEW u \in Waiters, Waited(u) \/ Cancel(u)
      PROVE  on'[w] = on[w] /\ pc[w] \in {"spawning", "waiting"}
  BY <1>5 DEF Waited, Spawn, SpawnRefused, Attach, Return, Reaped, Cancel, CancelWaiting,
              CancelSpawning, Goto, LeaveWait, PInv, Types, waiterVars
<1>6. ASSUME NEW u \in Waiters, Enter(u) \/ Exit(u) \/ End(u) \/ Close(u) \/ Joined(u)
      PROVE  on'[w] = on[w] /\ pc[w] = "waiting"
  BY <1>6 DEF Enter, Exit, End, Close, Joined, Goto, PInv, Types
<1>7. ASSUME NEW k \in Keys, Lead(w, k) PROVE FALSE
  BY <1>7 DEF Lead, Goto, PInv, Types
<1>8. ASSUME NEW m \in Polls, PollStep(m) PROVE on'[w] = on[w] /\ pc[w] = "waiting"
  BY <1>8 DEF PollStep, PollEnds, Resolve, waiterVars
<1>9. CASE CloseStep \/ EndGrace \/ UNCHANGED vars
  BY <1>1, <1>9 DEF CloseStep, DrainHook, CancelAll, HookReturns, WaitForIdle, EndGrace,
                    waiterVars, vars, PInv, Types
<1> QED BY <1>1, <1>2, <1>3, <1>4, <1>5, <1>6, <1>7, <1>8, <1>9 DEF Next, Wait

(* The stages of a poll: under a leader, and attached.                     *)
Under(v, n, label, status) == pc[v] = label /\ on[v] = n /\ task[n] = status

Running(n) == attached[n] /\ future[n] = "pending" /\ Alive(n)

Finished(n) == attached[n] /\ future[n] = "pending" /\ TaskDone(n)

LEMMA LeaderUndisturbed ==
    ASSUME PInv, NEW v \in Waiters, NEW u \in Waiters \ {v}, pc[v] \in {"spawning", "reaping"},
           \/ Enter(u) \/ Exit(u) \/ Wait(u) \/ Cancel(u) \/ Waited(u)
           \/ End(u) \/ Close(u) \/ Joined(u)
    PROVE  pc'[v] = pc[v] /\ on'[v] = on[v] /\ task'[on[v]] = task[on[v]]
<1>1. ASSUME pc[u] \in {"spawning", "reaping"} PROVE on[u] # on[v]
  BY <1>1, Leader DEF Reserving
<1>2. CASE Enter(u) \/ Exit(u) \/ Wait(u) \/ CancelWaiting(u) \/ Return(u) \/ Attach(u)
           \/ SpawnRefused(u) \/ Reaped(u) \/ End(u) \/ Close(u) \/ Joined(u)
  BY <1>2 DEF Enter, Exit, Wait, Lead, Follow, CancelWaiting, Return, Attach, SpawnRefused,
              Reaped, End, Close, Joined, Goto, LeaveWait, PInv, Types, pollVars, waiterVars
<1>3. CASE Spawn(u) \/ CancelSpawning(u)
  <2>1. on[u] # on[v] /\ on[v] \in Polls
    BY <1>1, <1>3, Leader DEF Spawn, CancelSpawning
  <2> QED BY <1>3, <2>1 DEF Spawn, CancelSpawning, Goto, LeaveWait, PInv, Types, waiterVars
<1> QED BY <1>2, <1>3 DEF Cancel, Waited

LEMMA PollUndisturbed ==
    ASSUME PInv, NEW v \in Waiters, pc[v] \in {"spawning", "reaping"}, NEW m \in Polls,
           PollStep(m), m # on[v]
    PROVE  pc'[v] = pc[v] /\ on'[v] = on[v] /\ task'[on[v]] = task[on[v]]
<1>1. on[v] \in Polls
  BY Leader
<1> QED BY <1>1 DEF PollStep, PollEnds, Resolve, waiterVars, PInv, Types

(* What the hook does to a leader and its poll.                            *)
LEMMA HookOnLeader ==
    ASSUME PInv, DrainHook, NEW v \in Waiters, pc[v] \in {"spawning", "reaping"}, NEW n \in Polls,
           on[v] = n
    PROVE  /\ Under(v, n, "spawning", "none") => Resolved(n)'
           /\ Under(v, n, "spawning", "running") => Under(v, n, "reaping", "cancelling")'
           /\ pc[v] = "reaping" => pc'[v] = "reaping" /\ on'[v] = n /\ task'[n] = task[n]
<1>1. Waiter(v) \in ActiveTasks
  BY ActiveNames DEF Reserving
<1>2. on'[v] = n /\ CancelAll(ActiveTasks)
  BY DEF DrainHook
<1>3. Leads(v)
  BY Leader
<1>4. ASSUME Under(v, n, "spawning", "none") PROVE Resolved(n)'
  BY <1>1, <1>2, <1>4 DEF CancelAll, Under, Resolved, Over
<1>5. ASSUME Under(v, n, "spawning", "running") PROVE Under(v, n, "reaping", "cancelling")'
  BY <1>1, <1>2, <1>5 DEF CancelAll, Under
<1>6. ASSUME pc[v] = "reaping" PROVE pc'[v] = "reaping" /\ task'[n] = task[n]
  <2>1. pc'[v] = "reaping"
    BY <1>2, <1>6 DEF CancelAll
  <2>2. task[n] # "running"
    BY <1>3, <1>6 DEF Leads
  <2> QED BY <1>2, <2>1, <2>2 DEF CancelAll, PInv, Types
<1> QED BY <1>2, <1>4, <1>5, <1>6

(* From stage to stage, as long as the leader leads.                       *)
LeaderMoves(v, n) ==
    /\ Under(v, n, "spawning", "none") =>
          \/ Under(v, n, "spawning", "none")' \/ Under(v, n, "spawning", "running")'
          \/ Resolved(n)'
    /\ Under(v, n, "spawning", "running") =>
          \/ Under(v, n, "spawning", "running")' \/ Running(n)'
          \/ Under(v, n, "reaping", "cancelling")'
    /\ Under(v, n, "reaping", "cancelling") =>
          Under(v, n, "reaping", "cancelling")' \/ Under(v, n, "reaping", "cancelled")'
    /\ Under(v, n, "reaping", "cancelled") =>
          Under(v, n, "reaping", "cancelled")' \/ Resolved(n)'

LEMMA LeaderSteps ==
    ASSUME PInv, [Next]_vars, NEW v \in Waiters, NEW n \in Polls
    PROVE  LeaderMoves(v, n)
<1> SUFFICES ASSUME pc[v] \in {"spawning", "reaping"}, on[v] = n PROVE LeaderMoves(v, n)
  BY DEF LeaderMoves, Under
<1>1. Leads(v) /\ v \in Reserving
  BY Leader
<1>2. CASE pc'[v] = pc[v] /\ on'[v] = on[v] /\ task'[n] = task[n]
  BY <1>2 DEF LeaderMoves, Under
<1>3. CASE Waited(v) \/ Cancel(v)
  <2> USE DEF LeaderMoves
  <2>1. CASE Spawn(v)
    BY <2>1 DEF Spawn, Under, PInv, Types, waiterVars
  <2>2. CASE SpawnRefused(v) \/ Reaped(v)
    BY <2>2 DEF SpawnRefused, Reaped, Unreserve, Under, Resolved, Over, PInv, Types, TaskDone
  <2>3. CASE Attach(v)
    BY <1>1, <2>3 DEF Attach, Leads, Under, Running, Alive, PInv, Types
  <2>4. CASE CancelSpawning(v)
    BY <1>1, <2>4 DEF CancelSpawning, Unreserve, Leads, Under, Resolved, Over, Goto, PInv, Types
  <2> QED BY <1>3, <2>1, <2>2, <2>3, <2>4 DEF Waited, Cancel, Return, CancelWaiting
<1>4. ASSUME PollStep(n) PROVE
           \/ pc'[v] = pc[v] /\ on'[v] = on[v] /\ task'[n] = task[n]
           \/ Under(v, n, "reaping", "cancelling") /\ Under(v, n, "reaping", "cancelled")'
  BY <1>1, <1>4 DEF PollStep, PollEnds, Resolve, Leads, Under, PInv, Types, waiterVars
<1>5. ASSUME Enter(v) \/ Exit(v) \/ Wait(v) \/ End(v) \/ Close(v) \/ Joined(v) PROVE FALSE
  BY <1>5 DEF Enter, Exit, Wait, Lead, Follow, CanWait, End, Close, Joined
<1>6. CASE HookReturns \/ WaitForIdle \/ EndGrace \/ UNCHANGED vars
  BY <1>2, <1>6 DEF HookReturns, WaitForIdle, EndGrace, vars, pollVars, waiterVars
<1>7. CASE DrainHook
  BY <1>7, HookOnLeader DEF LeaderMoves, Under
<1>8. ASSUME NEW u \in Waiters, u # v, \/ Enter(u) \/ Exit(u) \/ Wait(u) \/ Cancel(u) \/ Waited(u)
                                      \/ End(u) \/ Close(u) \/ Joined(u)
      PROVE  pc'[v] = pc[v] /\ on'[v] = on[v] /\ task'[n] = task[n]
  BY <1>8, LeaderUndisturbed
<1>9. ASSUME NEW m \in Polls, m # n, PollStep(m)
      PROVE  pc'[v] = pc[v] /\ on'[v] = on[v] /\ task'[n] = task[n]
  BY <1>9, PollUndisturbed
<1>10. CASE PollStep(n)
  BY <1>4, <1>10 DEF LeaderMoves, Under
<1> QED BY <1>2, <1>3, <1>5, <1>6, <1>7, <1>8, <1>9, <1>10 DEF Next, CloseStep

(* Once attached, a poll runs until its task ends, and then its callback   *)
(* resolves the future.                                                    *)
LEMMA AttachedSteps ==
    ASSUME PInv, PInv', [Next]_vars, NEW n \in Polls, attached[n], future[n] = "pending"
    PROVE  /\ Running(n) => Running(n)' \/ Finished(n)'
           /\ Finished(n) => Finished(n)' \/ Resolved(n)'
<1> SUFFICES /\ attached'[n]
             /\ \/ future'[n] = "pending" /\ task'[n] = task[n]
                \/ future'[n] = "pending" /\ Alive(n)
                \/ ~Alive(n) /\ Resolved(n)'
  <2>1. attached'[n] => task'[n] # "none" /\ task'[n] \in TaskStates
    BY DEF PInv, Loop, Types
  <2> QED BY <2>1 DEF Running, Finished, Alive, TaskDone, TaskStates
<1>1. \A w \in Reserving : on[w] # n
  BY DEF PInv, Led, Leads
<1>2. CASE UNCHANGED <<task, attached, future>>
  BY <1>2
<1>3. ASSUME NEW w \in Waiters, Waited(w) \/ Cancel(w)
      PROVE  attached'[n] /\ future'[n] = "pending" /\ task'[n] = task[n]
  <2>1. CASE pc[w] = "waiting"
    BY <1>3, <2>1 DEF Waited, Spawn, SpawnRefused, Attach, Return, Reaped, Cancel, CancelWaiting,
                      CancelSpawning, pollVars
  <2>2. CASE pc[w] \in {"spawning", "reaping"}
    <3>1. on[w] # n /\ on[w] \in Polls
      BY <1>1, <2>2, Leader DEF Reserving
    <3> QED BY <1>3, <3>1 DEF Waited, Spawn, SpawnRefused, Attach, Return, Reaped, Cancel,
                CancelWaiting, CancelSpawning, Unreserve, pollVars, PInv, Types
  <2> QED BY <1>3, <2>1, <2>2 DEF Waited, Spawn, SpawnRefused, Attach, Return, Reaped, Cancel,
                                  CancelWaiting, CancelSpawning
<1>4. ASSUME NEW w \in Waiters, NEW k \in Keys, Lead(w, k) \/ Follow(w, k)
      PROVE  attached'[n] /\ future'[n] = "pending" /\ task'[n] = task[n]
  <2>1. polls + 1 # n
    BY PollingAssumption DEF PInv, Types, Entries, Polls
  <2> QED BY <1>4, <2>1 DEF Lead, Follow, PInv, Types, pollVars
<1>5. ASSUME NEW w \in Waiters, Enter(w) \/ Exit(w) \/ End(w) \/ Close(w) \/ Joined(w)
      PROVE  UNCHANGED <<task, attached, future>>
  BY <1>5 DEF Enter, Exit, End, Close, Joined, pollVars
<1>6. ASSUME NEW m \in Polls, PollStep(m), m # n
      PROVE  attached'[n] /\ future'[n] = "pending" /\ task'[n] = task[n]
  BY <1>6 DEF PollStep, PollEnds, Resolve, PInv, Types
<1>7. CASE PollEnds(n)
  BY <1>7 DEF PollEnds, Alive
<1>8. CASE Resolve(n)
  BY <1>8 DEF Resolve, TaskDone, Alive, Resolved, Over, PInv, Types
<1>9. CASE HookReturns \/ WaitForIdle \/ EndGrace \/ UNCHANGED vars
  BY <1>2, <1>9 DEF HookReturns, WaitForIdle, EndGrace, pollVars, vars
<1>10. CASE DrainHook
  <2>1. \A w \in Waiters : pc[w] = "spawning" => on[w] # n
    BY <1>1 DEF Reserving
  <2>2. future'[n] = "pending" /\ attached'[n]
    BY <1>10, <2>1 DEF DrainHook, CancelAll, PInv, Types
  <2>3. task'[n] = task[n] \/ Alive(n)
    BY <1>10 DEF DrainHook, CancelAll, PInv, Types, Alive
  <2> QED BY <2>2, <2>3
<1> QED BY <1>2, <1>3, <1>4, <1>5, <1>6, <1>7, <1>8, <1>9, <1>10 DEF Next, CloseStep, Wait, PollStep

(* The step that the stage waits for.                                      *)
LEMMA StageEnds ==
    ASSUME PInv, PInv', NEW n \in Polls
    PROVE  /\ \A v \in Waiters : Waited(v) =>
                 /\ Under(v, n, "spawning", "none") => ~Under(v, n, "spawning", "none")'
                 /\ Under(v, n, "spawning", "running") => ~Under(v, n, "spawning", "running")'
                 /\ Under(v, n, "reaping", "cancelled") => ~Under(v, n, "reaping", "cancelled")'
           /\ PollStep(n) =>
                 /\ \A v \in Waiters : Under(v, n, "reaping", "cancelling") =>
                                           ~Under(v, n, "reaping", "cancelling")'
                 /\ Running(n) => ~Running(n)'
                 /\ Finished(n) => ~Finished(n)'
<1>1. ASSUME NEW v \in Waiters, Waited(v)
      PROVE  /\ Under(v, n, "spawning", "none") => ~Under(v, n, "spawning", "none")'
             /\ Under(v, n, "spawning", "running") => ~Under(v, n, "spawning", "running")'
             /\ Under(v, n, "reaping", "cancelled") => ~Under(v, n, "reaping", "cancelled")'
  BY <1>1 DEF Waited, Spawn, SpawnRefused, Attach, Return, Reaped, Under, Goto, LeaveWait,
              PInv, Types
<1>2. ASSUME PollStep(n)
      PROVE  /\ task[n] = "cancelling" => task'[n] # "cancelling"
             /\ Running(n) => ~Running(n)'
             /\ Finished(n) => ~Finished(n)'
  BY <1>2 DEF PollStep, PollEnds, Resolve, Running, Finished, Alive, TaskDone, PInv, Types
<1> QED BY <1>1, <1>2 DEF Under

LEMMA StageCanEnd ==
    ASSUME NEW n \in Polls
    PROVE  /\ \A v \in Waiters :
                 /\ Under(v, n, "spawning", "none") => CanResume(v)
                 /\ Under(v, n, "spawning", "running") => CanResume(v)
                 /\ Under(v, n, "reaping", "cancelled") => CanResume(v)
                 /\ Under(v, n, "reaping", "cancelling") => CanStep(n)
           /\ Running(n) => CanStep(n)
           /\ Finished(n) => CanStep(n)
  BY DEF Under, CanResume, CanStep, Running, Finished, Alive, TaskDone

(* A pending future is in one of the stages.                               *)
Leading(v, n) == \/ Under(v, n, "spawning", "none")
                 \/ Under(v, n, "spawning", "running")
                 \/ Under(v, n, "reaping", "cancelling")
                 \/ Under(v, n, "reaping", "cancelled")

LEMMA Stages ==
    ASSUME PInv, NEW n \in Polls, future[n] = "pending"
    PROVE  Running(n) \/ Finished(n) \/ \E v \in Waiters : Leading(v, n)
<1>1. CASE attached[n]
  BY <1>1 DEF PInv, Loop, Types, TaskStates, Running, Finished, Alive, TaskDone
<1>2. CASE ~attached[n]
  <2>1. PICK v \in Reserving : on[v] = n
    BY <1>2 DEF PInv, Led
  <2>2. Leads(v)
    BY DEF PInv, Led
  <2> QED BY <2>1, <2>2 DEF Leads, Under, Leading, Reserving
<1> QED BY <1>1, <1>2

(* An attached poll is resolved.                                           *)
LEMMA AttachedResolves ==
    ASSUME NEW n \in Polls
    PROVE  []PInv /\ [][Next]_vars /\ GoesOn(n) =>
               /\ [](Running(n) => <>Resolved(n))
               /\ [](Finished(n) => <>Resolved(n))
<1>1. PInv /\ PInv' /\ [Next]_vars =>
         /\ Running(n) => Running(n)' \/ Finished(n)'
         /\ Finished(n) => Finished(n)' \/ Resolved(n)'
  BY AttachedSteps DEF Running, Finished
<1>2. PInv /\ PInv' /\ <<PollStep(n)>>_vars =>
         /\ Running(n) => ~Running(n)'
         /\ Finished(n) => ~Finished(n)'
  BY StageEnds
<1>3. (Running(n) => CanStep(n)) /\ (Finished(n) => CanStep(n))
  BY StageCanEnd
<1> QED BY <1>1, <1>2, <1>3, PTL DEF GoesOn

(* Every shared future is resolved, before it is attached or after.        *)
LEMMA PendingResolves ==
    ASSUME NEW n \in Polls
    PROVE  []PInv /\ [][Next]_vars /\ Scheduled => [](future[n] = "pending" => <>Resolved(n))
<1>1. PInv => (future[n] = "pending" => Running(n) \/ Finished(n) \/ \E v \in Waiters : Leading(v, n))
  BY Stages
<1>2. Scheduled => GoesOn(n)
  BY DEF Scheduled
<1>3. []PInv /\ [][Next]_vars /\ GoesOn(n) =>
          [](Running(n) => <>Resolved(n)) /\ [](Finished(n) => <>Resolved(n))
  BY AttachedResolves
<1>4. ASSUME NEW v \in Waiters
      PROVE  []PInv /\ [][Next]_vars /\ Scheduled => [](Leading(v, n) => <>Resolved(n))
  <2>1. PInv /\ [Next]_vars => LeaderMoves(v, n)
    BY LeaderSteps
  <2>2. PInv /\ PInv' /\ <<Waited(v)>>_vars =>
           /\ Under(v, n, "spawning", "none") => ~Under(v, n, "spawning", "none")'
           /\ Under(v, n, "spawning", "running") => ~Under(v, n, "spawning", "running")'
           /\ Under(v, n, "reaping", "cancelled") => ~Under(v, n, "reaping", "cancelled")'
    BY StageEnds
  <2>3. PInv /\ PInv' /\ <<PollStep(n)>>_vars =>
           (Under(v, n, "reaping", "cancelling") => ~Under(v, n, "reaping", "cancelling")')
    BY StageEnds
  <2>4. /\ Under(v, n, "spawning", "none") => CanResume(v)
        /\ Under(v, n, "spawning", "running") => CanResume(v)
        /\ Under(v, n, "reaping", "cancelled") => CanResume(v)
        /\ Under(v, n, "reaping", "cancelling") => CanStep(n)
    BY StageCanEnd
  <2>5. []PInv /\ [][Next]_vars /\ GoesOn(n) => [](Running(n) => <>Resolved(n))
    BY AttachedResolves
  <2>6. Scheduled => Resumes(v)
    BY DEF Scheduled
  <2> QED BY <1>2, <2>6, <2>1, <2>2, <2>3, <2>4, <2>5, PTL DEF GoesOn, Resumes, LeaderMoves, Leading
<1>5. []PInv /\ [][Next]_vars /\ Scheduled => \A v \in Waiters : [](Leading(v, n) => <>Resolved(n))
  BY <1>4
<1>6. (\A v \in Waiters : [](Leading(v, n) => <>Resolved(n))) => [](\A v \in Waiters : (Leading(v, n) => <>Resolved(n)))
  OBVIOUS
<1>7. (\A v \in Waiters : (Leading(v, n) => <>Resolved(n))) => ((\E v \in Waiters : Leading(v, n)) => <>Resolved(n))
  OBVIOUS
<1> QED BY <1>1, <1>2, <1>3, <1>5, <1>6, <1>7, PTL

(* A waiter waits for one poll.                                            *)
WaitsFor(w, n) == Waiting(w) /\ on[w] = n

LEMMA WaiterStays ==
    ASSUME PInv, [Next]_vars, NEW w \in Waiters, NEW n \in Polls, WaitsFor(w, n)
    PROVE  WaitsFor(w, n)' \/ ~Waiting(w)'
<1> SUFFICES on'[w] = on[w] \/ ~Waiting(w)'
  BY DEF WaitsFor
<1>1. ASSUME NEW k \in Keys, Lead(w, k) \/ Follow(w, k) PROVE FALSE
  BY <1>1 DEF Lead, Follow, CanWait, WaitsFor, Waiting
<1>2. ASSUME NEW u \in Waiters, u # w, NEW k \in Keys, Lead(u, k) \/ Follow(u, k)
      PROVE  on'[w] = on[w]
  BY <1>2 DEF Lead, Follow, PInv, Types
<1>3. ASSUME NEW u \in Waiters, Waited(u) \/ Cancel(u)
      PROVE  on'[w] = on[w]
  BY <1>3 DEF Waited, Spawn, SpawnRefused, Attach, Return, Reaped, Cancel, CancelWaiting,
              CancelSpawning, waiterVars
<1>4. ASSUME NEW u \in Waiters, Enter(u) \/ Exit(u) \/ End(u) \/ Close(u) \/ Joined(u)
      PROVE  on'[w] = on[w]
  BY <1>4 DEF Enter, Exit, End, Close, Joined
<1>5. ASSUME NEW m \in Polls, PollStep(m) PROVE on'[w] = on[w]
  BY <1>5 DEF PollStep, PollEnds, Resolve, waiterVars
<1>6. CASE CloseStep \/ EndGrace \/ UNCHANGED vars
  BY <1>6 DEF CloseStep, DrainHook, HookReturns, WaitForIdle, EndGrace, waiterVars, vars
<1> QED BY <1>1, <1>2, <1>3, <1>4, <1>5, <1>6 DEF Next, Wait

(* It waits for a future that is pending or resolved, and what it does     *)
(* after the future was resolved ends its wait.                            *)
LEMMA WaiterAtFuture ==
    ASSUME PInv, Awaits, NEW w \in Waiters, NEW n \in Polls, WaitsFor(w, n)
    PROVE  /\ future[n] = "pending" \/ Resolved(n)
           /\ Resolved(n) => CanResume(w)
<1>1. ASSUME pc[w] \in {"spawning", "reaping"} PROVE future[n] = "pending"
  BY <1>1, Leader DEF Leads, WaitsFor
<1>2. ASSUME pc[w] = "waiting" PROVE future[n] # "none"
  BY <1>2 DEF Awaits, WaitsFor
<1> QED BY <1>1, <1>2 DEF WaitsFor, Waiting, Resolved, Over, CanResume, PInv, Types, FutureStates

LEMMA ResumedWaiterIsDone ==
    ASSUME PInv, NEW w \in Waiters, NEW n \in Polls, WaitsFor(w, n), Resolved(n), Waited(w)
    PROVE  ~Waiting(w)'
<1>1. pc[w] \notin {"spawning", "reaping"}
  BY Leader DEF Leads, WaitsFor, Resolved, Over
<1> QED BY <1>1 DEF Waited, Spawn, SpawnRefused, Attach, Return, Reaped, LeaveWait, Goto, Waiting,
                    PInv, Types

LEMMA AwaitsInit == Init => Awaits
  BY DEF Init, Awaits

LEMMA PollChosen ==
    ASSUME PInv, Awaits, NEW w \in Waiters, Waiting(w)
    PROVE  \E n \in Polls : WaitsFor(w, n)
  BY Leader DEF Leads, Awaits, Waiting, WaitsFor

(* Every waiter is answered, by the outcome of the poll or by a            *)
(* cancellation, however many wait and whoever of them is cancelled, if    *)
(* every task that can step does and polls end.                            *)
THEOREM WaitersAreAnswered == Spec /\ Scheduled => Answered
<1> SUFFICES ASSUME NEW w \in Waiters
             PROVE  Spec /\ Scheduled => (Waiting(w) ~> ~Waiting(w))
  BY DEF Answered
<1>1. Spec => [](PInv /\ Awaits) /\ [][Next]_vars
  BY InvInit, InvNext, AwaitsInit, AwaitsStep, PTL DEF Spec
<1>2. ASSUME NEW n \in Polls
      PROVE  [](PInv /\ Awaits) /\ [][Next]_vars /\ Scheduled => [](WaitsFor(w, n) => <>~Waiting(w))
  <2>1. PInv /\ Awaits /\ [Next]_vars /\ WaitsFor(w, n) => WaitsFor(w, n)' \/ ~Waiting(w)'
    BY WaiterStays
  <2>2. PInv /\ Awaits /\ WaitsFor(w, n) => future[n] = "pending" \/ Resolved(n)
    BY WaiterAtFuture
  <2>3. PInv /\ Awaits /\ WaitsFor(w, n) /\ Resolved(n) => CanResume(w)
    BY WaiterAtFuture
  <2>4. PInv /\ [Next]_vars /\ Resolved(n) => Resolved(n)'
    BY StaysResolved DEF Resolved, Over
  <2>5. PInv /\ WaitsFor(w, n) /\ Resolved(n) /\ <<Waited(w)>>_vars => ~Waiting(w)'
    BY ResumedWaiterIsDone
  <2>6. []PInv /\ [][Next]_vars /\ Scheduled => [](future[n] = "pending" => <>Resolved(n))
    BY PendingResolves
  <2>7. Scheduled => Resumes(w)
    BY DEF Scheduled
  <2> QED BY <2>1, <2>2, <2>3, <2>4, <2>5, <2>6, <2>7, PTL DEF Resumes
<1>3. [](PInv /\ Awaits) /\ [][Next]_vars /\ Scheduled =>
          \A n \in Polls : [](WaitsFor(w, n) => <>~Waiting(w))
  BY <1>2
<1>4. (\A n \in Polls : [](WaitsFor(w, n) => <>~Waiting(w))) => [](\A n \in Polls : (WaitsFor(w, n) => <>~Waiting(w)))
  OBVIOUS
<1>5. (\A n \in Polls : (WaitsFor(w, n) => <>~Waiting(w))) => ((\E n \in Polls : WaitsFor(w, n)) => <>~Waiting(w))
  OBVIOUS
<1>6. PInv /\ Awaits /\ Waiting(w) => \E n \in Polls : WaitsFor(w, n)
  BY PollChosen
<1> QED BY <1>1, <1>3, <1>4, <1>5, <1>6, PTL

===============================================================================
