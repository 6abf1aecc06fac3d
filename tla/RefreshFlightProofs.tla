-------------------------- MODULE RefreshFlightProofs --------------------------
(***************************************************************************)
(* Proofs about RefreshFlight for every set of callers, every number of    *)
(* processes, calls and retries, and every placement of callers.  That     *)
(* calls end is proved for the number of follow retries in the program.    *)
(***************************************************************************)
EXTENDS RefreshFlight, FiniteSetTheorems, TLAPS

USE RefreshAssumption DEF Flights

(* The part of the types that the registry depends on.                     *)
FlightTypes == /\ registry \in [Processes -> Nat]
               /\ lead \in Seq(Callers)
               /\ bridge \in [Flights -> {"none", "pending"} \cup Outcomes]

(* A flight that is pending has been led: it has a process.                *)
LedIfPending == \A n \in Flights : bridge[n] = "pending" => n \in 1 .. Len(lead)

(* The inductive invariant.                                                *)
FlightInv == FlightTypes /\ LedIfPending /\ LiveIsRegistered

flightVars == <<registry, lead, bridge>>

-----------------------------------------------------------------------------
LEMMA ProcessType ==
    ASSUME FlightTypes, NEW n \in 1 .. Len(lead)
    PROVE  Process(n) \in Processes
BY DEF FlightTypes, Process

(* A process whose flight cannot be joined has no pending flight.          *)
LEMMA NothingPending ==
    ASSUME FlightInv, NEW p \in Processes, ~Joinable(p),
           NEW n \in Flights, bridge[n] = "pending"
    PROVE  Process(n) # p
BY DEF FlightInv, LiveIsRegistered, Joinable, BridgeDone, Outcomes

(* Only Lead, Mirror and Pop touch flights.                                *)
LEMMA StepKinds ==
    ASSUME [Next]_vars
    PROVE  \/ UNCHANGED flightVars
           \/ \E c \in Callers : Lead(c)
           \/ \E n \in Flights : Mirror(n) \/ Pop(n)
<1>1. ASSUME NEW c \in Callers, Call(c) \/ Proceed(c) \/ CancelCaller(c) \/ Deadline(c)
      PROVE  UNCHANGED flightVars \/ Lead(c)
  BY <1>1 DEF Call, Proceed, Skip, Join, Awaited, Inspect, Settled, CancelCaller, Deadline,
              workVars, flightVars
<1>2. ASSUME NEW n \in Flights, Work(n) \/ Abandon(n)
      PROVE  UNCHANGED flightVars \/ Mirror(n) \/ Pop(n)
  BY <1>2 DEF Work, TakeLock, LoseLock, CommandSucceeds, CommandFails, NoteSuccess, Release,
              ProbeHolder, ProbeEnds, ProbeTimesOut, WorkStep, Abandon, CancelLeader, StrayWrites,
              StrayFails, flightVars
<1>3. CASE UNCHANGED vars
  BY <1>3 DEF vars, workVars, flightVars
<1> QED BY <1>1, <1>2, <1>3 DEF Next

LEMMA LeadKeeps ==
    ASSUME FlightInv, NEW c \in Callers, Lead(c)
    PROVE  FlightInv'
<1> DEFINE new == Len(lead) + 1
<1> USE DEF FlightInv
<1>1. /\ lead' = Append(lead, c)
      /\ bridge' = [bridge EXCEPT ![new] = "pending"]
      /\ registry' = [registry EXCEPT ![Home[c]] = new]
      /\ ~Joinable(Home[c])
      /\ Home[c] \in Processes
  BY DEF Lead, flights
<1>2. FlightTypes'
  <2>1. Append(lead, c) \in Seq(Callers) /\ new \in Nat
    BY DEF FlightTypes
  <2>2. [registry EXCEPT ![Home[c]] = new] \in [Processes -> Nat]
    BY <1>1, <2>1 DEF FlightTypes
  <2>3. bridge' \in [Flights -> {"none", "pending"} \cup Outcomes]
    BY <1>1 DEF FlightTypes
  <2> QED BY <1>1, <2>1, <2>2, <2>3 DEF FlightTypes
<1>3. /\ Len(lead') = new
      /\ \A n \in 1 .. Len(lead) : lead'[n] = lead[n]
      /\ lead'[new] = c
  BY <1>1 DEF FlightTypes
<1>4. LedIfPending'
  BY <1>1, <1>3 DEF FlightTypes, LedIfPending
<1>5. LiveIsRegistered'
  <2> SUFFICES ASSUME NEW n \in Flights, bridge'[n] = "pending"
               PROVE  registry'[Process(n)'] = n
    BY DEF LiveIsRegistered
  <2>1. CASE n = new
    BY <1>1, <1>3, <2>1 DEF FlightTypes, Process
  <2>2. CASE n # new
    <3>1. bridge[n] = "pending" /\ n \in 1 .. Len(lead)
      BY <1>1, <2>2 DEF FlightTypes, LedIfPending
    <3>2. Process(n)' = Process(n)
      BY <1>3, <3>1 DEF Process
    <3>3. Process(n) # Home[c] /\ Process(n) \in Processes
      BY <1>1, <3>1, NothingPending, ProcessType
    <3> QED BY <1>1, <3>1, <3>2, <3>3 DEF FlightTypes, LiveIsRegistered
  <2> QED BY <2>1, <2>2
<1> QED BY <1>2, <1>4, <1>5

LEMMA MirrorKeeps ==
    ASSUME FlightInv, NEW m \in Flights, Mirror(m)
    PROVE  FlightInv'
<1> USE DEF FlightInv
<1>1. work[m] \in Outcomes
  BY DEF Mirror, TaskDone
<1>2. FlightTypes'
  BY <1>1 DEF Mirror, FlightTypes
<1>3. \A n \in Flights : bridge'[n] = "pending" => bridge[n] = "pending"
  BY <1>1 DEF Mirror, FlightTypes, Outcomes
<1>4. LedIfPending' /\ LiveIsRegistered'
  BY <1>3 DEF Mirror, LedIfPending, LiveIsRegistered, Process
<1> QED BY <1>2, <1>4

(* The flight that is popped is settled: a pending one of the same process *)
(* is another flight and keeps its registration.                           *)
LEMMA PopKeeps ==
    ASSUME FlightInv, NEW m \in Flights, Pop(m)
    PROVE  FlightInv'
<1> USE DEF FlightInv
<1>1. bridge[m] # "pending"
  BY DEF Pop, BridgeDone, Outcomes
<1>2. FlightTypes'
  BY DEF Pop, FlightTypes
<1>3. LedIfPending'
  BY DEF Pop, LedIfPending
<1>4. LiveIsRegistered'
  <2> SUFFICES ASSUME NEW n \in Flights, bridge[n] = "pending"
               PROVE  registry'[Process(n)] = n
    BY DEF Pop, LiveIsRegistered, Process
  <2>1. registry[Process(n)] = n /\ n # m /\ Process(n) \in Processes
    BY <1>1, ProcessType DEF LiveIsRegistered, LedIfPending
  <2> QED BY <2>1 DEF Pop, FlightTypes
<1> QED BY <1>2, <1>3, <1>4

-----------------------------------------------------------------------------
(* In every process, a flight that is not settled is the registered one.   *)
(* No lock is held from the claim of a flight to its removal: the theorem  *)
(* is what the comparison in the pop is for.                               *)
THEOREM LiveFlightRegistered == Spec => []LiveIsRegistered
<1>1. Init => FlightInv
  BY DEF Init, FlightInv, FlightTypes, LedIfPending, LiveIsRegistered
<1>2. FlightInv /\ [Next]_vars => FlightInv'
  <2> SUFFICES ASSUME FlightInv, [Next]_vars PROVE FlightInv'
    OBVIOUS
  <2>1. CASE UNCHANGED flightVars
    BY <2>1 DEF flightVars, FlightInv, FlightTypes, LedIfPending, LiveIsRegistered, Process
  <2> QED BY <2>1, StepKinds, LeadKeeps, MirrorKeeps, PopKeeps
<1>3. FlightInv => LiveIsRegistered
  BY DEF FlightInv
<1> QED BY <1>1, <1>2, <1>3, PTL DEF Spec

-----------------------------------------------------------------------------
(* What callers are told.  Flights are no more than calls, since a call    *)
(* leads at most one of them: Counts finds the room for the next flight.   *)
(* Ledger says what the record of a flight means, Prospect what a caller   *)
(* knows and what it may still gain by waiting.                            *)

(* The callers that may still lead a flight in their present call.         *)
Owing == {c \in Callers : \/ pc[c] = "claim"
                          \/ pc[c] \in {"await", "inspect"} /\ lead[on[c]] # c}

Counts == IsFiniteSet(Owing) /\ flights + Cardinality(Owing) <= calls

Entry(n) == /\ n > flights => work[n] = "none" /\ bridge[n] = "none"
            /\ BridgeDone(n) => bridge[n] = work[n]
            /\ work[n] \in {"written", "noted"} => n \in wrote
            /\ n \in wrote => work[n] \in {"written", "noted", "cancelled"} \/ Noted(n)
            /\ n \in stray => work[n] = "cancelled"

Ledger == \A n \in Flights : Entry(n)

NotedIn(p) == {n \in Flights : Noted(n) /\ Process(n) = p}

Gained(c) == \E n \in Flights \ past[c].settled : n \in wrote

Told(c) == \E n \in Flights \ past[c].settled :
               n \in wrote \/ (n = on[c] /\ work[n] = "returned")

(* A caller that sees no success knows every success of its process.       *)
UpToDate(c) == /\ seen[c] <= epoch[Home[c]]
               /\ Stale(c) => Gained(c)
               /\ ~Stale(c) => NotedIn(Home[c]) \subseteq past[c].noted

Prospect(c) == /\ \A n \in past[c].settled : BridgeDone(n)
               /\ pc[c] = "await" => on[c] \notin past[c].settled
               /\ pc[c] # "idle" => follows[c] < MaxFollow /\ UpToDate(c)
               /\ result[c] = "reload" /\ pc[c] = "idle" => Told(c)

Prospects == \A c \in Callers : Prospect(c)

TellInv == TypeOK /\ Counts /\ Ledger /\ Prospects

-----------------------------------------------------------------------------
(* There is room for one more flight whenever a caller may still lead one. *)
LEMMA Room ==
    ASSUME TypeOK, Counts, Owing # {}
    PROVE  flights + 1 \in Flights /\ flights + 1 <= calls
<1>1. Cardinality(Owing) \in Nat /\ Cardinality(Owing) # 0
  BY FS_CardinalityType, FS_EmptySet DEF Counts
<1>2. flights \in Nat /\ calls \in Nat /\ calls <= MaxCalls
  BY DEF TypeOK
<1> QED BY <1>1, <1>2 DEF Counts

(* Fewer callers owe less.                                                 *)
LEMMA CountsShrink ==
    ASSUME TypeOK, Counts, Owing' \subseteq Owing, flights' = flights, calls' = calls
    PROVE  Counts'
<1>1. /\ IsFiniteSet(Owing') /\ Cardinality(Owing') <= Cardinality(Owing)
      /\ Cardinality(Owing) \in Nat /\ Cardinality(Owing') \in Nat
  BY FS_Subset, FS_CardinalityType DEF Counts
<1>2. flights \in Nat /\ calls \in Nat
  BY DEF TypeOK
<1> QED BY <1>1, <1>2 DEF Counts

-----------------------------------------------------------------------------
(* Steps of a caller that leave the flights alone.                         *)
still == <<epoch, registry, flock, workVars>>

(* The caller's own variables are the only ones that may change.           *)
Only(c) == \A d \in Callers \ {c} :
    /\ pc'[d] = pc[d] /\ seen'[d] = seen[d] /\ on'[d] = on[d]
    /\ follows'[d] = follows[d] /\ result'[d] = result[d] /\ past'[d] = past[d]

LEMMA LedgerStill ==
    ASSUME Ledger, UNCHANGED still
    PROVE  Ledger'
BY DEF Ledger, Entry, still, workVars, BridgeDone, flights, Noted

LEMMA OthersKeep ==
    ASSUME Prospects, UNCHANGED still, NEW c \in Callers, Only(c), NEW d \in Callers \ {c}
    PROVE  Prospect(d)'
<1>1. Prospect(d)
  BY DEF Prospects
<1> QED BY <1>1 DEF Prospect, UpToDate, Stale, Gained, Told, NotedIn, Noted, Process, BridgeDone,
                    still, workVars, Only

LEMMA CallKeeps ==
    ASSUME TellInv, NEW c \in Callers, Call(c)
    PROVE  TellInv'
<1> DEFINE now == [settled |-> {n \in Flights : BridgeDone(n)}, noted |-> {n \in Flights : Noted(n)}]
<1>1. /\ TypeOK /\ Counts /\ Ledger /\ Prospects
      /\ Home[c] \in Processes
  BY DEF TellInv
<1>2. /\ UNCHANGED still /\ on' = on /\ calls' = calls + 1 /\ calls < MaxCalls
      /\ seen' = [seen EXCEPT ![c] = epoch[Home[c]]]
      /\ follows' = [follows EXCEPT ![c] = 0]
      /\ result' = [result EXCEPT ![c] = "none"]
      /\ past' = [past EXCEPT ![c] = now]
      /\ pc' = [pc EXCEPT ![c] = "claim"]
      /\ pc[c] = "idle"
  BY DEF Call, still, Goto
<1>3. TypeOK'
  <2>1. now \in [settled : SUBSET Flights, noted : SUBSET Flights]
    OBVIOUS
  <2>2. past' \in [Callers -> [settled : SUBSET Flights, noted : SUBSET Flights]]
    BY <1>1, <1>2, <2>1 DEF TypeOK
  <2> HIDE DEF now
  <2>3. /\ pc' \in [Callers -> {"idle", "claim", "await", "inspect", "settling"}]
        /\ seen' \in [Callers -> Nat]
        /\ follows' \in [Callers -> 0 .. MaxFollow]
        /\ result' \in [Callers -> {"none", "reload", "raised", "cancelled", "timeout"}]
        /\ calls' \in 0 .. MaxCalls
    BY <1>1, <1>2 DEF TypeOK
  <2>4. flights \in 0 .. calls'
    BY <1>1, <1>2 DEF TypeOK
  <2>5. \A d \in Callers : pc'[d] \in {"await", "inspect", "settling"} => on'[d] # 0
    BY <1>1, <1>2 DEF TypeOK
  <2> QED BY <1>1, <1>2, <2>2, <2>3, <2>4, <2>5 DEF TypeOK, still, workVars, flights
<1>4. Only(c)
  BY <1>1, <1>2 DEF TypeOK, Only
<1>5. Prospect(c)'
  <2>1. /\ past'[c] = now /\ pc'[c] = "claim" /\ follows'[c] = 0 /\ result'[c] = "none"
        /\ seen'[c] = epoch'[Home[c]] /\ epoch'[Home[c]] \in Nat
        /\ bridge' = bridge /\ work' = work /\ wrote' = wrote /\ lead' = lead
    BY <1>1, <1>2 DEF TypeOK, still, workVars
  <2>2. UpToDate(c)'
    BY <2>1 DEF UpToDate, Stale, NotedIn, Noted, Process
  <2> QED BY <2>1, <2>2 DEF Prospect, BridgeDone
<1>6. Prospects'
  BY <1>1, <1>2, <1>4, <1>5, OthersKeep DEF Prospects
<1>7. Counts'
  <2>1. Owing' = Owing \cup {c} /\ c \notin Owing
    BY <1>1, <1>2 DEF Owing, TypeOK, still, workVars
  <2>2. /\ IsFiniteSet(Owing') /\ Cardinality(Owing') = Cardinality(Owing) + 1
        /\ Cardinality(Owing) \in Nat
    BY <1>1, <2>1, FS_AddElement, FS_CardinalityType DEF Counts
  <2>3. flights' = flights /\ flights \in Nat /\ calls \in Nat
    BY <1>1, <1>2 DEF TypeOK, still, workVars, flights
  <2> QED BY <1>1, <1>2, <2>2, <2>3 DEF Counts
<1> QED BY <1>1, <1>2, <1>3, <1>6, <1>7, LedgerStill DEF TellInv

(* What a step of a caller has to show for itself.                         *)
LEMMA MoveKeeps ==
    ASSUME TellInv, NEW c \in Callers, UNCHANGED still, UNCHANGED calls, Only(c),
           TypeOK', Owing' \subseteq Owing, Prospect(c)'
    PROVE  TellInv'
<1>1. Counts'
  BY CountsShrink DEF TellInv, still, workVars, flights
<1>2. Prospects'
  BY OthersKeep DEF TellInv, Prospects
<1> QED BY <1>1, <1>2, LedgerStill DEF TellInv

(* A caller that skips its command or reads the epoch again after a        *)
(* failure has seen a success that was none when it came.                  *)
LEMMA GainedIsTold ==
    ASSUME NEW c \in Callers, Prospect(c), pc[c] # "idle", Stale(c)
    PROVE  Told(c)
BY DEF Prospect, UpToDate, Gained, Told

LEMMA EndKeeps ==
    ASSUME TellInv, NEW c \in Callers, NEW how \in {"reload", "raised", "cancelled", "timeout"},
           End(c, how), UNCHANGED <<still, calls, seen, on, past>>,
           follows' \in [Callers -> 0 .. MaxFollow], \A d \in Callers \ {c} : follows'[d] = follows[d],
           pc[c] # "idle", how = "reload" => Told(c)
    PROVE  TellInv'
<1>1. TypeOK /\ Counts /\ Ledger /\ Prospects
  BY DEF TellInv
<1>2. /\ pc' = [pc EXCEPT ![c] = "idle"]
      /\ result' = [result EXCEPT ![c] = how]
      /\ UNCHANGED still /\ UNCHANGED <<calls, seen, on, past>>
      /\ lead' = lead /\ work' = work /\ bridge' = bridge /\ wrote' = wrote
  BY DEF End, Goto, still, workVars
<1>3. TypeOK'
  <2>1. /\ pc' \in [Callers -> {"idle", "claim", "await", "inspect", "settling"}]
        /\ result' \in [Callers -> {"none", "reload", "raised", "cancelled", "timeout"}]
        /\ \A d \in Callers : pc'[d] \in {"await", "inspect", "settling"} => on[d] # 0
    BY <1>1, <1>2 DEF TypeOK
  <2> QED BY <1>1, <1>2, <2>1 DEF TypeOK, still, workVars, flights
<1>4. Only(c)
  BY <1>1, <1>2 DEF TypeOK, Only
<1>5. Owing' \subseteq Owing
  BY <1>1, <1>2 DEF Owing, TypeOK
<1>6. Prospect(c)'
  <2>1. pc'[c] = "idle" /\ result'[c] = how
    BY <1>1, <1>2 DEF TypeOK
  <2>2. how = "reload" => Told(c)'
    BY <1>2 DEF Told
  <2>3. \A n \in past'[c].settled : BridgeDone(n)'
    BY <1>1, <1>2 DEF Prospects, Prospect, BridgeDone
  <2> QED BY <2>1, <2>2, <2>3 DEF Prospect
<1> QED BY <1>2, <1>3, <1>4, <1>5, <1>6, MoveKeeps

(* A caller goes on waiting, for the same call.                            *)
LEMMA StayKeeps ==
    ASSUME TellInv, NEW c \in Callers, NEW label \in {"claim", "await", "inspect", "settling"},
           Goto(c, label), UNCHANGED <<still, calls, seen, result, past>>,
           NEW n \in 1 .. flights, on' = [on EXCEPT ![c] = n], label = "await" => ~BridgeDone(n),
           NEW k \in Nat, k < MaxFollow, follows' = [follows EXCEPT ![c] = k],
           pc[c] # "idle", c \in Owing' => c \in Owing
    PROVE  TellInv'
<1>1. TypeOK /\ Counts /\ Ledger /\ Prospects
  BY DEF TellInv
<1>2. /\ pc' = [pc EXCEPT ![c] = label]
      /\ UNCHANGED still /\ UNCHANGED <<calls, seen, result, past>>
      /\ lead' = lead /\ work' = work /\ bridge' = bridge /\ wrote' = wrote
  BY DEF Goto, still, workVars
<1>3. TypeOK'
  <2>1. /\ pc' \in [Callers -> {"idle", "claim", "await", "inspect", "settling"}]
        /\ on' \in [Callers -> 0 .. flights]
        /\ \A d \in Callers : pc'[d] \in {"await", "inspect", "settling"} => on'[d] # 0
    BY <1>1, <1>2 DEF TypeOK
  <2>2. follows' \in [Callers -> 0 .. MaxFollow]
    BY <1>1 DEF TypeOK
  <2> QED BY <1>1, <1>2, <2>1, <2>2 DEF TypeOK, still, workVars, flights
<1>4. Only(c)
  BY <1>1, <1>2 DEF TypeOK, Only
<1>5. Owing' \subseteq Owing
  BY <1>1, <1>2, <1>4 DEF Owing, TypeOK, Only
<1>6. Prospect(c)'
  <2>1. pc'[c] = label /\ on'[c] = n /\ follows'[c] = k
    BY <1>1, <1>2 DEF TypeOK
  <2>2. UpToDate(c) /\ \A m \in past[c].settled : BridgeDone(m)
    BY <1>1 DEF Prospects, Prospect
  <2>3. UpToDate(c)' /\ \A m \in past'[c].settled : BridgeDone(m)'
    BY <1>2, <2>2 DEF UpToDate, Stale, Gained, NotedIn, Noted, Process, BridgeDone, still
  <2> QED BY <1>2, <2>1, <2>2, <2>3 DEF Prospect
<1> QED BY <1>2, <1>3, <1>4, <1>5, <1>6, MoveKeeps

LEMMA SkipKeeps ==
    ASSUME TellInv, NEW c \in Callers, Skip(c)
    PROVE  TellInv'
<1>1. Prospect(c) /\ follows \in [Callers -> 0 .. MaxFollow]
  BY DEF TellInv, Prospects, TypeOK
<1>2. /\ pc[c] = "claim" /\ Stale(c) /\ End(c, "reload")
      /\ UNCHANGED <<still, calls, seen, on, past>> /\ follows' = follows
  BY DEF Skip, still
<1>3. Told(c)
  BY <1>1, <1>2, GainedIsTold
<1> QED BY <1>1, <1>2, <1>3, EndKeeps

LEMMA JoinKeeps ==
    ASSUME TellInv, NEW c \in Callers, Join(c)
    PROVE  TellInv'
<1> DEFINE n == registry[Home[c]]
<1>1. TypeOK /\ Prospect(c) /\ Home[c] \in Processes
  BY DEF TellInv, Prospects
<1>2. /\ pc[c] = "claim" /\ Goto(c, "await") /\ on' = [on EXCEPT ![c] = n]
      /\ n # 0 /\ ~BridgeDone(n)
      /\ UNCHANGED <<still, calls, seen, result, past>> /\ follows' = follows
  BY DEF Join, Joinable, still
<1>3. n \in 1 .. flights
  BY <1>1, <1>2 DEF TypeOK
<1>4. /\ follows[c] \in Nat /\ follows[c] < MaxFollow
      /\ follows' = [follows EXCEPT ![c] = follows[c]]
  BY <1>1, <1>2 DEF TypeOK, Prospect
<1>5. c \in Owing
  BY <1>2 DEF Owing
<1> HIDE DEF n
<1> QED BY <1>2, <1>3, <1>4, <1>5, StayKeeps

(* What a caller finds on whatever flight it awaits.                       *)
LEMMA AwaitedFlight ==
    ASSUME TellInv, NEW c \in Callers, pc[c] \in {"await", "inspect", "settling"}
    PROVE  /\ on[c] \in 1 .. flights /\ on[c] \in Flights
           /\ on = [on EXCEPT ![c] = on[c]] /\ follows = [follows EXCEPT ![c] = follows[c]]
           /\ follows \in [Callers -> 0 .. MaxFollow] /\ follows[c] \in Nat /\ follows[c] < MaxFollow
           /\ Prospect(c) /\ Entry(on[c])
<1>1. TypeOK /\ Prospect(c) /\ Ledger
  BY DEF TellInv, Prospects
<1>2. on[c] \in 1 .. flights /\ on[c] \in Flights
  BY <1>1 DEF TypeOK
<1>3. /\ on = [on EXCEPT ![c] = on[c]] /\ follows = [follows EXCEPT ![c] = follows[c]]
      /\ follows \in [Callers -> 0 .. MaxFollow] /\ follows[c] \in Nat
  BY <1>1 DEF TypeOK
<1>4. follows[c] < MaxFollow
  BY <1>1 DEF Prospect
<1> QED BY <1>1, <1>2, <1>3, <1>4 DEF Ledger

LEMMA AwaitedKeeps ==
    ASSUME TellInv, NEW c \in Callers, Awaited(c)
    PROVE  TellInv'
<1>1. /\ pc[c] = "await" /\ UNCHANGED <<still, calls, seen, on, past>> /\ follows' = follows
  BY DEF Awaited, still
<1>2. CASE bridge[on[c]] = "returned" /\ End(c, "reload")
  <2>1. Told(c)
    BY <1>1, <1>2, AwaitedFlight DEF Told, Prospect, Entry, BridgeDone, Outcomes
  <2> QED BY <1>1, <1>2, <2>1, AwaitedFlight, EndKeeps
<1>3. CASE bridge[on[c]] = "cancelled" /\ End(c, "cancelled")
  BY <1>1, <1>3, AwaitedFlight, EndKeeps
<1>4. CASE Goto(c, "inspect") /\ UNCHANGED result
  <2>1. c \in Owing' => c \in Owing
    BY <1>1, <1>4, AwaitedFlight DEF Owing, still, workVars, Goto, TellInv, TypeOK
  <2> QED BY <1>1, <1>4, <2>1, AwaitedFlight, StayKeeps
<1> QED BY <1>2, <1>3, <1>4 DEF Awaited

LEMMA InspectKeeps ==
    ASSUME TellInv, NEW c \in Callers, Inspect(c)
    PROVE  TellInv'
<1>1. /\ pc[c] = "inspect" /\ UNCHANGED <<still, calls, seen, on, past>>
  BY DEF Inspect, still
<1>2. CASE Stale(c)
  <2>1. Told(c)
    BY <1>1, <1>2, AwaitedFlight, GainedIsTold
  <2>2. End(c, "reload") /\ follows' = follows
    BY <1>2 DEF Inspect
  <2> QED BY <1>1, <2>1, <2>2, AwaitedFlight, EndKeeps
<1>3. CASE ~Stale(c) /\ lead[on[c]] = c
  <2>1. End(c, "raised") /\ follows' = follows
    BY <1>3 DEF Inspect
  <2> QED BY <1>1, <2>1, AwaitedFlight, EndKeeps
<1>4. CASE ~Stale(c) /\ lead[on[c]] # c
  <2> DEFINE k == follows[c] + 1
  <2>1. /\ follows' = [follows EXCEPT ![c] = k] /\ k \in 0 .. MaxFollow
        /\ follows'[c] = k /\ follows' \in [Callers -> 0 .. MaxFollow]
        /\ \A d \in Callers \ {c} : follows'[d] = follows[d]
    <3>1. follows' = [follows EXCEPT ![c] = k]
      BY <1>4 DEF Inspect
    <3>2. k \in 0 .. MaxFollow /\ follows \in [Callers -> 0 .. MaxFollow]
      BY <1>1, AwaitedFlight
    <3> QED BY <3>1, <3>2
  <2>2. CASE k = MaxFollow
    <3>1. End(c, "raised")
      BY <1>4, <2>1, <2>2 DEF Inspect
    <3> QED BY <1>1, <2>1, <3>1, EndKeeps
  <2>3. CASE k # MaxFollow
    <3>1. Goto(c, "claim") /\ UNCHANGED result
      BY <1>4, <2>1, <2>3 DEF Inspect
    <3>2. c \in Owing
      BY <1>1, <1>4 DEF Owing
    <3>3. k \in Nat /\ k < MaxFollow /\ on' = [on EXCEPT ![c] = on[c]]
      BY <1>1, <2>1, <2>3, AwaitedFlight
    <3> HIDE DEF k
    <3> QED BY <1>1, <2>1, <3>1, <3>2, <3>3, AwaitedFlight, StayKeeps
  <2> QED BY <2>2, <2>3
<1> QED BY <1>2, <1>3, <1>4

(* Cancellation and the deadline.                                          *)
LEMMA LeaveKeeps ==
    ASSUME TellInv, NEW c \in Callers, Settled(c) \/ CancelCaller(c) \/ Deadline(c)
    PROVE  TellInv'
<1>1. /\ pc[c] \in {"await", "settling"}
      /\ UNCHANGED <<still, calls, seen, on, past>> /\ follows' = follows
      /\ \/ End(c, "cancelled")
         \/ End(c, "timeout")
         \/ Goto(c, "settling") /\ UNCHANGED result
  BY DEF Settled, CancelCaller, Deadline, still
<1>2. CASE End(c, "cancelled") \/ End(c, "timeout")
  BY <1>1, <1>2, AwaitedFlight, EndKeeps
<1>3. CASE Goto(c, "settling") /\ UNCHANGED result
  <2>1. c \notin Owing'
    BY <1>3 DEF Owing, Goto, TellInv, TypeOK
  <2> QED BY <1>1, <1>3, <2>1, AwaitedFlight, StayKeeps
<1> QED BY <1>1, <1>2, <1>3

-----------------------------------------------------------------------------
(* Steps of flights.  What a caller knows and may gain survives whatever   *)
(* settles no flight twice, unwrites nothing, and notes a success only for *)
(* a flight that wrote and is not settled.                                 *)
LEMMA Prospers ==
    ASSUME NEW d \in Callers, Prospect(d), TypeOK,
           seen'[d] = seen[d], past'[d] = past[d], follows'[d] = follows[d], result'[d] = result[d],
           \/ pc'[d] = pc[d] /\ on'[d] = on[d]
           \/ pc[d] # "idle" /\ pc'[d] = "await" /\ on'[d] \notin past[d].settled,
           \A n \in Flights : BridgeDone(n) => BridgeDone(n)',
           \A n \in Flights : work[n] = "returned" => work'[n] = "returned",
           wrote \subseteq wrote',
           \/ epoch'[Home[d]] = epoch[Home[d]] /\ NotedIn(Home[d])' \subseteq NotedIn(Home[d])
           \/ /\ epoch'[Home[d]] = epoch[Home[d]] + 1
              /\ \E n \in Flights : n \in wrote /\ ~BridgeDone(n)
    PROVE  Prospect(d)'
<1>1. /\ Home[d] \in Processes /\ epoch[Home[d]] \in Nat /\ seen[d] \in Nat
      /\ past[d].settled \subseteq Flights
  BY DEF TypeOK
<1>2. \A n \in past'[d].settled : BridgeDone(n)'
  BY <1>1 DEF Prospect
<1>3. pc'[d] = "await" => on'[d] \notin past'[d].settled
  BY DEF Prospect
<1>4. ASSUME pc'[d] # "idle"
      PROVE  follows'[d] < MaxFollow /\ UpToDate(d)'
  <2>1. pc[d] # "idle" /\ UpToDate(d) /\ follows'[d] < MaxFollow
    BY <1>4 DEF Prospect
  <2>2. Gained(d) => Gained(d)'
    BY DEF Gained
  <2>3. CASE epoch'[Home[d]] = epoch[Home[d]] /\ NotedIn(Home[d])' \subseteq NotedIn(Home[d])
    BY <2>1, <2>2, <2>3 DEF UpToDate, Stale
  <2>4. CASE /\ epoch'[Home[d]] = epoch[Home[d]] + 1
             /\ \E n \in Flights : n \in wrote /\ ~BridgeDone(n)
    <3>1. Gained(d)'
      BY <2>4 DEF Prospect, Gained
    <3>2. Stale(d)' /\ seen'[d] <= epoch'[Home[d]]
      BY <1>1, <2>1, <2>4 DEF UpToDate, Stale
    <3> QED BY <2>1, <3>1, <3>2 DEF UpToDate
  <2> QED BY <2>1, <2>3, <2>4
<1>5. result'[d] = "reload" /\ pc'[d] = "idle" => Told(d)'
  BY DEF Prospect, Told
<1> QED BY <1>2, <1>3, <1>4, <1>5 DEF Prospect

LEMMA LeadTells ==
    ASSUME TellInv, NEW c \in Callers, Lead(c)
    PROVE  TellInv'
<1> DEFINE n == Len(lead) + 1
<1>0. TypeOK /\ Counts /\ Ledger /\ Prospects /\ Home[c] \in Processes
  BY DEF TellInv
<1>1. TypeOK /\ Counts /\ Ledger /\ Prospects /\ Home[c] \in Processes /\ Len(lead) \in Nat
  BY <1>0 DEF TypeOK
<1>2. /\ pc[c] = "claim" /\ pc' = [pc EXCEPT ![c] = "await"]
      /\ lead' = Append(lead, c)
      /\ work' = [work EXCEPT ![n] = "created"]
      /\ bridge' = [bridge EXCEPT ![n] = "pending"]
      /\ registry' = [registry EXCEPT ![Home[c]] = n]
      /\ on' = [on EXCEPT ![c] = n]
      /\ UNCHANGED <<epoch, popped, wrote, stray, flock, calls, seen, follows, result, past>>
  BY DEF Lead, flights, Goto
<1>3. n \in Flights /\ n <= calls /\ n \in Nat
  <2>1. c \in Owing
    BY <1>2 DEF Owing
  <2> QED BY <1>1, <2>1, Room DEF flights
<1>4. /\ Len(lead') = n /\ lead'[n] = c
      /\ \A m \in 1 .. Len(lead) : lead'[m] = lead[m]
  BY <1>1, <1>2 DEF TypeOK
<1>5. work[n] = "none" /\ bridge[n] = "none" /\ n \notin wrote /\ n \notin stray
  BY <1>1, <1>3 DEF Ledger, Entry, flights, Noted
<1> HIDE DEF n
<1>6. TypeOK'
  <2>1. /\ registry' \in [Processes -> 0 .. n]
        /\ lead' \in Seq(Callers)
        /\ n \in 0 .. calls
        /\ flock \in 0 .. n
        /\ on' \in [Callers -> 0 .. n]
    BY <1>1, <1>2, <1>3 DEF TypeOK, flights, n
  <2>2. /\ work' \in [Flights -> {"none", "created", "running", "lost", "written", "noted", "probing"}
                                 \cup Outcomes]
        /\ bridge' \in [Flights -> {"none", "pending"} \cup Outcomes]
        /\ pc' \in [Callers -> {"idle", "claim", "await", "inspect", "settling"}]
    BY <1>1, <1>2, <1>3 DEF TypeOK
  <2>3. \A d \in Callers : pc'[d] \in {"await", "inspect", "settling"} => on'[d] # 0
    BY <1>1, <1>2, <1>3 DEF TypeOK, n
  <2> QED BY <1>1, <1>2, <1>4, <2>1, <2>2, <2>3 DEF TypeOK, flights
<1>7. Counts'
  <2>1. Owing' = Owing \ {c} /\ c \in Owing
    <3>1. c \in Owing /\ c \notin Owing'
      BY <1>1, <1>2, <1>4 DEF Owing, TypeOK
    <3>2. ASSUME NEW d \in Callers \ {c}
          PROVE  d \in Owing' <=> d \in Owing
      <4>1. pc'[d] = pc[d] /\ on'[d] = on[d]
        BY <1>1, <1>2 DEF TypeOK
      <4>2. pc[d] \in {"await", "inspect"} => on[d] \in 1 .. Len(lead)
        BY <1>1 DEF TypeOK, flights
      <4> QED BY <1>4, <4>1, <4>2 DEF Owing
    <3> QED BY <3>1, <3>2 DEF Owing
  <2>2. /\ IsFiniteSet(Owing') /\ Cardinality(Owing') = Cardinality(Owing) - 1
        /\ Cardinality(Owing) \in Nat
    BY <1>1, <2>1, FS_RemoveElement, FS_CardinalityType DEF Counts
  <2>3. Len(lead) + Cardinality(Owing) <= calls /\ calls \in Nat
    BY <1>1 DEF Counts, flights, TypeOK
  <2>4. n + Cardinality(Owing') <= calls'
    BY <1>1, <1>2, <2>2, <2>3 DEF n
  <2> QED BY <1>4, <2>2, <2>4 DEF Counts, flights
<1>8. Ledger'
  <2> SUFFICES ASSUME NEW m \in Flights PROVE Entry(m)'
    BY DEF Ledger
  <2>1. Entry(m)
    BY <1>1 DEF Ledger
  <2>2. CASE m = n
    BY <1>1, <1>2, <1>3, <1>4, <1>5, <2>2 DEF Entry, BridgeDone, Noted, Outcomes, TypeOK, flights
  <2>3. CASE m # n
    <3>1. work'[m] = work[m] /\ bridge'[m] = bridge[m]
      BY <1>1, <1>2, <2>3 DEF TypeOK
    <3>2. m > Len(lead') => m > Len(lead)
      BY <1>1, <1>4 DEF n
    <3> QED BY <1>2, <2>1, <3>1, <3>2 DEF Entry, BridgeDone, Noted, flights
  <2> QED BY <2>2, <2>3
<1>9. Prospects'
  <2>1. \A m \in Flights : /\ BridgeDone(m) => BridgeDone(m)'
                           /\ work[m] = "returned" => work'[m] = "returned"
    BY <1>1, <1>2, <1>5 DEF TypeOK, BridgeDone, Outcomes
  <2>2. \A p : NotedIn(p)' \subseteq NotedIn(p)
    <3> SUFFICES ASSUME NEW p, NEW m \in NotedIn(p)' PROVE m \in NotedIn(p)
      OBVIOUS
    <3>1. m \in Flights /\ Noted(m)' /\ Process(m)' = p
      BY DEF NotedIn
    <3>2. m # n /\ m \in wrote /\ work'[m] = work[m] /\ Noted(m)
      BY <1>1, <1>2, <1>5, <3>1 DEF Noted, TypeOK
    <3>3. m \in 1 .. Len(lead)
      BY <1>1, <3>1, <3>2 DEF Ledger, Entry, flights, Noted
    <3> QED BY <1>4, <3>1, <3>2, <3>3 DEF NotedIn, Process
  <2>3. ASSUME NEW d \in Callers
        PROVE  \/ pc'[d] = pc[d] /\ on'[d] = on[d]
               \/ pc[d] # "idle" /\ pc'[d] = "await" /\ on'[d] \notin past[d].settled
    <3>1. CASE d = c
      <4>1. n \notin past[c].settled
        BY <1>1, <1>5 DEF Prospects, Prospect, BridgeDone, Outcomes
      <4> QED BY <1>1, <1>2, <3>1, <4>1 DEF TypeOK
    <3>2. CASE d # c
      BY <1>1, <1>2, <3>2 DEF TypeOK
    <3> QED BY <3>1, <3>2
  <2> QED BY <1>1, <1>2, <2>1, <2>2, <2>3, Prospers DEF Prospects
<1> QED BY <1>6, <1>7, <1>8, <1>9 DEF TellInv

(* A step of a leader task.  Only the last one, its cancellation, may      *)
(* leave a command behind.                                                 *)
Before == {"created", "running", "lost", "written", "noted", "probing"}
After == {"running", "lost", "written", "noted", "probing"} \cup Outcomes

LEMMA WorkTells ==
    ASSUME TellInv, NEW n \in Flights, NEW from \in Before, NEW to \in After,
           work[n] = from, work' = [work EXCEPT ![n] = to],
           UNCHANGED <<registry, lead, bridge, popped, callVars>>, flock' \in {0, n, flock},
           stray' = stray \/ (to = "cancelled" /\ stray' = stray \cup {n}),
           wrote' \in {wrote, wrote \cup {n}}, n \in wrote' <=> to \in {"written", "noted"} \/ Noted(n)',
           \/ epoch' = epoch /\ (Noted(n)' => Noted(n))
           \/ n \in wrote /\ epoch' = [epoch EXCEPT ![Process(n)] = @ + 1]
    PROVE  TellInv'
<1>1. TypeOK /\ Counts /\ Ledger /\ Prospects
  BY DEF TellInv
<1>2. /\ work[n] = from /\ work' = [work EXCEPT ![n] = to]
      /\ UNCHANGED <<registry, lead, bridge, popped, calls, pc, seen, on, follows, result, past>>
  BY DEF callVars
<1>3. work[n] # "none" /\ ~BridgeDone(n) /\ work[n] # "returned"
  BY <1>1, <1>2 DEF Ledger, Entry, Before, Outcomes, BridgeDone
<1>4. n \in 1 .. Len(lead) /\ Process(n) \in Processes
  <2>1. n \in 1 .. Len(lead)
    <3>1. Len(lead) \in Nat
      BY <1>1 DEF TypeOK
    <3> QED BY <1>1, <1>3, <3>1 DEF Ledger, Entry, flights
  <2>2. lead \in Seq(Callers)
    BY <1>1 DEF TypeOK
  <2>3. lead[n] \in Callers
    BY <2>1, <2>2
  <2> QED BY <2>1, <2>3 DEF Process
<1>5. TypeOK'
  <2>1. /\ work' \in [Flights -> {"none", "created", "running", "lost", "written", "noted", "probing"}
                                 \cup Outcomes]
        /\ epoch' \in [Processes -> Nat]
        /\ wrote' \subseteq Flights /\ stray' \subseteq Flights
    <3>1. /\ work \in [Flights -> {"none", "created", "running", "lost", "written", "noted",
                                  "probing"} \cup Outcomes]
          /\ epoch \in [Processes -> Nat] /\ wrote \subseteq Flights /\ stray \subseteq Flights
      BY <1>1 DEF TypeOK
    <3>2. epoch' \in [Processes -> Nat]
      BY <1>4, <3>1
    <3> QED BY <1>2, <3>1, <3>2 DEF After
  <2>2. flock' \in 0 .. flights
    <3>1. flights \in Nat /\ flock \in 0 .. flights
      BY <1>1 DEF TypeOK
    <3> QED BY <1>4, <3>1 DEF flights
  <2> QED BY <1>1, <1>2, <2>1, <2>2 DEF TypeOK, flights
<1>6. Counts'
  <2>1. Owing' = Owing
    BY <1>2 DEF Owing
  <2> QED BY <1>1, <1>2, <2>1, CountsShrink DEF flights
<1>7. Ledger'
  <2> SUFFICES ASSUME NEW m \in Flights PROVE Entry(m)'
    BY DEF Ledger
  <2>1. Entry(m) /\ bridge'[m] = bridge[m] /\ Len(lead') = Len(lead)
    BY <1>1, <1>2 DEF Ledger
  <2>2. CASE m = n
    <3>1. work'[n] = to
      BY <1>1, <1>2 DEF TypeOK
    <3>2. ~(n > flights)'
      BY <1>1, <1>2, <1>4 DEF flights, TypeOK
    <3>3. n \in stray' => to = "cancelled"
      BY <1>1, <1>2, <2>1, <2>2 DEF Entry, Before
    <3> QED BY <1>2, <1>3, <2>2, <3>1, <3>2, <3>3 DEF Entry, BridgeDone
  <2>3. CASE m # n
    <3>1. work'[m] = work[m] /\ (m \in wrote' <=> m \in wrote) /\ (m \in stray' <=> m \in stray)
      BY <1>1, <1>2, <2>3 DEF TypeOK
    <3> QED BY <2>1, <3>1 DEF Entry, BridgeDone, Noted, flights
  <2> QED BY <2>2, <2>3
<1>8. Prospects'
  <2>1. \A m \in Flights : /\ BridgeDone(m) => BridgeDone(m)'
                           /\ work[m] = "returned" => work'[m] = "returned"
    BY <1>1, <1>2, <1>3 DEF TypeOK, BridgeDone
  <2>2. ASSUME NEW p, Process(n) = p => (Noted(n)' => Noted(n))
        PROVE  NotedIn(p)' \subseteq NotedIn(p)
    <3>1. \A m \in Flights \ {n} : Noted(m)' => Noted(m)
      BY <1>1, <1>2 DEF TypeOK, Noted
    <3>2. \A m \in Flights : Process(m)' = Process(m)
      BY <1>2 DEF Process
    <3> QED BY <2>2, <3>1, <3>2 DEF NotedIn
  <2>3. ASSUME NEW d \in Callers
        PROVE  \/ epoch'[Home[d]] = epoch[Home[d]] /\ NotedIn(Home[d])' \subseteq NotedIn(Home[d])
               \/ /\ epoch'[Home[d]] = epoch[Home[d]] + 1
                  /\ \E m \in Flights : m \in wrote /\ ~BridgeDone(m)
    <3>1. CASE epoch' = epoch /\ (Noted(n)' => Noted(n))
      BY <2>2, <3>1
    <3>2. CASE n \in wrote /\ epoch' = [epoch EXCEPT ![Process(n)] = @ + 1]
      <4>1. CASE Process(n) = Home[d]
        BY <1>1, <1>3, <1>4, <3>2, <4>1 DEF TypeOK
      <4>2. CASE Process(n) # Home[d]
        BY <1>1, <2>2, <3>2, <4>2 DEF TypeOK
      <4> QED BY <4>1, <4>2
    <3> QED BY <3>1, <3>2
  <2> QED BY <1>1, <1>2, <2>1, <2>3, Prospers DEF Prospects
<1> QED BY <1>5, <1>6, <1>7, <1>8 DEF TellInv

(* A command without its leader touches the stored cookies and no more: no *)
(* flight is noted or settled by it.                                       *)
LEMMA StrayTells ==
    ASSUME TellInv, NEW n \in Flights, StrayWrites(n) \/ StrayFails(n)
    PROVE  TellInv'
<1>1. TypeOK /\ Counts /\ Ledger /\ Prospects
  BY DEF TellInv
<1>2. /\ n \in stray /\ stray' = stray \ {n} /\ wrote' \in {wrote, wrote \cup {n}}
      /\ UNCHANGED <<epoch, registry, flock, lead, work, bridge, popped, calls, pc, seen, on, follows,
                     result, past>>
  BY DEF StrayWrites, StrayFails, callVars
<1>3. work[n] = "cancelled"
  BY <1>1, <1>2 DEF Ledger, Entry
<1>4. TypeOK'
  BY <1>1, <1>2 DEF TypeOK, flights
<1>5. Counts'
  <2>1. Owing' = Owing
    BY <1>2 DEF Owing
  <2> QED BY <1>1, <1>2, <2>1, CountsShrink DEF flights
<1>6. Ledger'
  <2> SUFFICES ASSUME NEW m \in Flights PROVE Entry(m)'
    BY DEF Ledger
  <2>1. Entry(m)
    BY <1>1 DEF Ledger
  <2> QED BY <1>2, <1>3, <2>1 DEF Entry, BridgeDone, Noted, flights
<1>7. Prospects'
  <2>1. \A p : NotedIn(p)' = NotedIn(p)
    BY <1>2, <1>3 DEF NotedIn, Noted, Process
  <2> QED BY <1>1, <1>2, <2>1, Prospers DEF Prospects, BridgeDone
<1> QED BY <1>4, <1>5, <1>6, <1>7 DEF TellInv

(* Every step of a leader task is one of these.                            *)
LEMMA LeaderTells ==
    ASSUME TellInv, NEW n \in Flights, Work(n) \/ Abandon(n)
    PROVE  TellInv' \/ Mirror(n) \/ Pop(n)
<1>1. Entry(n)
  BY DEF TellInv, Ledger
<1> USE DEF Before, After, Outcomes
<1>2. CASE TakeLock(n)
  <2>1. ~Noted(n) /\ ~Noted(n)' /\ n \notin wrote
    BY <1>1, <1>2 DEF TakeLock, WorkStep, Noted, Entry, TellInv, TypeOK
  <2> QED BY <1>2, <2>1, WorkTells DEF TakeLock, WorkStep
<1>3. CASE LoseLock(n)
  <2>1. ~Noted(n) /\ ~Noted(n)' /\ n \notin wrote
    BY <1>1, <1>3 DEF LoseLock, WorkStep, Noted, Entry, TellInv, TypeOK
  <2> QED BY <1>3, <2>1, WorkTells DEF LoseLock, WorkStep
<1>4. CASE CommandSucceeds(n)
  <2>1. ~Noted(n) /\ ~Noted(n)'
    BY <1>1, <1>4 DEF CommandSucceeds, WorkStep, Noted, Entry, TellInv, TypeOK
  <2> QED BY <1>4, <2>1, WorkTells DEF CommandSucceeds, WorkStep
<1>5. CASE CommandFails(n)
  <2>1. ~Noted(n) /\ ~Noted(n)' /\ n \notin wrote
    BY <1>1, <1>5 DEF CommandFails, WorkStep, Noted, Entry, TellInv, TypeOK
  <2> QED BY <1>5, <2>1, WorkTells DEF CommandFails, WorkStep
<1>6. CASE NoteSuccess(n)
  <2>1. n \in wrote
    BY <1>1, <1>6 DEF NoteSuccess, WorkStep, Entry
  <2> QED BY <1>6, <2>1, WorkTells DEF NoteSuccess, WorkStep
<1>7. CASE Release(n)
  <2>1. Noted(n)' /\ Noted(n)
    BY <1>1, <1>7 DEF Release, WorkStep, Noted, Entry, TellInv, TypeOK
  <2> QED BY <1>1, <1>7, <2>1, WorkTells DEF Release, Entry, WorkStep, Noted
<1>8. CASE ProbeHolder(n)
  <2>1. ~Noted(n) /\ ~Noted(n)' /\ n \notin wrote
    BY <1>1, <1>8 DEF ProbeHolder, WorkStep, Noted, Entry, TellInv, TypeOK
  <2> QED BY <1>8, <2>1, WorkTells DEF ProbeHolder, WorkStep
<1>9. CASE ProbeEnds(n)
  <2>1. ~Noted(n) /\ ~Noted(n)' /\ n \notin wrote
    BY <1>1, <1>9 DEF ProbeEnds, WorkStep, Noted, Entry, TellInv, TypeOK
  <2> QED BY <1>9, <2>1, WorkTells DEF ProbeEnds, WorkStep
<1>10. CASE ProbeTimesOut(n)
  <2>1. ~Noted(n) /\ ~Noted(n)' /\ n \notin wrote
    BY <1>1, <1>10 DEF ProbeTimesOut, WorkStep, Noted, Entry, TellInv, TypeOK
  <2> QED BY <1>10, <2>1, WorkTells DEF ProbeTimesOut, WorkStep
<1>11. CASE CancelLeader(n)
  <2>1. /\ work[n] \in {"created", "running", "lost"}
        /\ work' = [work EXCEPT ![n] = "cancelled"]
        /\ UNCHANGED <<registry, lead, bridge, popped, callVars>>
        /\ flock' \in {0, n, flock} /\ wrote' = wrote /\ epoch' = epoch
        /\ stray' = stray \/ stray' = stray \cup {n}
    BY <1>11 DEF CancelLeader
  <2>2. ~Noted(n) /\ ~Noted(n)' /\ n \notin wrote
    BY <1>1, <2>1 DEF Noted, Entry, TellInv, TypeOK
  <2> QED BY <2>1, <2>2, WorkTells
<1>12. CASE StrayWrites(n) \/ StrayFails(n)
  BY <1>12, StrayTells
<1> QED BY <1>2, <1>3, <1>4, <1>5, <1>6, <1>7, <1>8, <1>9, <1>10, <1>11, <1>12 DEF Work, Abandon

(* The done callback settles the bridge with the outcome of the task.      *)
LEMMA CallbackTells ==
    ASSUME TellInv, NEW n \in Flights, Mirror(n) \/ Pop(n)
    PROVE  TellInv'
<1>1. TypeOK /\ Counts /\ Ledger /\ Prospects
  BY DEF TellInv
<1>2. UNCHANGED <<epoch, lead, work, wrote, stray, flock, calls, pc, seen, on, follows, result, past>>
  BY DEF Mirror, Pop, callVars
<1>4. /\ registry' \in [Processes -> 0 .. flights] /\ popped' \subseteq Flights
      /\ bridge' \in [Flights -> {"none", "pending"} \cup Outcomes]
  <2>1. CASE Mirror(n)
    BY <1>1, <2>1 DEF Mirror, TaskDone, TypeOK
  <2>2. CASE Pop(n)
    <3>1. /\ registry \in [Processes -> 0 .. flights] /\ popped \subseteq Flights /\ flights \in Nat
          /\ bridge \in [Flights -> {"none", "pending"} \cup Outcomes]
      BY <1>1 DEF TypeOK
    <3>2. registry' = registry \/ registry' = [registry EXCEPT ![Process(n)] = 0]
      BY <2>2 DEF Pop
    <3>3. registry' \in [Processes -> 0 .. flights]
      BY <3>1, <3>2
    <3>4. popped' = popped \cup {n} /\ bridge' = bridge
      BY <2>2 DEF Pop
    <3> QED BY <3>1, <3>3, <3>4
  <2> QED BY <2>1, <2>2
<1>5. TypeOK'
  BY <1>1, <1>2, <1>4 DEF TypeOK, flights
<1>6. \A m \in Flights : /\ bridge'[m] = bridge[m] \/ (BridgeDone(m)' /\ bridge'[m] = work[m] /\ ~(m > flights))
                         /\ BridgeDone(m) => BridgeDone(m)'
  <2>1. CASE Mirror(n)
    <3>1. /\ \A m \in Flights \ {n} : bridge'[m] = bridge[m]
          /\ bridge'[n] = work[n] /\ work[n] \in Outcomes
      BY <1>1, <2>1 DEF Mirror, TaskDone, TypeOK
    <3>2. ~(n > flights)
      BY <1>1, <3>1 DEF Ledger, Entry, Outcomes
    <3> QED BY <3>1, <3>2 DEF BridgeDone
  <2>2. CASE Pop(n)
    BY <2>2 DEF Pop, BridgeDone
  <2> QED BY <2>1, <2>2
<1>7. Counts'
  <2>1. Owing' = Owing
    BY <1>2 DEF Owing
  <2> QED BY <1>1, <1>2, <2>1, CountsShrink DEF flights
<1>8. Ledger'
  BY <1>1, <1>2, <1>6 DEF Ledger, Entry, BridgeDone, Noted, flights
<1>9. Prospects'
  <2>1. \A p : NotedIn(p)' = NotedIn(p)
    BY <1>2 DEF NotedIn, Noted, Process
  <2> QED BY <1>1, <1>2, <1>6, <2>1, Prospers DEF Prospects
<1> QED BY <1>5, <1>7, <1>8, <1>9 DEF TellInv

LEMMA InitTells ==
    ASSUME Init
    PROVE  TellInv
<1>1. TypeOK
  BY DEF Init, TypeOK, flights
<1>2. Owing = {}
  BY DEF Init, Owing
<1>3. Counts
  BY <1>2, FS_EmptySet DEF Init, Counts, flights
<1>4. Ledger
  BY DEF Init, Ledger, Entry, BridgeDone, Outcomes, Noted
<1>5. Prospects
  BY DEF Init, Prospects, Prospect
<1> QED BY <1>1, <1>3, <1>4, <1>5 DEF TellInv

LEMMA StepTells ==
    ASSUME TellInv, [Next]_vars
    PROVE  TellInv'
<1>1. ASSUME NEW c \in Callers, Call(c) \/ Proceed(c) \/ CancelCaller(c) \/ Deadline(c)
      PROVE  TellInv'
  BY <1>1, CallKeeps, SkipKeeps, JoinKeeps, LeadTells, AwaitedKeeps, InspectKeeps, LeaveKeeps
     DEF Proceed
<1>2. ASSUME NEW n \in Flights, Work(n) \/ Abandon(n)
      PROVE  TellInv'
  BY <1>2, LeaderTells, CallbackTells
<1>3. CASE UNCHANGED vars
  <2>1. UNCHANGED <<still, callVars>>
    BY <1>3 DEF vars, still
  <2>2. TypeOK' /\ Counts'
    BY <2>1 DEF still, workVars, callVars, TellInv, TypeOK, flights, Counts, Owing
  <2>3. Ledger'
    BY <2>1, LedgerStill DEF TellInv
  <2>4. Prospects'
    BY <2>1 DEF still, workVars, callVars, TellInv, Prospects, Prospect, UpToDate, Stale, Gained,
                Told, NotedIn, Noted, Process, BridgeDone
  <2> QED BY <2>2, <2>3, <2>4 DEF TellInv
<1> QED BY <1>1, <1>2, <1>3 DEF Next

THEOREM Invariance == Spec => []TellInv
<1>1. Init => TellInv
  BY InitTells
<1>2. TellInv /\ [Next]_vars => TellInv'
  BY StepTells
<1> QED BY <1>1, <1>2, PTL DEF Spec

-----------------------------------------------------------------------------
(* Every variable keeps its range; in particular a call leads at most one  *)
(* flight, so that there are never more flights than calls.                *)
THEOREM TypeCorrect == Spec => []TypeOK
<1>1. TellInv => TypeOK
  BY DEF TellInv
<1> QED BY <1>1, Invariance, PTL

(* A caller that is told to reload has stored cookies to gain.             *)
THEOREM ReloadsAreFresh == Spec => []ReloadIsFresh
<1>1. TellInv => ReloadIsFresh
  BY DEF TellInv, Prospects, Prospect, Told, ReloadIsFresh
<1> QED BY <1>1, Invariance, PTL

(* No caller starts a command after a success that it came before.         *)
THEOREM CommandsAreNeeded == Spec => NoRedundantCommand
<1> DEFINE Needed == \A c \in Callers :
                        flights' # flights /\ lead'[flights'] = c =>
                            \A n \in Flights : Noted(n) /\ Process(n) = Home[c] => n \in past[c].noted
<1>1. TellInv /\ [Next]_vars => [Needed]_vars
  <2> SUFFICES ASSUME TellInv, [Next]_vars, NEW c \in Callers,
                      flights' # flights, lead'[flights'] = c
               PROVE  NotedIn(Home[c]) \subseteq past[c].noted
    BY DEF NotedIn
  <2>1. PICK d \in Callers : Lead(d)
    BY StepKinds DEF flightVars, flights, Mirror, Pop
  <2>2. lead \in Seq(Callers)
    BY DEF TellInv, TypeOK
  <2>3. d = c
    BY <2>1, <2>2 DEF Lead, flights
  <2> QED BY <2>1, <2>3 DEF Lead, TellInv, Prospects, Prospect, UpToDate
<1> QED BY <1>1, Invariance, PTL DEF Spec, NoRedundantCommand

(* A cancelled caller leaves only when its flight has settled, with        *)
(* nothing of it left running unless its leader was cancelled as well.     *)
THEOREM CancelledSettle == Spec => CancelSettles
<1> DEFINE Settles == \A c \in Callers :
                         pc[c] \in {"await", "settling"} /\ pc'[c] = "idle" /\ result'[c] = "cancelled"
                             => /\ BridgeDone(on[c])
                                /\ CommandRuns(on[c]) => bridge[on[c]] = "cancelled"
<1>1. TellInv /\ [Next]_vars => [Settles]_vars
  <2> SUFFICES ASSUME TellInv, [Next]_vars, NEW c \in Callers,
                      pc[c] \in {"await", "settling"}, pc'[c] = "idle", result'[c] = "cancelled"
               PROVE  /\ BridgeDone(on[c])
                      /\ CommandRuns(on[c]) => bridge[on[c]] = "cancelled"
    OBVIOUS
  <2>1. pc \in [Callers -> {"idle", "claim", "await", "inspect", "settling"}]
        /\ DOMAIN result = Callers
    BY DEF TellInv, TypeOK
  <2>2. CASE UNCHANGED <<pc>>
    BY <2>2
  <2>3. ASSUME NEW d \in Callers, Call(d) \/ Proceed(d) \/ CancelCaller(d) \/ Deadline(d)
        PROVE  BridgeDone(on[c])
    <3>1. CASE d # c
      BY <2>1, <2>3, <3>1 DEF Call, Proceed, Skip, Join, Lead, Awaited, Inspect, Settled, CancelCaller,
                              Deadline, End, Goto
    <3>2. CASE d = c /\ (Settled(c) \/ CancelCaller(c))
      BY <2>1, <3>2 DEF Settled, CancelCaller, Goto
    <3>3. CASE d = c /\ Awaited(c)
      BY <2>1, <3>3 DEF Awaited, End, Goto, BridgeDone, Outcomes
    <3>4. CASE d = c /\ Deadline(c)
      BY <2>1, <3>4 DEF Deadline, End
    <3>5. CASE d = c /\ (Call(c) \/ Skip(c) \/ Join(c) \/ Lead(c) \/ Inspect(c))
      BY <3>5 DEF Call, Skip, Join, Lead, Inspect
    <3> QED BY <2>3, <3>1, <3>2, <3>3, <3>4, <3>5 DEF Proceed
  <2>4. ASSUME NEW n \in Flights, Work(n) \/ Abandon(n)
        PROVE  pc' = pc
    BY <2>4 DEF Work, TakeLock, LoseLock, CommandSucceeds, CommandFails, NoteSuccess, Release,
                ProbeHolder, ProbeEnds, ProbeTimesOut, WorkStep, Abandon, CancelLeader, StrayWrites,
                StrayFails, Mirror, Pop, callVars
  <2>5. BridgeDone(on[c])
    BY <2>2, <2>3, <2>4 DEF Next, vars, callVars
  <2>6. Entry(on[c])
    BY AwaitedFlight
  <2> QED BY <2>5, <2>6 DEF Entry, CommandRuns, BridgeDone, Outcomes
<1> QED BY <1>1, Invariance, PTL DEF Spec, CancelSettles

-----------------------------------------------------------------------------
(* Liveness.  The fairness is that of FairSpec, with the conditions under  *)
(* which a caller and the task of a flight can step written out.           *)

CanProceed(c) == \/ pc[c] \in {"claim", "inspect"}
                 \/ pc[c] \in {"await", "settling"} /\ BridgeDone(on[c])

CanWork(n) == work[n] # "none" /\ n \notin popped

Proceeds(c) == []<>~CanProceed(c) \/ []<><<Proceed(c)>>_vars
Works(n) == []<>~CanWork(n) \/ []<><<Work(n)>>_vars

Scheduled == /\ \A c \in Callers : Proceeds(c)
             /\ \A n \in Flights : Works(n)

(* A flight that was claimed has a task and a bridge, and its callback     *)
(* ends after the bridge is settled.                                       *)
Begun == /\ \A n \in 1 .. flights : work[n] # "none" /\ bridge[n] # "none"
         /\ \A n \in popped : BridgeDone(n)

Inv == TellInv /\ Begun

(* The stages of a flight that is not settled.                             *)
Stage(n, s) == bridge[n] = "pending" /\ work[n] = s
Ready(n) == bridge[n] = "pending" /\ TaskDone(n)

(* A caller in the round of its k-th failure, and one that waits there.    *)
Round(c, k) == pc[c] # "idle" /\ follows[c] = k
RoundAt(c, k, label) == pc[c] = label /\ follows[c] = k
Waits(c, k, n) == pc[c] \in {"await", "settling"} /\ follows[c] = k /\ on[c] = n
Ended(c) == pc[c] = "idle"

(* The round ends, in another one or with the call.                        *)
Passes(c, k) == [](Round(c, k) => <>(Round(c, k + 1) \/ Ended(c)))

-----------------------------------------------------------------------------
(* What a step does to one flight.                                         *)
FlightStays(n) == UNCHANGED <<work[n], bridge[n]>> /\ (n \in popped' <=> n \in popped)

LEMMA CallersLeaveFlights ==
    ASSUME TellInv, NEW c \in Callers, NEW n \in 1 .. flights,
           Call(c) \/ Proceed(c) \/ CancelCaller(c) \/ Deadline(c)
    PROVE  FlightStays(n)
<1>1. CASE Lead(c)
  <2>1. /\ work' = [work EXCEPT ![flights + 1] = "created"]
        /\ bridge' = [bridge EXCEPT ![flights + 1] = "pending"]
        /\ popped' = popped
    BY <1>1 DEF Lead
  <2>2. /\ DOMAIN work = Flights /\ DOMAIN bridge = Flights
        /\ flights \in Nat
    BY DEF TellInv, TypeOK
  <2>3. n # flights + 1
    BY <2>2
  <2> QED BY <2>1, <2>2, <2>3 DEF FlightStays
<1>2. CASE ~Lead(c)
  BY <1>2 DEF Call, Proceed, Skip, Join, Awaited, Inspect, Settled, CancelCaller, Deadline,
              workVars, FlightStays
<1> QED BY <1>1, <1>2

LEMMA OthersLeaveFlights ==
    ASSUME TellInv, NEW m \in Flights, NEW n \in Flights, m # n, Work(m) \/ CancelLeader(m)
    PROVE  FlightStays(n)
BY DEF Work, TakeLock, LoseLock, CommandSucceeds, CommandFails, NoteSuccess, Release, ProbeHolder,
       ProbeEnds, ProbeTimesOut, CancelLeader, WorkStep, Mirror, Pop, FlightStays, TellInv, TypeOK

LEMMA StraysLeaveFlights ==
    ASSUME NEW m \in Flights, NEW n \in Flights, StrayWrites(m) \/ StrayFails(m)
    PROVE  FlightStays(n)
BY DEF StrayWrites, StrayFails, FlightStays

LEMMA OneFlightMoves ==
    ASSUME TellInv, NEW n \in 1 .. flights, [Next]_vars
    PROVE  FlightStays(n) \/ Work(n) \/ CancelLeader(n)
<1>1. n \in Flights
  BY DEF TellInv, TypeOK
<1>2. CASE UNCHANGED vars
  BY <1>2 DEF vars, workVars, FlightStays
<1> QED BY <1>1, <1>2, CallersLeaveFlights, OthersLeaveFlights, StraysLeaveFlights DEF Next, Abandon

(* The task of a flight goes through its stages, or is cancelled.          *)
LEMMA StageSteps ==
    ASSUME Inv, NEW n \in Flights, [Next]_vars
    PROVE  /\ Stage(n, "created") =>
                  Stage(n, "created")' \/ Stage(n, "running")' \/ Stage(n, "lost")' \/ Ready(n)'
           /\ Stage(n, "running") => Stage(n, "running")' \/ Stage(n, "written")' \/ Ready(n)'
           /\ Stage(n, "written") => Stage(n, "written")' \/ Stage(n, "noted")'
           /\ Stage(n, "noted") => Stage(n, "noted")' \/ Ready(n)'
           /\ Stage(n, "lost") => Stage(n, "lost")' \/ Stage(n, "probing")' \/ Ready(n)'
           /\ Stage(n, "probing") => Stage(n, "probing")' \/ Ready(n)'
           /\ Ready(n) => Ready(n)' \/ BridgeDone(n)'
           /\ BridgeDone(n) => BridgeDone(n)'
<1>1. CASE n \notin 1 .. flights
  BY <1>1 DEF Inv, TellInv, Ledger, Entry, TypeOK, Stage, Ready, BridgeDone, Outcomes
<1>2. CASE n \in 1 .. flights /\ FlightStays(n)
  BY <1>2 DEF FlightStays, Stage, Ready, BridgeDone, TaskDone
<1>3. CASE CancelLeader(n)
  BY <1>3 DEF CancelLeader, Inv, TellInv, TypeOK, Stage, Ready, BridgeDone, TaskDone,
              Outcomes
<1>4. CASE \/ TakeLock(n) \/ LoseLock(n) \/ CommandSucceeds(n) \/ CommandFails(n)
           \/ NoteSuccess(n) \/ Release(n) \/ ProbeHolder(n) \/ ProbeEnds(n) \/ ProbeTimesOut(n)
  BY <1>4 DEF TakeLock, LoseLock, CommandSucceeds, CommandFails, NoteSuccess, Release, ProbeHolder,
              ProbeEnds, ProbeTimesOut, WorkStep, Inv, TellInv, TypeOK, Stage, Ready, BridgeDone,
              TaskDone, Outcomes
<1>5. CASE Mirror(n) \/ Pop(n)
  BY <1>5 DEF Mirror, Pop, Inv, TellInv, TypeOK, Stage, Ready, BridgeDone, TaskDone, Outcomes
<1> QED BY <1>1, <1>2, <1>3, <1>4, <1>5, OneFlightMoves DEF Inv, Work

(* Each stage is one step of the task.                                     *)
LEMMA StageEnds ==
    ASSUME Inv, NEW n \in Flights, Work(n)
    PROVE  /\ \A s \in {"created", "running", "written", "noted", "lost", "probing"} :
                  Stage(n, s) => ~Stage(n, s)'
           /\ Ready(n) => ~Ready(n)'
<1>1. CASE \/ TakeLock(n) \/ LoseLock(n) \/ CommandSucceeds(n) \/ CommandFails(n)
           \/ NoteSuccess(n) \/ Release(n) \/ ProbeHolder(n) \/ ProbeEnds(n) \/ ProbeTimesOut(n)
  BY <1>1 DEF TakeLock, LoseLock, CommandSucceeds, CommandFails, NoteSuccess, Release, ProbeHolder,
              ProbeEnds, ProbeTimesOut, WorkStep, Inv, TellInv, TypeOK, Stage, Ready, TaskDone,
              Outcomes
<1>2. CASE Mirror(n) \/ Pop(n)
  BY <1>2 DEF Mirror, Pop, Inv, TellInv, TypeOK, Stage, Ready, BridgeDone, TaskDone, Outcomes
<1> QED BY <1>1, <1>2 DEF Work

LEMMA StageCanEnd ==
    ASSUME Inv, NEW n \in Flights, bridge[n] = "pending"
    PROVE  CanWork(n)
<1>1. n \in 1 .. flights
  BY DEF Inv, TellInv, TypeOK, Ledger, Entry
<1>2. ~BridgeDone(n)
  BY DEF BridgeDone, Outcomes
<1> QED BY <1>1, <1>2 DEF Inv, Begun, CanWork

LEMMA Stages ==
    ASSUME Inv, NEW n \in Flights, bridge[n] = "pending"
    PROVE  \/ Stage(n, "created") \/ Stage(n, "running") \/ Stage(n, "written")
           \/ Stage(n, "noted") \/ Stage(n, "lost") \/ Stage(n, "probing") \/ Ready(n)
<1>1. n \in 1 .. flights
  BY DEF Inv, TellInv, TypeOK, Ledger, Entry
<1> QED BY <1>1 DEF Inv, Begun, TellInv, TypeOK, Stage, Ready, TaskDone

(* A flight that was claimed is settled, whether its command succeeds,     *)
(* fails, finds the file lock taken or is cancelled.                       *)
LEMMA PendingSettles ==
    ASSUME NEW n \in Flights
    PROVE  []Inv /\ [][Next]_vars /\ Works(n) => [](bridge[n] = "pending" => <>BridgeDone(n))
<1>1. Inv /\ [Next]_vars =>
           /\ Stage(n, "created") =>
                  Stage(n, "created")' \/ Stage(n, "running")' \/ Stage(n, "lost")' \/ Ready(n)'
           /\ Stage(n, "running") => Stage(n, "running")' \/ Stage(n, "written")' \/ Ready(n)'
           /\ Stage(n, "written") => Stage(n, "written")' \/ Stage(n, "noted")'
           /\ Stage(n, "noted") => Stage(n, "noted")' \/ Ready(n)'
           /\ Stage(n, "lost") => Stage(n, "lost")' \/ Stage(n, "probing")' \/ Ready(n)'
           /\ Stage(n, "probing") => Stage(n, "probing")' \/ Ready(n)'
           /\ Ready(n) => Ready(n)' \/ BridgeDone(n)'
  BY StageSteps
<1>2. Inv /\ <<Work(n)>>_vars =>
           /\ Stage(n, "created") => ~Stage(n, "created")'
           /\ Stage(n, "running") => ~Stage(n, "running")'
           /\ Stage(n, "written") => ~Stage(n, "written")'
           /\ Stage(n, "noted") => ~Stage(n, "noted")'
           /\ Stage(n, "lost") => ~Stage(n, "lost")'
           /\ Stage(n, "probing") => ~Stage(n, "probing")'
           /\ Ready(n) => ~Ready(n)'
  BY StageEnds
<1>3. Inv => /\ Stage(n, "created") => CanWork(n)
             /\ Stage(n, "running") => CanWork(n)
             /\ Stage(n, "written") => CanWork(n)
             /\ Stage(n, "noted") => CanWork(n)
             /\ Stage(n, "lost") => CanWork(n)
             /\ Stage(n, "probing") => CanWork(n)
             /\ Ready(n) => CanWork(n)
  BY StageCanEnd DEF Stage, Ready
<1>4. Inv /\ bridge[n] = "pending" =>
           \/ Stage(n, "created") \/ Stage(n, "running") \/ Stage(n, "written")
           \/ Stage(n, "noted") \/ Stage(n, "lost") \/ Stage(n, "probing") \/ Ready(n)
  BY Stages
<1> QED BY <1>1, <1>2, <1>3, <1>4, PTL DEF Works

-----------------------------------------------------------------------------
LEMMA BegunInit == Init => Begun
BY DEF Init, Begun, flights

LEMMA BegunKeeps ==
    ASSUME Inv, [Next]_vars
    PROVE  Begun'
<1>1. /\ \A n \in 1 .. flights : n \in Flights /\ work[n] # "none" /\ bridge[n] # "none"
      /\ DOMAIN work = Flights /\ DOMAIN bridge = Flights /\ popped \subseteq Flights
      /\ flights \in Nat
      /\ \A n \in popped : BridgeDone(n)
  BY DEF Inv, Begun, TellInv, TypeOK
<1>2. ASSUME NEW c \in Callers, Lead(c) PROVE Begun'
  <2>1. /\ work' = [work EXCEPT ![flights + 1] = "created"]
        /\ bridge' = [bridge EXCEPT ![flights + 1] = "pending"]
        /\ popped' = popped
        /\ lead \in Seq(Callers) /\ lead' = Append(lead, c)
    BY <1>2 DEF Lead, Inv, TellInv, TypeOK
  <2>2. flights' = flights + 1
    BY <2>1 DEF flights
  <2>3. flights + 1 \in Flights
    <3>1. c \in Owing
      BY <1>2 DEF Owing, Lead
    <3> QED BY <3>1, Room DEF Inv, TellInv
  <2>4. ~BridgeDone(flights + 1)
    BY <1>1, <2>3 DEF Inv, TellInv, Ledger, Entry, BridgeDone, Outcomes
  <2> QED BY <1>1, <2>1, <2>2, <2>3, <2>4 DEF Begun, BridgeDone
<1>3. ASSUME NEW c \in Callers, Call(c) \/ Proceed(c) \/ CancelCaller(c) \/ Deadline(c), ~Lead(c)
      PROVE  Begun'
  <2>1. UNCHANGED workVars
    BY <1>3 DEF Call, Proceed, Skip, Join, Awaited, Inspect, Settled, CancelCaller, Deadline
  <2> QED BY <1>1, <2>1 DEF workVars, Begun, flights, BridgeDone
<1>4. ASSUME NEW n \in Flights, Work(n) \/ Abandon(n) PROVE Begun'
  <2>1. CASE Mirror(n)
    BY <1>1, <2>1 DEF Mirror, Begun, flights, BridgeDone, TaskDone, Outcomes
  <2>2. CASE Pop(n)
    BY <1>1, <2>2 DEF Pop, Begun, flights, BridgeDone
  <2>3. CASE CancelLeader(n)
    BY <1>1, <2>3 DEF CancelLeader, Begun, flights, BridgeDone
  <2>4. CASE \/ TakeLock(n) \/ LoseLock(n) \/ CommandSucceeds(n) \/ CommandFails(n)
             \/ NoteSuccess(n) \/ Release(n) \/ ProbeHolder(n) \/ ProbeEnds(n) \/ ProbeTimesOut(n)
    BY <1>1, <2>4 DEF TakeLock, LoseLock, CommandSucceeds, CommandFails, NoteSuccess, Release,
                      ProbeHolder, ProbeEnds, ProbeTimesOut, WorkStep, Begun, flights, BridgeDone
  <2>5. CASE StrayWrites(n) \/ StrayFails(n)
    BY <1>1, <2>5 DEF StrayWrites, StrayFails, Begun, flights, BridgeDone
  <2> QED BY <1>4, <2>1, <2>2, <2>3, <2>4, <2>5 DEF Work, Abandon
<1>5. CASE UNCHANGED vars
  BY <1>1, <1>5 DEF vars, workVars, Begun, flights, BridgeDone
<1> QED BY <1>2, <1>3, <1>4, <1>5 DEF Next

LEMMA InvHolds == Spec => []Inv
<1>1. TellInv /\ Begun /\ [Next]_vars => Begun'
  BY BegunKeeps DEF Inv
<1> QED BY BegunInit, <1>1, Invariance, PTL DEF Spec, Inv

-----------------------------------------------------------------------------
(* What a step does to one caller.                                         *)
CallerStays(c) == UNCHANGED <<pc[c], follows[c], on[c]>>

LEMMA OneCallerMoves ==
    ASSUME TellInv, NEW c \in Callers, [Next]_vars
    PROVE  CallerStays(c) \/ Call(c) \/ Proceed(c) \/ CancelCaller(c) \/ Deadline(c)
<1>1. /\ DOMAIN pc = Callers /\ DOMAIN follows = Callers /\ DOMAIN on = Callers
  BY DEF TellInv, TypeOK
<1>2. ASSUME NEW d \in Callers \ {c}, Call(d) \/ Proceed(d) \/ CancelCaller(d) \/ Deadline(d)
      PROVE  CallerStays(c)
  BY <1>1, <1>2 DEF Call, Proceed, Skip, Join, Lead, Awaited, Inspect, Settled, CancelCaller, Deadline,
                    End, Goto, CallerStays
<1>3. ASSUME NEW n \in Flights, Work(n) \/ Abandon(n)
      PROVE  CallerStays(c)
  BY <1>3 DEF Work, TakeLock, LoseLock, CommandSucceeds, CommandFails, NoteSuccess, Release,
              ProbeHolder, ProbeEnds, ProbeTimesOut, WorkStep, Abandon, CancelLeader, StrayWrites,
              StrayFails, Mirror, Pop, callVars, CallerStays
<1>4. CASE UNCHANGED vars
  BY <1>4 DEF vars, callVars, CallerStays
<1> QED BY <1>2, <1>3, <1>4 DEF Next

(* A caller claims a flight or finds a success, waits for its flight, and  *)
(* looks at how it ended.                                                  *)
LEMMA RoundSteps ==
    ASSUME TellInv, NEW c \in Callers, NEW k \in Nat, [Next]_vars
    PROVE  /\ RoundAt(c, k, "claim") => \/ RoundAt(c, k, "claim")' \/ RoundAt(c, k, "await")'
                                        \/ Ended(c)'
           /\ RoundAt(c, k, "inspect") => \/ RoundAt(c, k, "inspect")' \/ Round(c, k + 1)'
                                          \/ Ended(c)'
           /\ \A n \in Flights :
                  Waits(c, k, n) => \/ Waits(c, k, n)' \/ RoundAt(c, k, "inspect")'
                                    \/ Ended(c)'
<1>1. /\ DOMAIN pc = Callers /\ DOMAIN follows = Callers /\ DOMAIN on = Callers
  BY DEF TellInv, TypeOK
<1>2. CASE CallerStays(c)
  BY <1>2 DEF CallerStays, RoundAt, Waits, Ended
<1>3. CASE Skip(c) \/ Join(c) \/ Lead(c)
  BY <1>1, <1>3 DEF Skip, Join, Lead, End, Goto, RoundAt, Waits, Ended
<1>4. CASE Awaited(c) \/ Settled(c) \/ CancelCaller(c) \/ Deadline(c)
  BY <1>1, <1>4 DEF Awaited, Settled, CancelCaller, Deadline, End, Goto, RoundAt, Waits, Ended
<1>5. CASE Inspect(c)
  BY <1>1, <1>5 DEF Inspect, End, Goto, RoundAt, Round, Waits, Ended
<1>6. CASE Call(c)
  BY <1>6 DEF Call, RoundAt, Waits, Ended
<1> QED BY <1>2, <1>3, <1>4, <1>5, <1>6, OneCallerMoves DEF Proceed

(* Each of these is one step of the caller.                                *)
LEMMA RoundEnds ==
    ASSUME TellInv, NEW c \in Callers, NEW k \in Nat, Proceed(c)
    PROVE  /\ RoundAt(c, k, "claim") => ~RoundAt(c, k, "claim")'
           /\ RoundAt(c, k, "inspect") => ~RoundAt(c, k, "inspect")'
           /\ \A n \in Flights : Waits(c, k, n) => ~Waits(c, k, n)'
<1>1. /\ DOMAIN pc = Callers /\ DOMAIN follows = Callers
  BY DEF TellInv, TypeOK
<1>2. CASE Skip(c) \/ Join(c) \/ Lead(c)
  BY <1>1, <1>2 DEF Skip, Join, Lead, End, Goto, RoundAt, Waits, Ended
<1>3. CASE Awaited(c) \/ Settled(c)
  BY <1>1, <1>3 DEF Awaited, Settled, End, Goto, RoundAt, Waits, Ended
<1>4. CASE Inspect(c)
  <2>1. follows[c] \in Nat
    BY DEF TellInv, TypeOK
  <2> QED BY <1>1, <1>4, <2>1 DEF Inspect, End, Goto, RoundAt, Waits, Ended
<1> QED BY <1>2, <1>3, <1>4 DEF Proceed

(* A caller waits for a flight that was claimed.                           *)
LEMMA AwaitedWasClaimed ==
    ASSUME Inv, NEW c \in Callers, pc[c] \in {"await", "settling"}
    PROVE  /\ on[c] \in Flights
           /\ bridge[on[c]] = "pending" \/ BridgeDone(on[c])
<1>1. on[c] \in 1 .. flights /\ on[c] \in Flights
  BY DEF Inv, TellInv, TypeOK
<1> QED BY <1>1 DEF Inv, Begun, TellInv, TypeOK, BridgeDone

(* Every wait for a flight ends: the flight is settled, whoever led it and *)
(* however it ended, and the caller leaves or looks at how it ended.       *)
LEMMA WaitPasses ==
    ASSUME NEW c \in Callers
    PROVE  []Inv /\ [][Next]_vars /\ Scheduled =>
               \A k \in Nat, n \in Flights :
                   [](Waits(c, k, n) => <>(RoundAt(c, k, "inspect") \/ Ended(c)))
<1> SUFFICES ASSUME NEW k \in Nat, NEW n \in Flights
             PROVE  []Inv /\ [][Next]_vars /\ Scheduled =>
                        [](Waits(c, k, n) => <>(RoundAt(c, k, "inspect") \/ Ended(c)))
  OBVIOUS
<1>1. Inv /\ [Next]_vars =>
          (Waits(c, k, n) => Waits(c, k, n)' \/ RoundAt(c, k, "inspect")' \/ Ended(c)')
  BY RoundSteps DEF Inv
<1>2. Inv /\ <<Proceed(c)>>_vars => (Waits(c, k, n) => ~Waits(c, k, n)')
  BY RoundEnds DEF Inv
<1>3. Inv /\ Waits(c, k, n) => bridge[n] = "pending" \/ BridgeDone(n)
  BY AwaitedWasClaimed DEF Waits
<1>4. Waits(c, k, n) /\ BridgeDone(n) => CanProceed(c)
  BY DEF Waits, CanProceed
<1>5. Inv /\ [Next]_vars => (BridgeDone(n) => BridgeDone(n)')
  BY StageSteps
<1>6. []Inv /\ [][Next]_vars /\ Works(n) => [](bridge[n] = "pending" => <>BridgeDone(n))
  BY PendingSettles
<1>7. Scheduled => Proceeds(c) /\ Works(n)
  BY DEF Scheduled
<1> QED BY <1>1, <1>2, <1>3, <1>4, <1>5, <1>6, <1>7, PTL DEF Proceeds

LEMMA RoundPasses ==
    ASSUME NEW c \in Callers
    PROVE  []Inv /\ [][Next]_vars /\ Scheduled =>
               \A k \in Nat : Passes(c, k)
<1> SUFFICES ASSUME NEW k \in Nat
             PROVE  []Inv /\ [][Next]_vars /\ Scheduled =>
                        Passes(c, k)
  OBVIOUS
<1> DEFINE Waiting == RoundAt(c, k, "await") \/ RoundAt(c, k, "settling")
           Inspecting == RoundAt(c, k, "inspect")
<1>1. Inv /\ Round(c, k) => RoundAt(c, k, "claim") \/ Waiting \/ Inspecting
  BY DEF Inv, TellInv, TypeOK, Round, RoundAt
<1>2. Inv /\ Waiting => \E n \in Flights : Waits(c, k, n)
  BY AwaitedWasClaimed DEF RoundAt, Waits
<1>3. Inv /\ [Next]_vars =>
          /\ RoundAt(c, k, "claim") => RoundAt(c, k, "claim")' \/ RoundAt(c, k, "await")' \/ Ended(c)'
          /\ Inspecting => Inspecting' \/ Round(c, k + 1)' \/ Ended(c)'
  BY RoundSteps DEF Inv
<1>4. Inv /\ <<Proceed(c)>>_vars =>
          /\ RoundAt(c, k, "claim") => ~RoundAt(c, k, "claim")'
          /\ Inspecting => ~Inspecting'
  BY RoundEnds DEF Inv
<1>5. RoundAt(c, k, "claim") \/ Inspecting => CanProceed(c)
  BY DEF RoundAt, CanProceed
<1>6. []Inv /\ [][Next]_vars /\ Scheduled =>
          \A n \in Flights : [](Waits(c, k, n) => <>(Inspecting \/ Ended(c)))
  BY WaitPasses
<1>7. (\A n \in Flights : [](Waits(c, k, n) => <>(Inspecting \/ Ended(c))))
        => [](\A n \in Flights : (Waits(c, k, n) => <>(Inspecting \/ Ended(c))))
  OBVIOUS
<1>8. (\A n \in Flights : (Waits(c, k, n) => <>(Inspecting \/ Ended(c))))
        => ((\E n \in Flights : Waits(c, k, n)) => <>(Inspecting \/ Ended(c)))
  OBVIOUS
<1>9. Scheduled => Proceeds(c)
  BY DEF Scheduled
<1> QED BY <1>1, <1>2, <1>3, <1>4, <1>5, <1>6, <1>7, <1>8, <1>9, PTL DEF Proceeds, Passes

(* Every call ends, for the number of rounds that the program allows: the  *)
(* flights it follows are settled one after the other, and after the third *)
(* failure it raises.                                                      *)
THEOREM CallersAreServed ==
    ASSUME MaxFollow <= 3
    PROVE  Spec /\ Scheduled => CallsEnd
<1> SUFFICES ASSUME NEW c \in Callers
             PROVE  Spec /\ Scheduled => (pc[c] # "idle" ~> pc[c] = "idle")
  BY DEF CallsEnd
<1>1. Inv => (pc[c] # "idle" => Round(c, 0) \/ Round(c, 1) \/ Round(c, 2))
  BY DEF Inv, TellInv, TypeOK, Prospects, Prospect, Round
<1>2. Inv => ~Round(c, 3)
  BY DEF Inv, TellInv, TypeOK, Prospects, Prospect, Round
<1>3. []Inv /\ [][Next]_vars /\ Scheduled =>
          \A k \in Nat : Passes(c, k)
  BY RoundPasses
<1>4. (\A k \in Nat : Passes(c, k)) => Passes(c, 0) /\ Passes(c, 1) /\ Passes(c, 2)
  OBVIOUS
<1>5. /\ Round(c, 0 + 1) <=> Round(c, 1)
      /\ Round(c, 1 + 1) <=> Round(c, 2)
      /\ Round(c, 2 + 1) <=> Round(c, 3)
  BY DEF Round
<1> QED BY <1>1, <1>2, <1>3, <1>4, <1>5, InvHolds, PTL DEF Spec, Passes, Ended
=============================================================================
