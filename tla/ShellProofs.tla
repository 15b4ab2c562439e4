----------------------------- MODULE ShellProofs ------------------------------
(***************************************************************************)
(* What is proved of the parts MCShell puts side by side.  Only the part   *)
(* that is the subject moves, so that what holds of its states and steps   *)
(* holds of all.                                                           *)
(***************************************************************************)
EXTENDS MCShell, Sequences, TLAPS, SequenceTheorems, FiniteSetTheorems, WellFoundedInduction

----------------------------------------------------------------------------
(* Provider resources: callers that share a load *)

Owns(c) == step[c] \in {"queued", "loading"}

\* A call that has not entered holds nothing; one that joined holds the flight of somebody
\* who entered before for the same resource; one that owns a flight is the one others find.
Holds(c) ==
    /\ step[c] \in {"new", "entering", "joined"} => state[c] = "none"
    /\ step[c] \in {"entering", "joined"} => want[c] \in Resources
    /\ step[c] = "joined" => /\ flight[c] \in Callers /\ state[flight[c]] # "none"
                             /\ want[flight[c]] = want[c]
    /\ Owns(c) => /\ flight[c] = c /\ state[c] = "open"
                  /\ want[c] \in Resources /\ flights[want[c]] = c
    /\ state[c] = "open" => Owns(c)

HoldsInv == \A c \in Callers : Holds(c)

\* The flights others may join are owned.
FlightsInv ==
    \A r \in Resources : flights[r] # None => /\ flights[r] \in Callers /\ Owns(flights[r])
                                              /\ want[flights[r]] = r

CountInv ==
    /\ active = Cardinality(F!Loading) /\ active <= Concurrency
    /\ Cardinality(F!InFlight) <= Capacity

FetchInv == F!TypeOK /\ HoldsInv /\ FlightsInv /\ F!NoEmptyAnswer


\* The prover takes the Cardinality an instance brings for another operator.
LEMMA SameCardinality == \A S : F!Cardinality(S) = Cardinality(S)
BY DEF F!Cardinality, Cardinality

LEMMA FetchInit == F!Init => FetchInv
BY NoneIsNobody DEF F!Init, FetchInv, F!TypeOK, HoldsInv, Holds, FlightsInv, Owns, F!NoEmptyAnswer

LEMMA FetchStep == FetchInv /\ [F!Next]_(F!vars) => FetchInv'
<1> SUFFICES ASSUME FetchInv, [F!Next]_(F!vars) PROVE FetchInv'
    OBVIOUS
<1> USE NoneIsNobody DEF FetchInv
<1>1. ASSUME NEW c \in Callers, NEW r \in Resources, F!Call(c, r) PROVE FetchInv'
    BY <1>1 DEF F!Call, F!TypeOK, HoldsInv, Holds, FlightsInv, Owns, F!NoEmptyAnswer
<1>2. ASSUME NEW c \in Callers, F!Cancel(c) PROVE FetchInv'
    BY <1>2 DEF F!Cancel, F!TypeOK, HoldsInv, Holds, FlightsInv, Owns, F!NoEmptyAnswer
<1>3. ASSUME NEW c \in Callers, F!Enter(c) PROVE FetchInv'
    BY <1>3 DEF F!Enter, F!Leave, F!TypeOK, HoldsInv, Holds, FlightsInv, Owns, F!NoEmptyAnswer
<1>4. ASSUME NEW c \in Callers, F!Joined(c) PROVE FetchInv'
    BY <1>4 DEF F!Joined, F!Leave, F!Done, F!Brought, F!TypeOK, HoldsInv, Holds, FlightsInv, Owns,
           F!NoEmptyAnswer
<1>5. ASSUME NEW c \in Callers, F!Queued(c) PROVE FetchInv'
    BY <1>5 DEF F!Queued, F!Leave, F!TypeOK, HoldsInv, Holds, FlightsInv, Owns, F!NoEmptyAnswer
<1>6. ASSUME NEW c \in Callers, NEW as \in {"loaded", "failed"}, F!Finish(c, as) PROVE FetchInv'
    <2> DEFINE with == IF stop[c] THEN "cancelled" ELSE as
    <2>1. as \in {"loaded", "failed"} /\ with \in {"cancelled", "loaded", "failed"}
        OBVIOUS
    <2>2. flight[c] = c /\ want[c] \in Resources /\ flights[want[c]] = c /\ step[c] = "loading"
        BY <1>6 DEF F!Finish, HoldsInv, Holds, Owns
    <2>3. /\ step' = [step EXCEPT ![c] = "out"]
          /\ brought' = [brought EXCEPT ![c] = with]
          /\ flight' = [flight EXCEPT ![c] = None]
          /\ state' = [state EXCEPT ![c] = as]
          /\ flights' = [flights EXCEPT ![want[c]] = None]
          /\ active' = active - 1 /\ UNCHANGED <<want, stop>>
        BY <1>6, <2>2 DEF F!Finish, F!Leave
    <2> HIDE DEF with
    <2>4. F!TypeOK'
      <3>1. (step' \in [Callers -> {"new", "entering", "joined", "queued", "loading", "out"}])
        BY <2>1, <2>2, <2>3 DEF F!TypeOK
      <3>2. want' \in [Callers -> Resources \cup {None}] /\ stop' \in [Callers -> BOOLEAN]
        BY <2>1, <2>2, <2>3 DEF F!TypeOK
      <3>3. flight' \in [Callers -> Callers \cup {None}] /\ flights' \in [Resources -> Callers \cup {None}]
        BY <2>1, <2>2, <2>3 DEF F!TypeOK
      <3>4. state' \in [Callers -> {"none", "open", "loaded", "failed", "abandoned"}]
        BY <2>1, <2>2, <2>3 DEF F!TypeOK
      <3>5. active' \in Int
        BY <2>1, <2>2, <2>3 DEF F!TypeOK
      <3>6. brought' \in [Callers -> {"none", "cancelled", "full", "loaded", "failed", "empty"}]
        BY <2>1, <2>2, <2>3 DEF F!TypeOK
      <3> QED BY <3>1, <3>2, <3>3, <3>4, <3>5, <3>6 DEF F!TypeOK
    <2>5. F!NoEmptyAnswer'
        BY <2>1, <2>3 DEF F!TypeOK, F!NoEmptyAnswer
    <2>6. HoldsInv'
        <3>1. Holds(c)'
            BY <2>1, <2>2, <2>3 DEF F!TypeOK, Holds, Owns
        <3>2. ASSUME NEW d \in Callers, d # c PROVE Holds(d)'
            <4>1. Holds(d)
                BY DEF HoldsInv
            <4>2. /\ step'[d] = step[d] /\ flight'[d] = flight[d] /\ state'[d] = state[d]
                  /\ want'[d] = want[d]
                BY <2>3, <3>2 DEF F!TypeOK
            <4>3. step[d] = "joined" => state'[flight[d]] # "none" /\ want'[flight[d]] = want[flight[d]]
                BY <2>1, <2>3, <4>1 DEF F!TypeOK, Holds
            <4>4. Owns(d) => flights'[want[d]] = d
                BY <2>2, <2>3, <3>2, <4>1 DEF F!TypeOK, Holds
            <4> QED BY <4>1, <4>2, <4>3, <4>4 DEF Holds, Owns
        <3> QED BY <3>1, <3>2 DEF HoldsInv
    <2>7. FlightsInv'
        BY <2>2, <2>3 DEF F!TypeOK, FlightsInv, Owns
    <2> QED BY <2>4, <2>5, <2>6, <2>7
<1>7. CASE UNCHANGED F!vars
    BY <1>7 DEF F!vars, F!TypeOK, HoldsInv, Holds, FlightsInv, Owns, F!NoEmptyAnswer
<1> QED
    BY <1>1, <1>2, <1>3, <1>4, <1>5, <1>6, <1>7 DEF F!Next, F!Inside

\* Adding or removing the caller or the resource that moves.
LEMMA CountInit == F!Init => CountInv
<1> SUFFICES ASSUME F!Init PROVE CountInv
    OBVIOUS
<1>1. F!Loading = {} /\ F!InFlight = {}
    BY DEF F!Init, F!Loading, F!InFlight
<1> QED BY <1>1, FS_EmptySet, BoundsAreNumbers DEF F!Init, CountInv

LEMMA CountStep == FetchInv /\ CountInv /\ [F!Next]_(F!vars) => CountInv'
<1> SUFFICES ASSUME FetchInv, CountInv, [F!Next]_(F!vars) PROVE CountInv'
    OBVIOUS
<1> USE NoneIsNobody
<1>1. IsFiniteSet(F!Loading) /\ IsFiniteSet(F!InFlight)
    <2>1. F!Loading \subseteq Callers /\ F!InFlight \subseteq Resources
        BY DEF F!Loading, F!InFlight
    <2> QED BY <2>1, FS_Subset, FetchesAreFinite
<1>2. /\ Cardinality(F!Loading) \in Nat /\ Cardinality(F!InFlight) \in Nat
      /\ Concurrency \in Nat /\ Capacity \in Nat
    BY <1>1, FS_CardinalityType, BoundsAreNumbers
<1>3. CASE F!Loading' = F!Loading /\ F!InFlight' = F!InFlight /\ active' = active
    BY <1>3 DEF CountInv
<1>4. ASSUME NEW c \in Callers, F!Loading' = F!Loading \cup {c}, c \notin F!Loading,
             active < Concurrency, active' = active + 1, F!InFlight' = F!InFlight
      PROVE  CountInv'
    <2>1. Cardinality(F!Loading') = Cardinality(F!Loading) + 1
        BY <1>1, <1>4, FS_AddElement
    <2> QED BY <1>2, <1>4, <2>1 DEF CountInv
<1>5. ASSUME NEW r \in Resources, F!InFlight' = F!InFlight \cup {r}, r \notin F!InFlight,
             Cardinality(F!InFlight) < Capacity
      PROVE  Cardinality(F!InFlight') <= Capacity
    <2>1. Cardinality(F!InFlight') = Cardinality(F!InFlight) + 1
        BY <1>1, <1>5, FS_AddElement
    <2> QED BY <1>2, <1>5, <2>1
<1>6. ASSUME NEW r \in Resources, F!InFlight' = F!InFlight \ {r}, r \in F!InFlight
      PROVE  Cardinality(F!InFlight') <= Capacity
    <2>1. Cardinality(F!InFlight') = Cardinality(F!InFlight) - 1
        BY <1>1, <1>6, FS_RemoveElement
    <2> QED BY <1>2, <2>1 DEF CountInv
<1>7. ASSUME NEW c \in Callers, NEW r \in Resources, F!Call(c, r) PROVE CountInv'
    BY <1>3, <1>7 DEF F!Call, FetchInv, F!TypeOK, F!Loading, F!InFlight
<1>8. ASSUME NEW c \in Callers, F!Cancel(c) PROVE CountInv'
    BY <1>3, <1>8 DEF F!Cancel, F!Loading, F!InFlight
<1>9. ASSUME NEW c \in Callers, F!Enter(c) PROVE CountInv'
    <2>1. CASE UNCHANGED <<flights, active>> /\ step[c] = "entering" /\ step'[c] # "loading"
               /\ step' = [step EXCEPT ![c] = step'[c]]
        BY <1>3, <2>1 DEF F!Loading, F!InFlight, FetchInv, F!TypeOK
    <2>2. CASE /\ flights[want[c]] = None /\ Cardinality(F!InFlight) < Capacity
               /\ flights' = [flights EXCEPT ![want[c]] = c]
               /\ IF active < Concurrency
                  THEN step' = [step EXCEPT ![c] = "loading"] /\ active' = active + 1
                  ELSE step' = [step EXCEPT ![c] = "queued"] /\ UNCHANGED active
        <3>1. want[c] \in Resources /\ step[c] = "entering"
            BY <1>9 DEF F!Enter, FetchInv, HoldsInv, Holds
        <3>2. F!InFlight' = F!InFlight \cup {want[c]} /\ want[c] \notin F!InFlight
            BY <2>2, <3>1 DEF F!InFlight, FetchInv, F!TypeOK
        <3>3. Cardinality(F!InFlight') <= Capacity
            BY <1>5, <2>2, <3>1, <3>2
        <3>4. CASE active < Concurrency
            <4>1. F!Loading' = F!Loading \cup {c} /\ c \notin F!Loading
                BY <2>2, <3>1, <3>4 DEF F!Loading, FetchInv, F!TypeOK
            <4>2. Cardinality(F!Loading') = Cardinality(F!Loading) + 1
                BY <1>1, <4>1, FS_AddElement
            <4> QED BY <1>2, <2>2, <3>3, <3>4, <4>2 DEF CountInv
        <3>5. CASE ~(active < Concurrency)
            <4>1. F!Loading' = F!Loading
                BY <2>2, <3>1, <3>5 DEF F!Loading, FetchInv, F!TypeOK
            <4> QED BY <2>2, <3>3, <3>5, <4>1 DEF CountInv
        <3> QED BY <3>4, <3>5
    <2>0. /\ step[c] = "entering"
          /\ \/ F!Leave(c, "cancelled") /\ UNCHANGED <<flights, active>>
             \/ step' = [step EXCEPT ![c] = "joined"] /\ UNCHANGED <<flights, active>>
             \/ F!Leave(c, "full") /\ UNCHANGED <<flights, active>>
             \/ /\ flights[want[c]] = None /\ Cardinality(F!InFlight) < Capacity
                /\ flights' = [flights EXCEPT ![want[c]] = c]
                /\ IF active < Concurrency
                   THEN step' = [step EXCEPT ![c] = "loading"] /\ active' = active + 1
                   ELSE step' = [step EXCEPT ![c] = "queued"] /\ UNCHANGED active
        BY <1>9, SameCardinality DEF F!Enter
    <2> QED BY <2>0, <2>1, <2>2 DEF F!Leave, FetchInv, F!TypeOK
<1>10. ASSUME NEW c \in Callers, F!Joined(c) PROVE CountInv'
    <2>1. /\ step[c] = "joined" /\ step' = [step EXCEPT ![c] = step'[c]]
          /\ step'[c] \in {"entering", "out"} /\ UNCHANGED <<flights, active>>
        BY <1>10 DEF F!Joined, F!Leave, FetchInv, F!TypeOK
    <2> QED BY <1>3, <2>1 DEF F!Loading, F!InFlight, FetchInv, F!TypeOK
<1>11. ASSUME NEW c \in Callers, F!Queued(c) PROVE CountInv'
    <2>1. step[c] = "queued" /\ want[c] \in Resources /\ flights[want[c]] = c
        BY <1>11 DEF F!Queued, FetchInv, HoldsInv, Holds, Owns
    <2>2. CASE stop[c]
        <3>1. /\ step' = [step EXCEPT ![c] = "out"] /\ active' = active
              /\ flights' = [flights EXCEPT ![want[c]] = None]
            BY <1>11, <2>2 DEF F!Queued, F!Leave
        <3>2. F!Loading' = F!Loading
            BY <2>1, <3>1 DEF F!Loading, FetchInv, F!TypeOK
        <3>3. F!InFlight' = F!InFlight \ {want[c]} /\ want[c] \in F!InFlight
            BY <2>1, <3>1 DEF F!InFlight, FetchInv, F!TypeOK
        <3> QED BY <1>6, <2>1, <3>1, <3>2, <3>3 DEF CountInv
    <2>3. CASE ~stop[c]
        <3>1. /\ step' = [step EXCEPT ![c] = "loading"] /\ active < Concurrency
              /\ active' = active + 1 /\ flights' = flights
            BY <1>11, <2>3 DEF F!Queued
        <3>2. F!Loading' = F!Loading \cup {c} /\ c \notin F!Loading /\ F!InFlight' = F!InFlight
            BY <2>1, <3>1 DEF F!Loading, F!InFlight, FetchInv, F!TypeOK
        <3> QED BY <1>4, <3>1, <3>2
    <2> QED BY <2>2, <2>3
<1>12. ASSUME NEW c \in Callers, NEW as \in {"loaded", "failed"}, F!Finish(c, as) PROVE CountInv'
    <2>1. step[c] = "loading" /\ want[c] \in Resources /\ flights[want[c]] = c
        BY <1>12 DEF F!Finish, FetchInv, HoldsInv, Holds, Owns
    <2>2. /\ step' = [step EXCEPT ![c] = "out"] /\ active' = active - 1
          /\ flights' = [flights EXCEPT ![want[c]] = None]
        BY <1>12 DEF F!Finish, F!Leave
    <2>3. F!Loading' = F!Loading \ {c} /\ c \in F!Loading
        BY <2>1, <2>2 DEF F!Loading, FetchInv, F!TypeOK
    <2>4. Cardinality(F!Loading') = Cardinality(F!Loading) - 1
        BY <1>1, <2>3, FS_RemoveElement
    <2>5. F!InFlight' = F!InFlight \ {want[c]} /\ want[c] \in F!InFlight
        BY <2>1, <2>2 DEF F!InFlight, FetchInv, F!TypeOK
    <2> QED BY <1>2, <1>6, <2>1, <2>2, <2>4, <2>5 DEF CountInv
<1>13. CASE UNCHANGED F!vars
    BY <1>3, <1>13 DEF F!vars, F!Loading, F!InFlight
<1> QED
    BY <1>7, <1>8, <1>9, <1>10, <1>11, <1>12, <1>13 DEF F!Next, F!Inside

\* Only the part that is the subject moves.
LEMMA FetchMoves == Next => [F!Next]_(F!vars)
BY DEF Next, fetching, F!vars

LEMMA FetchHolds == Spec => [](FetchInv /\ CountInv)
<1>1. Init => FetchInv /\ CountInv
    BY FetchInit, CountInit DEF Init
<1>2. FetchInv /\ CountInv /\ [Next]_vars => (FetchInv /\ CountInv)'
    <2> SUFFICES ASSUME FetchInv, CountInv, [Next]_vars PROVE (FetchInv /\ CountInv)'
        OBVIOUS
    <2>1. [F!Next]_(F!vars)
        BY FetchMoves DEF vars, fetching, F!vars
    <2> QED BY <2>1, FetchStep, CountStep
<1> QED BY <1>1, <1>2, PTL DEF Spec

\* A resource is loaded by one caller at a time, no more loads run and no more requests are
\* in flight than may, and the count of loads is the loads that run (fetch).
THEOREM LoadsAreShared == Spec => [](F!TypeOK /\ F!OneLoad)
<1>1. ASSUME FetchInv PROVE \A c, d \in F!Loading : want[c] = want[d] => c = d
    BY <1>1 DEF FetchInv, HoldsInv, Holds, Owns, F!Loading
<1>2. ASSUME FetchInv, CountInv PROVE F!TypeOK /\ F!OneLoad
    BY <1>1, <1>2, SameCardinality DEF FetchInv, CountInv, F!OneLoad
<1> QED BY <1>2, FetchHolds, PTL

\* Nobody joins a flight that is over, and who waits for a flight waits for a caller that
\* queues or loads, however many were cancelled before (fetch).
THEOREM SomebodyLoads == Spec => []F!WaitsForSomebody
<1>1. FetchInv => F!WaitsForSomebody
    BY NoneIsNobody DEF FetchInv, HoldsInv, Holds, FlightsInv, Owns, F!WaitsForSomebody, F!InFlight
<1> QED BY <1>1, FetchHolds, PTL

\* No caller is given the answer of a load that never ran (fetch).
THEOREM AnswersWereLoaded == Spec => []F!NoEmptyAnswer
<1>1. FetchInv => F!NoEmptyAnswer
    BY DEF FetchInv
<1> QED BY <1>1, FetchHolds, PTL

\* Who is told that it was cancelled was cancelled itself, not the owner it waited for.
THEOREM CancelledItself == Spec => F!CancelIsOwn
<1> DEFINE Own == \A c \in Callers :
                      brought'[c] = "cancelled" /\ brought[c] # "cancelled" => stop[c]
<1>1. FetchInv /\ [Next]_vars => [Own]_(F!vars)
    <2> SUFFICES ASSUME FetchInv, F!Next PROVE Own
        BY FetchMoves DEF vars, fetching, F!vars
    <2> SUFFICES ASSUME NEW d \in Callers, brought'[d] = "cancelled", brought[d] # "cancelled"
                 PROVE  stop[d]
        OBVIOUS
    <2>1. PICK c \in Callers : (\E r \in Resources : F!Call(c, r)) \/ F!Cancel(c) \/ F!Inside(c)
        BY DEF F!Next
    <2>2. CASE \E r \in Resources : F!Call(c, r)
        BY <2>2 DEF F!Call
    <2>3. CASE F!Cancel(c)
        BY <2>3 DEF F!Cancel
    <2>4. CASE F!Enter(c)
        BY <2>4 DEF F!Enter, F!Leave, FetchInv, F!TypeOK
    <2>5. CASE F!Joined(c)
        BY <2>5 DEF F!Joined, F!Leave, F!Brought, FetchInv, F!TypeOK
    <2>6. CASE F!Queued(c)
        BY <2>6 DEF F!Queued, F!Leave, FetchInv, F!TypeOK
    <2>7. CASE \E as \in {"loaded", "failed"} : F!Finish(c, as)
        BY <2>7 DEF F!Finish, F!Leave, FetchInv, F!TypeOK
    <2> QED BY <2>1, <2>2, <2>3, <2>4, <2>5, <2>6, <2>7 DEF F!Inside
<1> QED BY <1>1, FetchHolds, PTL DEF Spec, F!CancelIsOwn

----------------------------------------------------------------------------
(* Launches: one owner of the application *)

\* A process that has the lock, and one that has written its name into the file.
Holding(p) == I!Owner(p) \/ phase[p] = "claim"
Past(p)    == I!Owner(p) \/ phase[p] \in {"left", "dead"}

LockInv ==
    \A p \in Processes : Holding(p) => p \in holders /\ \A q \in Processes : Holding(q) => q = p

\* What the file says of an owner is true, and whom it names is an owner or was one.
FileInv ==
    /\ \A p \in Processes : I!Owner(p) =>
           file.pid = p /\ (file.state = "closing" <=> phase[p] \in {"closing", "flushed"})
    /\ file.pid # None => Past(file.pid)

\* So is what a launch remembers of it: an end that was announced is not taken back.
SeenInv ==
    \A p \in Processes :
        /\ seen[p].pid # None =>
               /\ Past(seen[p].pid)
               /\ seen[p].state = "closing" =>
                      phase[seen[p].pid] \in {"closing", "flushed", "left", "dead"}
        /\ phase[p] = "evict" => seen[p].pid # None /\ seen[p].state = "closing"

\* A launch asks once, and before it asks or runs its command nothing ran for it.
RequestInv ==
    /\ serving = None => ~answered
    /\ \A c \in Processes :
           /\ c \in request => phase[c] \in {"wait", "dead"}
           /\ serving = c => phase[c] \in {"wait", "left", "dead"}
           /\ phase[c] \in {"off", "start", "look", "evict", "retry", "notify", "claim", "install",
                            "hydrate", "command", "send"} => runs[c] = 0

\* Every execution that may still come was paid for by an owner that died over one.
RunInv ==
    \A c \in Processes :
        /\ runs[c] <= 1 + broken[c]
        /\ c \in request /\ ~(serving = c /\ answered) => runs[c] <= broken[c]
        /\ serving = c /\ ~answered => runs[c] <= broken[c]

\* Launches whose command was executed, as far as they can know.
Informed(c) ==
    outcome[c] = "done" \/ phase[c] = "flush" \/ (phase[c] = "wait" /\ response[c] = "whole")

ReportInv == \A c \in Processes : Informed(c) => runs[c] > 0

SavedInv ==
    (\A p \in Processes : phase[p] # "dead") =>
        /\ \A c \in Processes : Informed(c) => c \in saved \cup unsaved \cup late
        /\ \A p \in Processes : phase[p] = "flushed" => unsaved \subseteq saved \cup late

LaunchInv ==
    /\ I!TypeOK /\ LockInv /\ FileInv /\ SeenInv
    /\ RequestInv /\ RunInv /\ ReportInv /\ SavedInv

\* What a take-over may do to others.
EvictsClosing ==
    \A p \in Processes :
        phase[p] = "evict" /\ phase'[p] = "retry" =>
            \A q \in Processes \ {p} : phase'[q] = phase[q] \/ phase[q] \in {"closing", "flushed"}

LEMMA LaunchInit == Init => LaunchInv
<1> SUFFICES ASSUME I!Init, response \in [Processes -> {"none", "whole"}] PROVE LaunchInv
    BY DEF Init
<1> USE NoneIsNobody DEF I!Init, I!Blank
<1>1. I!TypeOK
    <2>1. /\ stale \in [Processes -> SUBSET ({"request", "response"} \X Processes)]
          /\ seen \in [Processes -> [pid : Processes \cup {None}, state : {"running", "closing"}]]
          /\ file \in [pid : Processes \cup {None}, state : {"running", "closing"}]
        OBVIOUS
    <2>2. crashes \in 0 .. MaxCrashes
        BY BoundsAreNumbers
    <2> QED BY ZenonT(40), <2>1, <2>2 DEF I!TypeOK
<1>2. LockInv /\ FileInv /\ SeenInv
    BY DEF LockInv, FileInv, SeenInv, Holding, Past, I!Owner, I!Owning
<1>3. RequestInv /\ RunInv
    BY DEF RequestInv, RunInv
<1>4. ReportInv /\ SavedInv
    BY DEF ReportInv, SavedInv, Informed
<1> QED BY <1>1, <1>2, <1>3, <1>4 DEF LaunchInv

Phases == {"off", "start", "look", "evict", "retry", "notify", "claim", "send", "wait", "left", "dead"}
          \cup I!Owning

\* What ends with a process leaves the rest well-formed.
LEMMA GoneTyped ==
    ASSUME I!TypeOK, NEW p, I!Gone(p)
    PROVE  /\ holders' \subseteq Processes
           /\ wakeable' \subseteq Processes /\ woken' \subseteq wakeable'
           /\ batch' \subseteq Processes /\ serving' \in Processes \cup {None} /\ answered' \in BOOLEAN
           /\ broken' \in [Processes -> Nat] /\ unsaved' \subseteq Processes
<1>1. holders' \subseteq Processes /\ wakeable' \subseteq Processes /\ woken' \subseteq wakeable'
    BY DEF I!TypeOK, I!Gone
<1>2. /\ batch' \subseteq Processes /\ serving' \in Processes \cup {None} /\ answered' \in BOOLEAN
      /\ unsaved' \subseteq Processes
    BY DEF I!TypeOK, I!Gone
<1>3. broken' = broken \/ (serving # None /\ broken' = [broken EXCEPT ![serving] = @ + 1])
    BY DEF I!Gone
<1>4. broken' \in [Processes -> Nat]
    BY <1>3 DEF I!TypeOK
<1> QED BY <1>1, <1>2, <1>4

LEMMA DieTyped ==
    ASSUME I!TypeOK, NEW p \in Processes, NEW q \in Processes, NEW to \in Phases, I!Die(p, q, to),
           crashes' \in 0 .. MaxCrashes,
           seen' \in [Processes -> [pid : Processes \cup {None}, state : {"running", "closing"}]]
    PROVE  I!TypeOK'
<1>1. I!Gone(p)
    BY DEF I!Die
<1>2. phase' \in [Processes -> Phases]
    BY DEF I!Die, I!TypeOK, Phases
<1> QED BY <1>1, <1>2, GoneTyped DEF I!Die, I!TypeOK, Phases, I!files

LEMMA LaunchTyped == I!TypeOK /\ SeenInv /\ [I!Next]_(I!vars) => I!TypeOK'
<1> SUFFICES ASSUME I!TypeOK, SeenInv, [I!Next]_(I!vars) PROVE I!TypeOK'
    OBVIOUS
<1> USE NoneIsNobody DEF I!Owner, I!Owning, I!Serving, I!Goto, I!Forget, I!Rewritten, I!Blank,
       I!files, I!service, I!results, I!lock, I!TypeOK
<1>1. ASSUME NEW p \in Processes, I!Launch(p) PROVE I!TypeOK'
    BY <1>1 DEF I!Launch
<1>2. ASSUME NEW p \in Processes, I!Probe(p) PROVE I!TypeOK'
    <2>1. CASE I!TakeLock(p)
        BY <1>2, <2>1 DEF I!Probe, I!TakeLock
    <2>2. CASE ~I!TakeLock(p)
        BY <1>2, <2>2 DEF I!Probe, I!Keep
    <2> QED BY <2>1, <2>2
<1>3. ASSUME NEW p \in Processes, I!Look(p) PROVE I!TypeOK'
    BY <1>3 DEF I!Look
<1>4. ASSUME NEW p \in Processes, I!Evict(p) PROVE I!TypeOK'
    <2>1. CASE I!Alive(seen[p].pid)
        <3>1. I!Die(seen[p].pid, p, "retry") /\ UNCHANGED <<seen, crashes>>
            BY <1>4, <2>1 DEF I!Evict
        <3>2. seen[p].pid \in Processes
            BY <1>4 DEF I!Evict, SeenInv
        <3> QED BY <3>1, <3>2, DieTyped DEF Phases
    <2>2. CASE ~I!Alive(seen[p].pid)
        BY <1>4, <2>2 DEF I!Evict
    <2> QED BY <2>1, <2>2
<1>5. ASSUME NEW p \in Processes, I!Retry(p) PROVE I!TypeOK'
    BY <1>5 DEF I!Retry, I!TakeLock, I!Keep
<1>6. ASSUME NEW p \in Processes, I!GiveUp(p) PROVE I!TypeOK'
    BY <1>6 DEF I!GiveUp
<1>7. ASSUME NEW p \in Processes, I!Notify(p) PROVE I!TypeOK'
    <2>1. seen' = [seen EXCEPT ![p] = I!Blank]
        BY <1>7 DEF I!Notify
    <2>2. CASE \E q \in {"left", "send"} : I!Die(seen[p].pid, p, q) /\ UNCHANGED crashes
                                              /\ seen[p].pid # None
        <3>1. seen[p].pid \in Processes
            BY <2>2
        <3> QED BY <2>1, <2>2, <3>1, DieTyped DEF Phases
    <2>3. CASE ~\E q \in {"left", "send"} : I!Die(seen[p].pid, p, q) /\ UNCHANGED crashes
                                               /\ seen[p].pid # None
        <3>1. /\ holders' \in {holders, holders \ {p}}
              /\ woken' = woken \/ woken' = woken \cup wakeable
                                \/ woken' = woken \cup (wakeable \cap {seen[p].pid})
              /\ phase' = [phase EXCEPT ![p] = "left"] \/ phase' = [phase EXCEPT ![p] = "send"]
              /\ UNCHANGED <<platform, kind, file, wakeable, stale, request, response, batch, serving,
                             answered, runs, broken, outcome, unsaved, saved, late, crashes>>
            BY <1>7, <2>3 DEF I!Notify
        <3> QED BY <2>1, <3>1
    <2> QED BY <2>2, <2>3
<1>8. ASSUME NEW p \in Processes, I!Claim(p) PROVE I!TypeOK'
    BY <1>8 DEF I!Claim
<1>9. ASSUME NEW p \in Processes, I!Install(p) PROVE I!TypeOK'
    BY <1>9 DEF I!Install
<1>10. ASSUME NEW p \in Processes, I!Hydrate(p) PROVE I!TypeOK'
    BY <1>10 DEF I!Hydrate
<1>11. ASSUME NEW p \in Processes, I!Command(p) PROVE I!TypeOK'
    BY <1>11 DEF I!Command
<1>12. ASSUME NEW p \in Processes, I!FinishCommand(p) PROVE I!TypeOK'
    BY <1>12, GoneTyped DEF I!FinishCommand
<1>13. ASSUME NEW p \in Processes, I!Consume(p) PROVE I!TypeOK'
    BY <1>13 DEF I!Consume
<1>14. ASSUME NEW p \in Processes, I!Flush(p) PROVE I!TypeOK'
    BY <1>14 DEF I!Flush
<1>15. ASSUME NEW p \in Processes, I!Exit(p) PROVE I!TypeOK'
    BY <1>15 DEF I!Exit
<1>16. ASSUME NEW p \in Processes, I!MarkClosing(p) PROVE I!TypeOK'
    BY <1>16 DEF I!MarkClosing
<1>17. ASSUME NEW p \in Processes, I!ExitFlush(p) PROVE I!TypeOK'
    BY <1>17 DEF I!ExitFlush
<1>18. ASSUME NEW p \in Processes, I!Quit(p) PROVE I!TypeOK'
    BY <1>18, GoneTyped DEF I!Quit
<1>19. ASSUME NEW p \in Processes, I!Scan(p) PROVE I!TypeOK'
    BY <1>19 DEF I!Scan
<1>20. ASSUME NEW p \in Processes, NEW c \in Processes, I!Begin(p, c) PROVE I!TypeOK'
    BY <1>20 DEF I!Begin
<1>21. ASSUME NEW p \in Processes, I!WriteFooter(p) PROVE I!TypeOK'
    BY <1>21 DEF I!WriteFooter
<1>22. ASSUME NEW p \in Processes, I!RemoveRequest(p) PROVE I!TypeOK'
    BY <1>22 DEF I!RemoveRequest
<1>23. ASSUME NEW p \in Processes, I!Send(p) PROVE I!TypeOK'
    BY <1>23 DEF I!Send
<1>24. ASSUME NEW p \in Processes, I!Collect(p) PROVE I!TypeOK'
    BY <1>24 DEF I!Collect, I!LeaveWith
<1>25. ASSUME NEW p \in Processes, I!GiveUpWaiting(p) PROVE I!TypeOK'
    BY <1>25 DEF I!GiveUpWaiting, I!LeaveWith
<1>26. ASSUME NEW p \in Processes, I!Crash(p) PROVE I!TypeOK'
    BY <1>26, DieTyped, BoundsAreNumbers DEF I!Crash, I!Alive, Phases
<1>27. CASE UNCHANGED I!vars
    BY <1>27 DEF I!vars
<1> HIDE DEF I!TypeOK
<1> QED
    BY <1>1, <1>2, <1>3, <1>4, <1>5, <1>6, <1>7, <1>8, <1>9, <1>10, <1>11, <1>12, <1>13, <1>14,
           <1>15, <1>16, <1>17, <1>18, <1>19, <1>20, <1>21, <1>22, <1>23, <1>24, <1>25, <1>26,
           <1>27 DEF I!Next

LEMMA LockStep == I!TypeOK /\ LockInv /\ [I!Next]_(I!vars) => LockInv'
<1> SUFFICES ASSUME I!TypeOK, LockInv, [I!Next]_(I!vars) PROVE LockInv'
    OBVIOUS
<1> USE NoneIsNobody DEF I!Owner, I!Owning, I!Serving, I!Goto, I!Forget, I!Rewritten, I!Blank,
       I!files, I!service, I!results, I!lock, I!TypeOK, LockInv, Holding
<1>1. ASSUME NEW p \in Processes, I!Launch(p) PROVE LockInv'
    BY <1>1 DEF I!Launch
<1>2. ASSUME NEW p \in Processes, I!Probe(p) PROVE LockInv'
    BY <1>2 DEF I!Probe, I!TakeLock, I!Keep
<1>3. ASSUME NEW p \in Processes, I!Look(p) PROVE LockInv'
    BY <1>3 DEF I!Look
<1>4. ASSUME NEW p \in Processes, I!Evict(p) PROVE LockInv'
    BY <1>4 DEF I!Evict, I!Die, I!Gone, I!Alive
<1>5. ASSUME NEW p \in Processes, I!Retry(p) PROVE LockInv'
    BY <1>5 DEF I!Retry, I!TakeLock, I!Keep
<1>6. ASSUME NEW p \in Processes, I!GiveUp(p) PROVE LockInv'
    BY <1>6 DEF I!GiveUp
<1>7. ASSUME NEW p \in Processes, I!Notify(p) PROVE LockInv'
    BY <1>7 DEF I!Notify, I!Die, I!Gone, I!Alive
<1>8. ASSUME NEW p \in Processes, I!Claim(p) PROVE LockInv'
    BY <1>8 DEF I!Claim
<1>9. ASSUME NEW p \in Processes, I!Install(p) PROVE LockInv'
    BY <1>9 DEF I!Install
<1>10. ASSUME NEW p \in Processes, I!Hydrate(p) PROVE LockInv'
    BY <1>10 DEF I!Hydrate
<1>11. ASSUME NEW p \in Processes, I!Command(p) PROVE LockInv'
    BY <1>11 DEF I!Command
<1>12. ASSUME NEW p \in Processes, I!FinishCommand(p) PROVE LockInv'
    BY <1>12 DEF I!FinishCommand, I!Gone
<1>13. ASSUME NEW p \in Processes, I!Consume(p) PROVE LockInv'
    BY <1>13 DEF I!Consume
<1>14. ASSUME NEW p \in Processes, I!Flush(p) PROVE LockInv'
    BY <1>14 DEF I!Flush
<1>15. ASSUME NEW p \in Processes, I!Exit(p) PROVE LockInv'
    BY <1>15 DEF I!Exit
<1>16. ASSUME NEW p \in Processes, I!MarkClosing(p) PROVE LockInv'
    BY <1>16 DEF I!MarkClosing
<1>17. ASSUME NEW p \in Processes, I!ExitFlush(p) PROVE LockInv'
    BY <1>17 DEF I!ExitFlush
<1>18. ASSUME NEW p \in Processes, I!Quit(p) PROVE LockInv'
    BY <1>18 DEF I!Quit, I!Gone
<1>19. ASSUME NEW p \in Processes, I!Scan(p) PROVE LockInv'
    BY <1>19 DEF I!Scan
<1>20. ASSUME NEW p \in Processes, NEW c \in Processes, I!Begin(p, c) PROVE LockInv'
    BY <1>20 DEF I!Begin
<1>21. ASSUME NEW p \in Processes, I!WriteFooter(p) PROVE LockInv'
    BY <1>21 DEF I!WriteFooter
<1>22. ASSUME NEW p \in Processes, I!RemoveRequest(p) PROVE LockInv'
    BY <1>22 DEF I!RemoveRequest
<1>23. ASSUME NEW p \in Processes, I!Send(p) PROVE LockInv'
    BY <1>23 DEF I!Send
<1>24. ASSUME NEW p \in Processes, I!Collect(p) PROVE LockInv'
    BY <1>24 DEF I!Collect, I!LeaveWith
<1>25. ASSUME NEW p \in Processes, I!GiveUpWaiting(p) PROVE LockInv'
    BY <1>25 DEF I!GiveUpWaiting, I!LeaveWith
<1>26. ASSUME NEW p \in Processes, I!Crash(p) PROVE LockInv'
    BY <1>26 DEF I!Crash, I!Die, I!Gone, I!Alive
<1>27. CASE UNCHANGED I!vars
    BY <1>27 DEF I!vars
<1> HIDE DEF I!TypeOK, LockInv, Holding
<1> QED
    BY <1>1, <1>2, <1>3, <1>4, <1>5, <1>6, <1>7, <1>8, <1>9, <1>10, <1>11, <1>12, <1>13, <1>14,
           <1>15, <1>16, <1>17, <1>18, <1>19, <1>20, <1>21, <1>22, <1>23, <1>24, <1>25, <1>26,
           <1>27 DEF I!Next

LEMMA FileStep == I!TypeOK /\ LockInv /\ FileInv /\ [I!Next]_(I!vars) => FileInv'
<1> SUFFICES ASSUME I!TypeOK, LockInv, FileInv, [I!Next]_(I!vars) PROVE FileInv'
    OBVIOUS
<1> USE NoneIsNobody DEF I!Owner, I!Owning, I!Serving, I!Goto, I!Forget, I!Rewritten, I!Blank,
       I!files, I!service, I!results, I!lock, I!TypeOK, LockInv, Holding, FileInv, Past
<1>1. ASSUME NEW p \in Processes, I!Launch(p) PROVE FileInv'
    BY <1>1 DEF I!Launch
<1>2. ASSUME NEW p \in Processes, I!Probe(p) PROVE FileInv'
    BY <1>2 DEF I!Probe, I!TakeLock, I!Keep
<1>3. ASSUME NEW p \in Processes, I!Look(p) PROVE FileInv'
    BY <1>3 DEF I!Look
<1>4. ASSUME NEW p \in Processes, I!Evict(p) PROVE FileInv'
    BY <1>4 DEF I!Evict, I!Die, I!Gone, I!Alive
<1>5. ASSUME NEW p \in Processes, I!Retry(p) PROVE FileInv'
    BY <1>5 DEF I!Retry, I!TakeLock, I!Keep
<1>6. ASSUME NEW p \in Processes, I!GiveUp(p) PROVE FileInv'
    BY <1>6 DEF I!GiveUp
<1>7. ASSUME NEW p \in Processes, I!Notify(p) PROVE FileInv'
    BY <1>7 DEF I!Notify, I!Die, I!Gone, I!Alive
<1>8. ASSUME NEW p \in Processes, I!Claim(p) PROVE FileInv'
    BY <1>8 DEF I!Claim
<1>9. ASSUME NEW p \in Processes, I!Install(p) PROVE FileInv'
    BY <1>9 DEF I!Install
<1>10. ASSUME NEW p \in Processes, I!Hydrate(p) PROVE FileInv'
    BY <1>10 DEF I!Hydrate
<1>11. ASSUME NEW p \in Processes, I!Command(p) PROVE FileInv'
    BY <1>11 DEF I!Command
<1>12. ASSUME NEW p \in Processes, I!FinishCommand(p) PROVE FileInv'
    BY <1>12 DEF I!FinishCommand, I!Gone
<1>13. ASSUME NEW p \in Processes, I!Consume(p) PROVE FileInv'
    BY <1>13 DEF I!Consume
<1>14. ASSUME NEW p \in Processes, I!Flush(p) PROVE FileInv'
    BY <1>14 DEF I!Flush
<1>15. ASSUME NEW p \in Processes, I!Exit(p) PROVE FileInv'
    BY <1>15 DEF I!Exit
<1>16. ASSUME NEW p \in Processes, I!MarkClosing(p) PROVE FileInv'
    BY <1>16 DEF I!MarkClosing
<1>17. ASSUME NEW p \in Processes, I!ExitFlush(p) PROVE FileInv'
    BY <1>17 DEF I!ExitFlush
<1>18. ASSUME NEW p \in Processes, I!Quit(p) PROVE FileInv'
    BY <1>18 DEF I!Quit, I!Gone
<1>19. ASSUME NEW p \in Processes, I!Scan(p) PROVE FileInv'
    BY <1>19 DEF I!Scan
<1>20. ASSUME NEW p \in Processes, NEW c \in Processes, I!Begin(p, c) PROVE FileInv'
    BY <1>20 DEF I!Begin
<1>21. ASSUME NEW p \in Processes, I!WriteFooter(p) PROVE FileInv'
    BY <1>21 DEF I!WriteFooter
<1>22. ASSUME NEW p \in Processes, I!RemoveRequest(p) PROVE FileInv'
    BY <1>22 DEF I!RemoveRequest
<1>23. ASSUME NEW p \in Processes, I!Send(p) PROVE FileInv'
    BY <1>23 DEF I!Send
<1>24. ASSUME NEW p \in Processes, I!Collect(p) PROVE FileInv'
    BY <1>24 DEF I!Collect, I!LeaveWith
<1>25. ASSUME NEW p \in Processes, I!GiveUpWaiting(p) PROVE FileInv'
    BY <1>25 DEF I!GiveUpWaiting, I!LeaveWith
<1>26. ASSUME NEW p \in Processes, I!Crash(p) PROVE FileInv'
    BY <1>26 DEF I!Crash, I!Die, I!Gone, I!Alive
<1>27. CASE UNCHANGED I!vars
    BY <1>27 DEF I!vars
<1> HIDE DEF I!TypeOK, LockInv, Holding, FileInv, Past
<1> QED
    BY <1>1, <1>2, <1>3, <1>4, <1>5, <1>6, <1>7, <1>8, <1>9, <1>10, <1>11, <1>12, <1>13, <1>14,
           <1>15, <1>16, <1>17, <1>18, <1>19, <1>20, <1>21, <1>22, <1>23, <1>24, <1>25, <1>26,
           <1>27 DEF I!Next

LEMMA SeenStep == I!TypeOK /\ FileInv /\ SeenInv /\ [I!Next]_(I!vars) => SeenInv'
<1> SUFFICES ASSUME I!TypeOK, FileInv, SeenInv, [I!Next]_(I!vars) PROVE SeenInv'
    OBVIOUS
<1> USE NoneIsNobody DEF I!Owner, I!Owning, I!Serving, I!Goto, I!Forget, I!Rewritten, I!Blank,
       I!files, I!service, I!results, I!lock, I!TypeOK, FileInv, SeenInv, Past
<1>1. ASSUME NEW p \in Processes, I!Launch(p) PROVE SeenInv'
    BY <1>1 DEF I!Launch
<1>2. ASSUME NEW p \in Processes, I!Probe(p) PROVE SeenInv'
    BY <1>2 DEF I!Probe, I!TakeLock, I!Keep
<1>3. ASSUME NEW p \in Processes, I!Look(p) PROVE SeenInv'
    BY <1>3 DEF I!Look
<1>4. ASSUME NEW p \in Processes, I!Evict(p) PROVE SeenInv'
    BY <1>4 DEF I!Evict, I!Die, I!Gone, I!Alive
<1>5. ASSUME NEW p \in Processes, I!Retry(p) PROVE SeenInv'
    BY <1>5 DEF I!Retry, I!TakeLock, I!Keep
<1>6. ASSUME NEW p \in Processes, I!GiveUp(p) PROVE SeenInv'
    BY <1>6 DEF I!GiveUp
<1>7. ASSUME NEW p \in Processes, I!Notify(p) PROVE SeenInv'
    BY <1>7 DEF I!Notify, I!Die, I!Gone, I!Alive
<1>8. ASSUME NEW p \in Processes, I!Claim(p) PROVE SeenInv'
    BY <1>8 DEF I!Claim
<1>9. ASSUME NEW p \in Processes, I!Install(p) PROVE SeenInv'
    BY <1>9 DEF I!Install
<1>10. ASSUME NEW p \in Processes, I!Hydrate(p) PROVE SeenInv'
    BY <1>10 DEF I!Hydrate
<1>11. ASSUME NEW p \in Processes, I!Command(p) PROVE SeenInv'
    BY <1>11 DEF I!Command
<1>12. ASSUME NEW p \in Processes, I!FinishCommand(p) PROVE SeenInv'
    BY <1>12 DEF I!FinishCommand, I!Gone
<1>13. ASSUME NEW p \in Processes, I!Consume(p) PROVE SeenInv'
    BY <1>13 DEF I!Consume
<1>14. ASSUME NEW p \in Processes, I!Flush(p) PROVE SeenInv'
    BY <1>14 DEF I!Flush
<1>15. ASSUME NEW p \in Processes, I!Exit(p) PROVE SeenInv'
    BY <1>15 DEF I!Exit
<1>16. ASSUME NEW p \in Processes, I!MarkClosing(p) PROVE SeenInv'
    BY <1>16 DEF I!MarkClosing
<1>17. ASSUME NEW p \in Processes, I!ExitFlush(p) PROVE SeenInv'
    BY <1>17 DEF I!ExitFlush
<1>18. ASSUME NEW p \in Processes, I!Quit(p) PROVE SeenInv'
    BY <1>18 DEF I!Quit, I!Gone
<1>19. ASSUME NEW p \in Processes, I!Scan(p) PROVE SeenInv'
    BY <1>19 DEF I!Scan
<1>20. ASSUME NEW p \in Processes, NEW c \in Processes, I!Begin(p, c) PROVE SeenInv'
    BY <1>20 DEF I!Begin
<1>21. ASSUME NEW p \in Processes, I!WriteFooter(p) PROVE SeenInv'
    BY <1>21 DEF I!WriteFooter
<1>22. ASSUME NEW p \in Processes, I!RemoveRequest(p) PROVE SeenInv'
    BY <1>22 DEF I!RemoveRequest
<1>23. ASSUME NEW p \in Processes, I!Send(p) PROVE SeenInv'
    BY <1>23 DEF I!Send
<1>24. ASSUME NEW p \in Processes, I!Collect(p) PROVE SeenInv'
    BY <1>24 DEF I!Collect, I!LeaveWith
<1>25. ASSUME NEW p \in Processes, I!GiveUpWaiting(p) PROVE SeenInv'
    BY <1>25 DEF I!GiveUpWaiting, I!LeaveWith
<1>26. ASSUME NEW p \in Processes, I!Crash(p) PROVE SeenInv'
    BY <1>26 DEF I!Crash, I!Die, I!Gone, I!Alive
<1>27. CASE UNCHANGED I!vars
    BY <1>27 DEF I!vars
<1> HIDE DEF I!TypeOK, FileInv, SeenInv, Past
<1> QED
    BY <1>1, <1>2, <1>3, <1>4, <1>5, <1>6, <1>7, <1>8, <1>9, <1>10, <1>11, <1>12, <1>13, <1>14,
           <1>15, <1>16, <1>17, <1>18, <1>19, <1>20, <1>21, <1>22, <1>23, <1>24, <1>25, <1>26,
           <1>27 DEF I!Next

LEMMA RequestStep == I!TypeOK /\ RequestInv /\ [I!Next]_(I!vars) => RequestInv'
<1> SUFFICES ASSUME I!TypeOK, RequestInv, [I!Next]_(I!vars) PROVE RequestInv'
    OBVIOUS
<1> USE NoneIsNobody DEF I!Owner, I!Owning, I!Serving, I!Goto, I!Forget, I!Rewritten, I!Blank,
       I!files, I!service, I!results, I!lock, I!TypeOK, RequestInv
<1>1. ASSUME NEW p \in Processes, I!Launch(p) PROVE RequestInv'
    BY <1>1 DEF I!Launch
<1>2. ASSUME NEW p \in Processes, I!Probe(p) PROVE RequestInv'
    BY <1>2 DEF I!Probe, I!TakeLock, I!Keep
<1>3. ASSUME NEW p \in Processes, I!Look(p) PROVE RequestInv'
    BY <1>3 DEF I!Look
<1>4. ASSUME NEW p \in Processes, I!Evict(p) PROVE RequestInv'
    BY <1>4 DEF I!Evict, I!Die, I!Gone, I!Alive
<1>5. ASSUME NEW p \in Processes, I!Retry(p) PROVE RequestInv'
    BY <1>5 DEF I!Retry, I!TakeLock, I!Keep
<1>6. ASSUME NEW p \in Processes, I!GiveUp(p) PROVE RequestInv'
    BY <1>6 DEF I!GiveUp
<1>7. ASSUME NEW p \in Processes, I!Notify(p) PROVE RequestInv'
    BY <1>7 DEF I!Notify, I!Die, I!Gone, I!Alive
<1>8. ASSUME NEW p \in Processes, I!Claim(p) PROVE RequestInv'
    BY <1>8 DEF I!Claim
<1>9. ASSUME NEW p \in Processes, I!Install(p) PROVE RequestInv'
    BY <1>9 DEF I!Install
<1>10. ASSUME NEW p \in Processes, I!Hydrate(p) PROVE RequestInv'
    BY <1>10 DEF I!Hydrate
<1>11. ASSUME NEW p \in Processes, I!Command(p) PROVE RequestInv'
    BY <1>11 DEF I!Command
<1>12. ASSUME NEW p \in Processes, I!FinishCommand(p) PROVE RequestInv'
    BY <1>12 DEF I!FinishCommand, I!Gone
<1>13. ASSUME NEW p \in Processes, I!Consume(p) PROVE RequestInv'
    BY <1>13 DEF I!Consume
<1>14. ASSUME NEW p \in Processes, I!Flush(p) PROVE RequestInv'
    BY <1>14 DEF I!Flush
<1>15. ASSUME NEW p \in Processes, I!Exit(p) PROVE RequestInv'
    BY <1>15 DEF I!Exit
<1>16. ASSUME NEW p \in Processes, I!MarkClosing(p) PROVE RequestInv'
    BY <1>16 DEF I!MarkClosing
<1>17. ASSUME NEW p \in Processes, I!ExitFlush(p) PROVE RequestInv'
    BY <1>17 DEF I!ExitFlush
<1>18. ASSUME NEW p \in Processes, I!Quit(p) PROVE RequestInv'
    BY <1>18 DEF I!Quit, I!Gone
<1>19. ASSUME NEW p \in Processes, I!Scan(p) PROVE RequestInv'
    BY <1>19 DEF I!Scan
<1>20. ASSUME NEW p \in Processes, NEW c \in Processes, I!Begin(p, c) PROVE RequestInv'
    BY <1>20 DEF I!Begin
<1>21. ASSUME NEW p \in Processes, I!WriteFooter(p) PROVE RequestInv'
    BY <1>21 DEF I!WriteFooter
<1>22. ASSUME NEW p \in Processes, I!RemoveRequest(p) PROVE RequestInv'
    BY <1>22 DEF I!RemoveRequest
<1>23. ASSUME NEW p \in Processes, I!Send(p) PROVE RequestInv'
    BY <1>23 DEF I!Send
<1>24. ASSUME NEW p \in Processes, I!Collect(p) PROVE RequestInv'
    BY <1>24 DEF I!Collect, I!LeaveWith
<1>25. ASSUME NEW p \in Processes, I!GiveUpWaiting(p) PROVE RequestInv'
    BY <1>25 DEF I!GiveUpWaiting, I!LeaveWith
<1>26. ASSUME NEW p \in Processes, I!Crash(p) PROVE RequestInv'
    BY <1>26 DEF I!Crash, I!Die, I!Gone, I!Alive
<1>27. CASE UNCHANGED I!vars
    BY <1>27 DEF I!vars
<1> HIDE DEF I!TypeOK, RequestInv
<1> QED
    BY <1>1, <1>2, <1>3, <1>4, <1>5, <1>6, <1>7, <1>8, <1>9, <1>10, <1>11, <1>12, <1>13, <1>14,
           <1>15, <1>16, <1>17, <1>18, <1>19, <1>20, <1>21, <1>22, <1>23, <1>24, <1>25, <1>26,
           <1>27 DEF I!Next

LEMMA RunStep == I!TypeOK /\ RequestInv /\ RunInv /\ [I!Next]_(I!vars) => RunInv'
<1> SUFFICES ASSUME I!TypeOK, RequestInv, RunInv, [I!Next]_(I!vars) PROVE RunInv'
    OBVIOUS
<1> USE NoneIsNobody DEF I!Owner, I!Owning, I!Serving, I!Goto, I!Forget, I!Rewritten, I!Blank,
       I!files, I!service, I!results, I!lock, I!TypeOK, RequestInv, RunInv
<1>1. ASSUME NEW p \in Processes, I!Launch(p) PROVE RunInv'
    BY <1>1 DEF I!Launch
<1>2. ASSUME NEW p \in Processes, I!Probe(p) PROVE RunInv'
    BY <1>2 DEF I!Probe, I!TakeLock, I!Keep
<1>3. ASSUME NEW p \in Processes, I!Look(p) PROVE RunInv'
    BY <1>3 DEF I!Look
<1>4. ASSUME NEW p \in Processes, I!Evict(p) PROVE RunInv'
    BY <1>4 DEF I!Evict, I!Die, I!Gone, I!Alive
<1>5. ASSUME NEW p \in Processes, I!Retry(p) PROVE RunInv'
    BY <1>5 DEF I!Retry, I!TakeLock, I!Keep
<1>6. ASSUME NEW p \in Processes, I!GiveUp(p) PROVE RunInv'
    BY <1>6 DEF I!GiveUp
<1>7. ASSUME NEW p \in Processes, I!Notify(p) PROVE RunInv'
    BY <1>7 DEF I!Notify, I!Die, I!Gone, I!Alive
<1>8. ASSUME NEW p \in Processes, I!Claim(p) PROVE RunInv'
    BY <1>8 DEF I!Claim
<1>9. ASSUME NEW p \in Processes, I!Install(p) PROVE RunInv'
    BY <1>9 DEF I!Install
<1>10. ASSUME NEW p \in Processes, I!Hydrate(p) PROVE RunInv'
    BY <1>10 DEF I!Hydrate
<1>11. ASSUME NEW p \in Processes, I!Command(p) PROVE RunInv'
    BY <1>11 DEF I!Command
<1>12. ASSUME NEW p \in Processes, I!FinishCommand(p) PROVE RunInv'
    BY <1>12 DEF I!FinishCommand, I!Gone
<1>13. ASSUME NEW p \in Processes, I!Consume(p) PROVE RunInv'
    BY <1>13 DEF I!Consume
<1>14. ASSUME NEW p \in Processes, I!Flush(p) PROVE RunInv'
    BY <1>14 DEF I!Flush
<1>15. ASSUME NEW p \in Processes, I!Exit(p) PROVE RunInv'
    BY <1>15 DEF I!Exit
<1>16. ASSUME NEW p \in Processes, I!MarkClosing(p) PROVE RunInv'
    BY <1>16 DEF I!MarkClosing
<1>17. ASSUME NEW p \in Processes, I!ExitFlush(p) PROVE RunInv'
    BY <1>17 DEF I!ExitFlush
<1>18. ASSUME NEW p \in Processes, I!Quit(p) PROVE RunInv'
    BY <1>18 DEF I!Quit, I!Gone
<1>19. ASSUME NEW p \in Processes, I!Scan(p) PROVE RunInv'
    BY <1>19 DEF I!Scan
<1>20. ASSUME NEW p \in Processes, NEW c \in Processes, I!Begin(p, c) PROVE RunInv'
    BY <1>20 DEF I!Begin
<1>21. ASSUME NEW p \in Processes, I!WriteFooter(p) PROVE RunInv'
    BY <1>21 DEF I!WriteFooter
<1>22. ASSUME NEW p \in Processes, I!RemoveRequest(p) PROVE RunInv'
    BY <1>22 DEF I!RemoveRequest
<1>23. ASSUME NEW p \in Processes, I!Send(p) PROVE RunInv'
    BY <1>23 DEF I!Send
<1>24. ASSUME NEW p \in Processes, I!Collect(p) PROVE RunInv'
    BY <1>24 DEF I!Collect, I!LeaveWith
<1>25. ASSUME NEW p \in Processes, I!GiveUpWaiting(p) PROVE RunInv'
    BY <1>25 DEF I!GiveUpWaiting, I!LeaveWith
<1>26. ASSUME NEW p \in Processes, I!Crash(p) PROVE RunInv'
    BY <1>26 DEF I!Crash, I!Die, I!Gone, I!Alive
<1>27. CASE UNCHANGED I!vars
    BY <1>27 DEF I!vars
<1> HIDE DEF I!TypeOK, RequestInv, RunInv
<1> QED
    BY <1>1, <1>2, <1>3, <1>4, <1>5, <1>6, <1>7, <1>8, <1>9, <1>10, <1>11, <1>12, <1>13, <1>14,
           <1>15, <1>16, <1>17, <1>18, <1>19, <1>20, <1>21, <1>22, <1>23, <1>24, <1>25, <1>26,
           <1>27 DEF I!Next

LEMMA ReportStep == I!TypeOK /\ ReportInv /\ [I!Next]_(I!vars) => ReportInv'
<1> SUFFICES ASSUME I!TypeOK, ReportInv, [I!Next]_(I!vars) PROVE ReportInv'
    OBVIOUS
<1> USE NoneIsNobody DEF I!Owner, I!Owning, I!Serving, I!Goto, I!Forget, I!Rewritten, I!Blank,
       I!files, I!service, I!results, I!lock, I!TypeOK, ReportInv, Informed
<1>1. ASSUME NEW p \in Processes, I!Launch(p) PROVE ReportInv'
    BY <1>1 DEF I!Launch
<1>2. ASSUME NEW p \in Processes, I!Probe(p) PROVE ReportInv'
    BY <1>2 DEF I!Probe, I!TakeLock, I!Keep
<1>3. ASSUME NEW p \in Processes, I!Look(p) PROVE ReportInv'
    BY <1>3 DEF I!Look
<1>4. ASSUME NEW p \in Processes, I!Evict(p) PROVE ReportInv'
    BY <1>4 DEF I!Evict, I!Die, I!Gone, I!Alive
<1>5. ASSUME NEW p \in Processes, I!Retry(p) PROVE ReportInv'
    BY <1>5 DEF I!Retry, I!TakeLock, I!Keep
<1>6. ASSUME NEW p \in Processes, I!GiveUp(p) PROVE ReportInv'
    BY <1>6 DEF I!GiveUp
<1>7. ASSUME NEW p \in Processes, I!Notify(p) PROVE ReportInv'
    BY <1>7 DEF I!Notify, I!Die, I!Gone, I!Alive
<1>8. ASSUME NEW p \in Processes, I!Claim(p) PROVE ReportInv'
    BY <1>8 DEF I!Claim
<1>9. ASSUME NEW p \in Processes, I!Install(p) PROVE ReportInv'
    BY <1>9 DEF I!Install
<1>10. ASSUME NEW p \in Processes, I!Hydrate(p) PROVE ReportInv'
    BY <1>10 DEF I!Hydrate
<1>11. ASSUME NEW p \in Processes, I!Command(p) PROVE ReportInv'
    BY <1>11 DEF I!Command
<1>12. ASSUME NEW p \in Processes, I!FinishCommand(p) PROVE ReportInv'
    BY <1>12 DEF I!FinishCommand, I!Gone
<1>13. ASSUME NEW p \in Processes, I!Consume(p) PROVE ReportInv'
    BY <1>13 DEF I!Consume
<1>14. ASSUME NEW p \in Processes, I!Flush(p) PROVE ReportInv'
    BY <1>14 DEF I!Flush
<1>15. ASSUME NEW p \in Processes, I!Exit(p) PROVE ReportInv'
    BY <1>15 DEF I!Exit
<1>16. ASSUME NEW p \in Processes, I!MarkClosing(p) PROVE ReportInv'
    BY <1>16 DEF I!MarkClosing
<1>17. ASSUME NEW p \in Processes, I!ExitFlush(p) PROVE ReportInv'
    BY <1>17 DEF I!ExitFlush
<1>18. ASSUME NEW p \in Processes, I!Quit(p) PROVE ReportInv'
    BY <1>18 DEF I!Quit, I!Gone
<1>19. ASSUME NEW p \in Processes, I!Scan(p) PROVE ReportInv'
    BY <1>19 DEF I!Scan
<1>20. ASSUME NEW p \in Processes, NEW c \in Processes, I!Begin(p, c) PROVE ReportInv'
    BY <1>20 DEF I!Begin
<1>21. ASSUME NEW p \in Processes, I!WriteFooter(p) PROVE ReportInv'
    BY <1>21 DEF I!WriteFooter
<1>22. ASSUME NEW p \in Processes, I!RemoveRequest(p) PROVE ReportInv'
    BY <1>22 DEF I!RemoveRequest
<1>23. ASSUME NEW p \in Processes, I!Send(p) PROVE ReportInv'
    BY <1>23 DEF I!Send
<1>24. ASSUME NEW p \in Processes, I!Collect(p) PROVE ReportInv'
    BY <1>24 DEF I!Collect, I!LeaveWith
<1>25. ASSUME NEW p \in Processes, I!GiveUpWaiting(p) PROVE ReportInv'
    BY <1>25 DEF I!GiveUpWaiting, I!LeaveWith
<1>26. ASSUME NEW p \in Processes, I!Crash(p) PROVE ReportInv'
    BY <1>26 DEF I!Crash, I!Die, I!Gone, I!Alive
<1>27. CASE UNCHANGED I!vars
    BY <1>27 DEF I!vars
<1> HIDE DEF I!TypeOK, ReportInv, Informed
<1> QED
    BY <1>1, <1>2, <1>3, <1>4, <1>5, <1>6, <1>7, <1>8, <1>9, <1>10, <1>11, <1>12, <1>13, <1>14,
           <1>15, <1>16, <1>17, <1>18, <1>19, <1>20, <1>21, <1>22, <1>23, <1>24, <1>25, <1>26,
           <1>27 DEF I!Next

LEMMA SavedStep == I!TypeOK /\ LockInv /\ SeenInv /\ SavedInv /\ [I!Next]_(I!vars) => SavedInv'
<1> SUFFICES ASSUME I!TypeOK, LockInv, SeenInv, SavedInv, [I!Next]_(I!vars) PROVE SavedInv'
    OBVIOUS
<1> USE NoneIsNobody DEF I!Owner, I!Owning, I!Serving, I!Goto, I!Forget, I!Rewritten, I!Blank,
       I!files, I!service, I!results, I!lock, I!TypeOK, LockInv, Holding, SavedInv, Informed
<1>1. ASSUME NEW p \in Processes, I!Launch(p) PROVE SavedInv'
    BY <1>1 DEF I!Launch
<1>2. ASSUME NEW p \in Processes, I!Probe(p) PROVE SavedInv'
    BY <1>2 DEF I!Probe, I!TakeLock, I!Keep
<1>3. ASSUME NEW p \in Processes, I!Look(p) PROVE SavedInv'
    BY <1>3 DEF I!Look
<1>4. ASSUME NEW p \in Processes, I!Evict(p) PROVE SavedInv'
    <2>1. CASE I!Alive(seen[p].pid)
        <3>1. I!Die(seen[p].pid, p, "retry")
            BY <1>4, <2>1 DEF I!Evict
        <3>2. seen[p].pid \in Processes
            BY <1>4 DEF I!Evict, SeenInv
        <3> QED BY <3>1, <3>2 DEF I!Die
    <2>2. CASE ~I!Alive(seen[p].pid)
        BY <1>4, <2>2 DEF I!Evict
    <2> QED BY <2>1, <2>2
<1>5. ASSUME NEW p \in Processes, I!Retry(p) PROVE SavedInv'
    BY <1>5 DEF I!Retry, I!TakeLock, I!Keep
<1>6. ASSUME NEW p \in Processes, I!GiveUp(p) PROVE SavedInv'
    BY <1>6 DEF I!GiveUp
<1>7. ASSUME NEW p \in Processes, I!Notify(p) PROVE SavedInv'
    BY <1>7 DEF I!Notify, I!Die, I!Gone, I!Alive
<1>8. ASSUME NEW p \in Processes, I!Claim(p) PROVE SavedInv'
    BY <1>8 DEF I!Claim
<1>9. ASSUME NEW p \in Processes, I!Install(p) PROVE SavedInv'
    BY <1>9 DEF I!Install
<1>10. ASSUME NEW p \in Processes, I!Hydrate(p) PROVE SavedInv'
    BY <1>10 DEF I!Hydrate
<1>11. ASSUME NEW p \in Processes, I!Command(p) PROVE SavedInv'
    BY <1>11 DEF I!Command
<1>12. ASSUME NEW p \in Processes, I!FinishCommand(p) PROVE SavedInv'
    BY <1>12 DEF I!FinishCommand, I!Gone
<1>13. ASSUME NEW p \in Processes, I!Consume(p) PROVE SavedInv'
    BY <1>13 DEF I!Consume
<1>14. ASSUME NEW p \in Processes, I!Flush(p) PROVE SavedInv'
    BY <1>14 DEF I!Flush
<1>15. ASSUME NEW p \in Processes, I!Exit(p) PROVE SavedInv'
    BY <1>15 DEF I!Exit
<1>16. ASSUME NEW p \in Processes, I!MarkClosing(p) PROVE SavedInv'
    BY <1>16 DEF I!MarkClosing
<1>17. ASSUME NEW p \in Processes, I!ExitFlush(p) PROVE SavedInv'
    BY <1>17 DEF I!ExitFlush
<1>18. ASSUME NEW p \in Processes, I!Quit(p) PROVE SavedInv'
    BY <1>18 DEF I!Quit, I!Gone
<1>19. ASSUME NEW p \in Processes, I!Scan(p) PROVE SavedInv'
    BY <1>19 DEF I!Scan
<1>20. ASSUME NEW p \in Processes, NEW c \in Processes, I!Begin(p, c) PROVE SavedInv'
    BY <1>20 DEF I!Begin
<1>21. ASSUME NEW p \in Processes, I!WriteFooter(p) PROVE SavedInv'
    BY <1>21 DEF I!WriteFooter
<1>22. ASSUME NEW p \in Processes, I!RemoveRequest(p) PROVE SavedInv'
    BY <1>22 DEF I!RemoveRequest
<1>23. ASSUME NEW p \in Processes, I!Send(p) PROVE SavedInv'
    BY <1>23 DEF I!Send
<1>24. ASSUME NEW p \in Processes, I!Collect(p) PROVE SavedInv'
    BY <1>24 DEF I!Collect, I!LeaveWith
<1>25. ASSUME NEW p \in Processes, I!GiveUpWaiting(p) PROVE SavedInv'
    BY <1>25 DEF I!GiveUpWaiting, I!LeaveWith
<1>26. ASSUME NEW p \in Processes, I!Crash(p) PROVE SavedInv'
    BY <1>26 DEF I!Crash, I!Die, I!Gone, I!Alive
<1>27. CASE UNCHANGED I!vars
    BY <1>27 DEF I!vars
<1> HIDE DEF I!TypeOK, LockInv, Holding, SavedInv, Informed
<1> QED
    BY <1>1, <1>2, <1>3, <1>4, <1>5, <1>6, <1>7, <1>8, <1>9, <1>10, <1>11, <1>12, <1>13, <1>14,
           <1>15, <1>16, <1>17, <1>18, <1>19, <1>20, <1>21, <1>22, <1>23, <1>24, <1>25, <1>26,
           <1>27 DEF I!Next

LEMMA EvictStep == LaunchInv /\ [I!Next]_(I!vars) => EvictsClosing
<1> SUFFICES ASSUME LaunchInv, [I!Next]_(I!vars) PROVE EvictsClosing
    OBVIOUS
<1> USE NoneIsNobody DEF I!Owner, I!Owning, I!Serving, I!Goto, I!Forget, I!Rewritten, I!Blank,
       I!files, I!service, I!results, I!lock, I!TypeOK, LaunchInv, SeenInv, EvictsClosing
<1>1. ASSUME NEW p \in Processes, I!Launch(p) PROVE EvictsClosing
    BY <1>1 DEF I!Launch
<1>2. ASSUME NEW p \in Processes, I!Probe(p) PROVE EvictsClosing
    BY <1>2 DEF I!Probe, I!TakeLock, I!Keep
<1>3. ASSUME NEW p \in Processes, I!Look(p) PROVE EvictsClosing
    BY <1>3 DEF I!Look
<1>4. ASSUME NEW p \in Processes, I!Evict(p) PROVE EvictsClosing
    BY <1>4 DEF I!Evict, I!Die, I!Gone, I!Alive
<1>5. ASSUME NEW p \in Processes, I!Retry(p) PROVE EvictsClosing
    BY <1>5 DEF I!Retry, I!TakeLock, I!Keep
<1>6. ASSUME NEW p \in Processes, I!GiveUp(p) PROVE EvictsClosing
    BY <1>6 DEF I!GiveUp
<1>7. ASSUME NEW p \in Processes, I!Notify(p) PROVE EvictsClosing
    BY <1>7 DEF I!Notify, I!Die, I!Gone, I!Alive
<1>8. ASSUME NEW p \in Processes, I!Claim(p) PROVE EvictsClosing
    BY <1>8 DEF I!Claim
<1>9. ASSUME NEW p \in Processes, I!Install(p) PROVE EvictsClosing
    BY <1>9 DEF I!Install
<1>10. ASSUME NEW p \in Processes, I!Hydrate(p) PROVE EvictsClosing
    BY <1>10 DEF I!Hydrate
<1>11. ASSUME NEW p \in Processes, I!Command(p) PROVE EvictsClosing
    BY <1>11 DEF I!Command
<1>12. ASSUME NEW p \in Processes, I!FinishCommand(p) PROVE EvictsClosing
    BY <1>12 DEF I!FinishCommand, I!Gone
<1>13. ASSUME NEW p \in Processes, I!Consume(p) PROVE EvictsClosing
    BY <1>13 DEF I!Consume
<1>14. ASSUME NEW p \in Processes, I!Flush(p) PROVE EvictsClosing
    BY <1>14 DEF I!Flush
<1>15. ASSUME NEW p \in Processes, I!Exit(p) PROVE EvictsClosing
    BY <1>15 DEF I!Exit
<1>16. ASSUME NEW p \in Processes, I!MarkClosing(p) PROVE EvictsClosing
    BY <1>16 DEF I!MarkClosing
<1>17. ASSUME NEW p \in Processes, I!ExitFlush(p) PROVE EvictsClosing
    BY <1>17 DEF I!ExitFlush
<1>18. ASSUME NEW p \in Processes, I!Quit(p) PROVE EvictsClosing
    BY <1>18 DEF I!Quit, I!Gone
<1>19. ASSUME NEW p \in Processes, I!Scan(p) PROVE EvictsClosing
    BY <1>19 DEF I!Scan
<1>20. ASSUME NEW p \in Processes, NEW c \in Processes, I!Begin(p, c) PROVE EvictsClosing
    BY <1>20 DEF I!Begin
<1>21. ASSUME NEW p \in Processes, I!WriteFooter(p) PROVE EvictsClosing
    BY <1>21 DEF I!WriteFooter
<1>22. ASSUME NEW p \in Processes, I!RemoveRequest(p) PROVE EvictsClosing
    BY <1>22 DEF I!RemoveRequest
<1>23. ASSUME NEW p \in Processes, I!Send(p) PROVE EvictsClosing
    BY <1>23 DEF I!Send
<1>24. ASSUME NEW p \in Processes, I!Collect(p) PROVE EvictsClosing
    BY <1>24 DEF I!Collect, I!LeaveWith
<1>25. ASSUME NEW p \in Processes, I!GiveUpWaiting(p) PROVE EvictsClosing
    BY <1>25 DEF I!GiveUpWaiting, I!LeaveWith
<1>26. ASSUME NEW p \in Processes, I!Crash(p) PROVE EvictsClosing
    BY <1>26 DEF I!Crash, I!Die, I!Gone, I!Alive
<1>27. CASE UNCHANGED I!vars
    BY <1>27 DEF I!vars
<1> HIDE DEF I!TypeOK, LaunchInv, SeenInv, EvictsClosing
<1> QED
    BY <1>1, <1>2, <1>3, <1>4, <1>5, <1>6, <1>7, <1>8, <1>9, <1>10, <1>11, <1>12, <1>13, <1>14,
           <1>15, <1>16, <1>17, <1>18, <1>19, <1>20, <1>21, <1>22, <1>23, <1>24, <1>25, <1>26,
           <1>27 DEF I!Next

LEMMA LaunchStep == LaunchInv /\ [I!Next]_(I!vars) => LaunchInv'
BY LaunchTyped, LockStep, FileStep, SeenStep, RequestStep, RunStep, ReportStep, SavedStep
   DEF LaunchInv

LEMMA LaunchMoves == [Next]_vars => [I!Next]_(I!vars)
BY DEF Next, vars, launches, I!vars

LEMMA LaunchHolds == Spec => []LaunchInv
<1>1. LaunchInv /\ [Next]_vars => LaunchInv'
    BY LaunchMoves, LaunchStep
<1> QED BY <1>1, LaunchInit, PTL DEF Spec

----------------------------------------------------------------------------
(* The desktop's window and icon *)

\* A window is there exactly while it is not retired; an icon's menu and its key and tree go
\* together; only a composed window gives a menu beyond the one of the start.
IconInv(u) ==
    /\ u.window = "none" <=> u.retired
    /\ u.menu = "none" => u.key = "" /\ u.tree = "" /\ ~u.basic
    /\ u.menu = "basic" => u.tree = "" /\ u.basic
    /\ u.menu \in {"full", "other"} => u.tree = u.menu /\ ~u.basic /\ composed

\* The window is hidden as long as an installation lasts.
DeskInv == D!TypeOK /\ IconInv(ui) /\ D!NothingAfterExit /\ (installing => ui.window = "hidden")

\* Windows come and go without a change of the menu.
LEMMA ShowKeepsMenu ==
    ASSUME D!TypeOK, NEW u \in D!UI, IconInv(u), NEW fails
    PROVE  LET v == D!ShowWindow(u, fails) IN
           /\ v \in D!UI /\ IconInv(v)
           /\ v.menu = u.menu /\ v.failed = u.failed
           /\ leaving \/ installing => v = u
           /\ v.window \in {u.window, "shown"}
           /\ ~leaving /\ ~installing /\ ~fails => v.window = "shown"
BY DEF D!ShowWindow, D!UI, IconInv, D!Values

LEMMA HideKeepsWindow ==
    ASSUME NEW u \in D!UI, IconInv(u)
    PROVE  LET v == D!HideTray(u) IN
           v \in D!UI /\ IconInv(v) /\ v.menu = "none" /\ v.window = u.window /\ v.failed = u.failed
BY DEF D!HideTray, D!UI, IconInv

\* What a refresh leaves: the menu as it was, none, or one where none was.
Refreshed(u, v) ==
    /\ v \in D!UI /\ IconInv(v) /\ v.window = u.window /\ v.failed = u.failed
    /\ u.menu # "none" /\ v.menu # "none" => v.menu = u.menu
    /\ leaving => v = u
    /\ ~leaving /\ u.menu = "none" => v.menu # "none"

LEMMA RefreshIs ==
    ASSUME D!TypeOK, NEW u \in D!UI, IconInv(u)
    PROVE  Refreshed(u, D!RefreshBasicTray(u))
<1> DEFINE v == D!RefreshBasicTray(u)
<1>1. CASE leaving \/ (u.key = value /\ ~(composed /\ u.basic))
    <2>1. v = u
        BY <1>1 DEF D!RefreshBasicTray
    <2>2. ~leaving => u.menu # "none"
        BY <1>1 DEF IconInv, D!TypeOK, D!Values
    <2> QED BY <2>1, <2>2 DEF Refreshed
<1>2. CASE ~leaving /\ ~(u.key = value /\ ~(composed /\ u.basic)) /\ D!Swaps(u)
    <2>1. v = D!HideTray(u)
        BY <1>2 DEF D!RefreshBasicTray
    <2>2. u.menu # "none"
        BY <1>2 DEF D!Swaps, IconInv
    <2> QED BY <1>2, <2>1, <2>2, HideKeepsWindow DEF Refreshed
<1>3. CASE /\ ~leaving /\ ~(u.key = value /\ ~(composed /\ u.basic)) /\ ~D!Swaps(u)
           /\ composed
    <2>1. v = [u EXCEPT !.menu = D!Tree(value), !.key = value, !.tree = D!Tree(value), !.basic = FALSE]
        BY <1>3 DEF D!RefreshBasicTray, D!Publish, D!Tree
    <2>2. D!Tree(value) \in {"full", "other"} /\ ~u.basic /\ u.tree \in {"", D!Tree(value)}
        BY <1>3 DEF D!Swaps, D!Tree
    <2>3. /\ v.menu = D!Tree(value) /\ v.tree = D!Tree(value) /\ ~v.basic
          /\ v.window = u.window /\ v.retired = u.retired /\ v.failed = u.failed /\ v \in D!UI
        BY <2>1, <2>2 DEF D!UI, D!TypeOK
    <2>4. IconInv(v)
        BY <1>3, <2>2, <2>3 DEF IconInv
    <2>5. u.menu # "none" => u.menu = D!Tree(value)
        BY <2>2 DEF IconInv, D!UI
    <2> HIDE DEF v
    <2>6. Refreshed(u, v)
        BY <1>3, <2>2, <2>3, <2>4, <2>5 DEF Refreshed
    <2> QED BY <2>6 DEF v
<1>4. CASE /\ ~leaving /\ ~(u.key = value /\ ~(composed /\ u.basic)) /\ ~D!Swaps(u)
           /\ ~composed
    <2>1. v = [u EXCEPT !.menu = "basic", !.key = value, !.tree = u.tree, !.basic = TRUE]
        BY <1>4 DEF D!RefreshBasicTray, D!Publish
    <2>2. /\ v.menu = "basic" /\ v.tree = u.tree /\ v.basic
          /\ v.window = u.window /\ v.retired = u.retired /\ v.failed = u.failed /\ v \in D!UI
        BY <2>1 DEF D!UI, D!TypeOK
    <2>3. u.menu \in {"none", "basic"} /\ u.tree = ""
        BY <1>4 DEF IconInv, D!UI
    <2>4. IconInv(v)
        BY <2>2, <2>3 DEF IconInv
    <2> HIDE DEF v
    <2>5. Refreshed(u, v)
        BY <1>4, <2>2, <2>3, <2>4 DEF Refreshed
    <2> QED BY <2>5 DEF v
<1> QED BY <1>1, <1>2, <1>3, <1>4

\* What a step does to the window of an installation.
Gives == installing => IF ~installing' THEN ui'.window = "shown" ELSE ui'.window = "hidden"

\* Every step keeps the window and the icon consistent and never turns a menu into another.
DeskStep == DeskInv' /\ Gives /\ (ui.menu # "none" /\ ui'.menu # "none" => ui'.menu = ui.menu)

LEMMA TickIs ==
    ASSUME DeskInv, NEW activated \in BOOLEAN, NEW opens \in BOOLEAN, NEW shows \in BOOLEAN,
           D!Tick(activated, opens, shows)
    PROVE  /\ DeskStep
           /\ start = "done" /\ ~installing /\ ui.window # "shown" /\ ui.menu = "none" /\ opens /\ shows
                => \/ ui'.window = "shown" \/ ui'.menu # "none"
                   \/ ui.window = "hidden" /\ ~activated /\ ~(trayOn /\ host)
<1> DEFINE roused == IF activated THEN D!ShowWindow(ui, ~opens) ELSE ui
           back == IF start # "decide" /\ roused.retired /\ ~(trayOn /\ host)
                   THEN D!ShowWindow(roused, ~opens) ELSE roused
           Like(u, v) == /\ v \in D!UI /\ IconInv(v) /\ v.menu = u.menu
                         /\ opens /\ v.window # "shown" => v.window = u.window
                         /\ installing => v = u
<1>1. Like(ui, roused)
    BY ShowKeepsMenu DEF DeskInv, D!TypeOK
<1>2. Like(ui, back)
    <2> HIDE DEF roused
    <2>1. Like(roused, back)
        BY <1>1, ShowKeepsMenu DEF DeskInv, D!TypeOK
    <2> QED BY <1>1, <2>1
<1>3. /\ start = "done" /\ ~installing /\ ui.window # "shown" /\ opens /\ ~(trayOn /\ host)
      /\ ui.window = "hidden" => activated
      => back.window = "shown"
    <2>1. ~leaving /\ ui \in D!UI /\ IconInv(ui)
        BY DEF D!Tick, DeskInv, D!TypeOK
    <2>2. CASE activated /\ ~installing /\ opens
        <3>1. roused.window = "shown"
            BY <2>1, <2>2, ShowKeepsMenu DEF DeskInv
        <3> HIDE DEF roused
        <3> QED BY <1>1, <2>1, <2>2, <3>1, ShowKeepsMenu DEF DeskInv
    <2>3. CASE ~activated /\ ui.window = "none"
        BY <2>1, <2>3, ShowKeepsMenu DEF DeskInv, IconInv
    <2> QED BY <2>1, <2>2, <2>3 DEF D!UI
<1>4. ui' = D!AfterTick(back, opens, shows) /\ ~leaving
      /\ UNCHANGED <<host, trayOn, light, start, value, composed, asking, hiding, installing, leaving>>
    BY DEF D!Tick
<1>5. faults' \in 0 .. MaxFaults
    BY BoundsAreNumbers DEF D!Tick, D!Faults, D!Fault, DeskInv, D!TypeOK
<1> HIDE DEF roused, back
<1>6. /\ ui' \in D!UI /\ IconInv(ui') /\ (back.menu # "none" /\ ui'.menu # "none" => ui'.menu = back.menu)
      /\ ~(trayOn /\ host) => ui'.window = back.window
      /\ trayOn /\ host /\ shows /\ back.menu = "none" => ui'.menu # "none"
      /\ installing => ui'.window = back.window
    <2> DEFINE With(u, b) == [u EXCEPT !.failed = b]
    <2>1. ASSUME NEW u \in D!UI, NEW b \in BOOLEAN, IconInv(u)
          PROVE  /\ With(u, b) \in D!UI /\ IconInv(With(u, b))
                 /\ With(u, b).menu = u.menu /\ With(u, b).window = u.window
        BY <2>1 DEF D!UI, IconInv
    <2>2. CASE ~(trayOn /\ host)
        <3>1. ui' = With(D!HideTray(back), FALSE)
            BY <1>4, <2>2 DEF D!AfterTick
        <3> QED BY <1>2, <2>1, <2>2, <3>1, HideKeepsWindow
    <2>3. CASE trayOn /\ host /\ D!Asks(back) /\ ~shows
        <3>1. ui' = With(IF back.failed THEN back ELSE D!ShowWindow(back, ~opens), TRUE)
            BY <1>4, <2>3 DEF D!AfterTick
        <3>2. PICK u \in D!UI : /\ IconInv(u) /\ u.menu = back.menu /\ ui' = With(u, TRUE)
                                /\ installing => u = back
            BY <1>2, <3>1, ShowKeepsMenu DEF DeskInv
        <3> QED BY <2>1, <2>3, <3>2
    <2>4. CASE trayOn /\ host /\ ~(D!Asks(back) /\ ~shows)
        <3>1. ui' = With(D!RefreshBasicTray(back), FALSE)
            BY <1>4, <2>4 DEF D!AfterTick
        <3>2. Refreshed(back, D!RefreshBasicTray(back))
            BY <1>2, RefreshIs DEF DeskInv
        <3> QED BY <1>4, <2>1, <2>4, <3>1, <3>2 DEF Refreshed
    <2> QED BY <2>2, <2>3, <2>4 DEF DeskInv, D!TypeOK
<1>7. IconInv(ui)'
    BY <1>4, <1>6 DEF IconInv
<1>8. DeskStep
    <2>1. installing => ui'.window = "hidden"
        BY <1>2, <1>6 DEF DeskInv
    <2> QED BY <1>2, <1>4, <1>5, <1>6, <1>7, <2>1 DEF DeskStep, Gives, DeskInv, D!TypeOK, D!NothingAfterExit
<1> QED BY <1>2, <1>3, <1>6, <1>8 DEF DeskInv, D!TypeOK, D!UI

LEMMA DeskInit == D!Init => DeskInv
<1> SUFFICES ASSUME D!Init PROVE DeskInv
    OBVIOUS
<1>1. ui \in D!UI /\ IconInv(ui) /\ D!NothingAfterExit
    BY DEF D!Init, D!UI, D!Values, IconInv, D!NothingAfterExit
<1>2. faults \in 0 .. MaxFaults
    <2>1. MaxFaults \in Nat
        BY BoundsAreNumbers
    <2>2. faults = 0
        BY Zenon DEF D!Init
    <2> QED BY <2>1, <2>2
<1> QED BY <1>1, <1>2 DEF D!Init, DeskInv, D!TypeOK, D!Values

LEMMA ExitIs ==
    ASSUME DeskInv, D!Leave, UNCHANGED <<host, trayOn, light, start, value, hiding, installing, faults>>,
           asking' \in BOOLEAN
    PROVE  DeskStep
<1> DEFINE hidden == D!HideTray(ui)
<1>1. hidden \in D!UI /\ IconInv(hidden) /\ hidden.menu = "none" /\ hidden.window = ui.window
    BY HideKeepsWindow DEF DeskInv, D!TypeOK
<1>2. /\ leaving' = TRUE /\ composed' = FALSE
      /\ ui' = [hidden EXCEPT !.window = IF @ = "none" THEN "none" ELSE "hidden"]
    BY DEF D!Leave
<1> HIDE DEF hidden
<1>3. /\ ui' \in D!UI /\ ui'.menu = "none" /\ ui'.window # "shown"
      /\ ui'.key = hidden.key /\ ui'.tree = hidden.tree /\ ui'.basic = hidden.basic
      /\ ui'.retired = hidden.retired /\ (ui'.window = "none" <=> hidden.window = "none")
      /\ hidden.window = "hidden" => ui'.window = "hidden"
    BY <1>1, <1>2 DEF D!UI
<1>4. IconInv(ui)'
    BY <1>1, <1>3 DEF IconInv
<1> QED BY <1>1, <1>2, <1>3, <1>4 DEF DeskStep, Gives, DeskInv, D!TypeOK, D!NothingAfterExit

LEMMA OthersKeepDesk ==
    ASSUME DeskInv, [D!Next]_(D!vars)
    PROVE  DeskStep
<1> USE DEF DeskInv
<1>1. ASSUME NEW opens \in BOOLEAN, NEW shows \in BOOLEAN, NEW activated \in BOOLEAN,
             D!Tick(activated, opens, shows)
      PROVE  DeskStep
    BY <1>1, TickIs
<1>2. ASSUME NEW u \in D!UI, IconInv(u), u.menu # "none" /\ ui.menu # "none" => u.menu = ui.menu,
             leaving => u.menu = "none" /\ u.window # "shown", installing => u.window = "hidden",
             ui' = u, start' \in {"open", "decide", "done"}, hiding' \in BOOLEAN, asking' \in BOOLEAN,
             faults' \in 0 .. MaxFaults, UNCHANGED <<host, trayOn, light, value, composed, installing, leaving>>
      PROVE  DeskStep
    BY <1>2 DEF DeskStep, Gives, IconInv, D!TypeOK, D!NothingAfterExit
<1>3. ASSUME NEW opens \in BOOLEAN, D!Open(opens) PROVE DeskStep
    <2>1. faults' \in 0 .. MaxFaults
        BY <1>3, BoundsAreNumbers DEF D!Open, D!Faults, D!Fault, D!TypeOK
    <2> QED BY <1>2, <1>3, <2>1, ShowKeepsMenu DEF D!Open, D!TypeOK, D!NothingAfterExit
<1>4. ASSUME NEW opens \in BOOLEAN, D!Chosen(opens) PROVE DeskStep
    <2>1. faults' \in 0 .. MaxFaults
        BY <1>4, BoundsAreNumbers DEF D!Chosen, D!Faults, D!Fault, D!TypeOK
    <2> QED BY <1>2, <1>4, <2>1, ShowKeepsMenu DEF D!Chosen, D!TypeOK, D!NothingAfterExit
<1>5. ASSUME NEW opens \in BOOLEAN, NEW shows \in BOOLEAN, D!Decide(opens, shows) PROVE DeskStep
    <2>1. faults' \in 0 .. MaxFaults
        BY <1>5, BoundsAreNumbers DEF D!Decide, D!Faults, D!Fault, D!TypeOK
    <2>2. /\ start' = "done"
          /\ UNCHANGED <<host, trayOn, light, value, composed, asking, hiding, installing, leaving>>
        BY <1>5 DEF D!Decide
    <2>3. CASE ui' = D!ShowWindow(ui, ~opens)
        BY <1>2, <2>1, <2>2, <2>3, ShowKeepsMenu DEF D!TypeOK, D!NothingAfterExit
    <2>4. CASE ui' = D!ShowWindow([ui EXCEPT !.failed = TRUE], ~opens)
        <3>1. /\ [ui EXCEPT !.failed = TRUE] \in D!UI /\ IconInv([ui EXCEPT !.failed = TRUE])
              /\ [ui EXCEPT !.failed = TRUE].menu = ui.menu
              /\ [ui EXCEPT !.failed = TRUE].window = ui.window
            BY DEF D!TypeOK, D!UI, IconInv
        <3> QED BY ZenonT(40), <1>2, <2>1, <2>2, <2>4, <3>1, ShowKeepsMenu DEF D!TypeOK,
               D!NothingAfterExit
    <2>5. CASE ui' = D!RefreshBasicTray(ui)
        <3>1. Refreshed(ui, ui')
            BY <2>5, RefreshIs DEF D!TypeOK
        <3> QED BY <1>2, <2>1, <2>2, <3>1 DEF Refreshed, D!TypeOK, D!NothingAfterExit
    <2> QED BY <1>5, <2>3, <2>4, <2>5 DEF D!Decide
<1>6. CASE D!Compose
    BY <1>6 DEF D!Compose, DeskStep, Gives, IconInv, D!TypeOK, D!NothingAfterExit
<1>7. CASE D!Close
    <2>1. /\ [ui EXCEPT !.window = "none", !.retired = TRUE] \in D!UI
          /\ IconInv([ui EXCEPT !.window = "none", !.retired = TRUE])
          /\ [ui EXCEPT !.window = "none", !.retired = TRUE].menu = ui.menu
        BY DEF D!TypeOK, D!UI, IconInv
    <2>2. /\ ui' = ui \/ ui' = [ui EXCEPT !.window = "none", !.retired = TRUE]
          /\ asking' \in BOOLEAN /\ hiding' \in BOOLEAN /\ ~leaving /\ ui.window = "shown" /\ ~installing
          /\ UNCHANGED <<host, trayOn, light, start, value, composed, installing, leaving, faults>>
        BY <1>7 DEF D!Close, D!TypeOK
    <2>3. CASE ui' = ui
        BY <1>2, <2>2, <2>3 DEF D!TypeOK
    <2>4. CASE ui' = [ui EXCEPT !.window = "none", !.retired = TRUE]
        BY <1>2, <2>1, <2>2, <2>4 DEF D!TypeOK
    <2> QED BY <2>2, <2>3, <2>4
<1>8. CASE D!HideWindow
    <2>1. ui.window = "shown" =>
              /\ [ui EXCEPT !.window = "hidden"] \in D!UI /\ IconInv([ui EXCEPT !.window = "hidden"])
              /\ [ui EXCEPT !.window = "hidden"].menu = ui.menu
              /\ [ui EXCEPT !.window = "hidden"].window = "hidden"
        BY DEF D!TypeOK, D!UI, IconInv
    <2> QED BY <1>2, <1>8, <2>1 DEF D!HideWindow, D!TypeOK, D!NothingAfterExit
<1>9. CASE D!ChooseQuit
    BY <1>9, ExitIs DEF D!ChooseQuit, D!RequestExit, D!TypeOK
<1>10. ASSUME NEW yes \in BOOLEAN, D!Answer(yes) PROVE DeskStep
    <2>1. CASE yes /\ ~leaving /\ ~installing
        BY <1>10, <2>1, ExitIs DEF D!Answer, D!RequestExit
    <2>2. CASE ~(yes /\ ~leaving /\ ~installing)
        BY <1>2, <1>10, <2>2 DEF D!Answer, D!TypeOK, D!NothingAfterExit
    <2> QED BY <2>1, <2>2
<1>11. CASE D!Settings \/ D!HostChange \/ D!ModelChange
    <2>1. /\ UNCHANGED <<ui, composed, asking, hiding, installing, leaving, faults, start>>
          /\ host' \in BOOLEAN /\ trayOn' \in BOOLEAN /\ light' \in BOOLEAN /\ value' \in D!Values
        BY <1>11 DEF D!Settings, D!HostChange, D!ModelChange, D!TypeOK
    <2> QED BY <2>1 DEF DeskStep, Gives, IconInv, D!TypeOK, D!NothingAfterExit
<1>12. CASE UNCHANGED D!vars
    BY ZenonT(40), <1>12 DEF D!vars, DeskStep, Gives, IconInv, D!TypeOK, D!NothingAfterExit
<1>13. CASE D!InstallUpdate
    <2>1. /\ [ui EXCEPT !.window = "hidden"] \in D!UI /\ IconInv([ui EXCEPT !.window = "hidden"])
          /\ [ui EXCEPT !.window = "hidden"].menu = ui.menu
          /\ [ui EXCEPT !.window = "hidden"].window = "hidden"
        BY <1>13 DEF D!InstallUpdate, D!TypeOK, D!UI, IconInv
    <2> QED BY <1>13, <2>1 DEF D!InstallUpdate, DeskStep, Gives, IconInv, D!TypeOK, D!NothingAfterExit
<1>14. CASE D!Installed
    BY <1>14, ExitIs DEF D!Installed, D!TypeOK
<1>15. CASE D!InstallFails
    <2>1. /\ [ui EXCEPT !.window = "shown"] \in D!UI /\ IconInv([ui EXCEPT !.window = "shown"])
          /\ [ui EXCEPT !.window = "shown"].menu = ui.menu
          /\ [ui EXCEPT !.window = "shown"].window = "shown"
        BY <1>15 DEF D!InstallFails, D!TypeOK, D!UI, IconInv
    <2> QED BY <1>15, <2>1 DEF D!InstallFails, DeskStep, Gives, IconInv, D!TypeOK, D!NothingAfterExit
<1> QED
    BY <1>1, <1>3, <1>4, <1>5, <1>6, <1>7, <1>8, <1>9, <1>10, <1>11, <1>12, <1>13, <1>14, <1>15 DEF D!Next

LEMMA DeskMoves == [Next]_vars => [D!Next]_(D!vars)
BY DEF Next, vars, desktop, D!vars

LEMMA DeskHolds == Spec => []DeskInv
<1>1. Init => DeskInv
    BY DeskInit DEF Init
<1>2. DeskInv /\ [Next]_vars => DeskInv'
    BY DeskMoves, OthersKeepDesk DEF DeskStep
<1> QED BY <1>1, <1>2, PTL DEF Spec

----------------------------------------------------------------------------
(* Numbers *)

\* Every set of numbers that is not empty has a least one.
LEMMA LeastOf ==
    ASSUME NEW T, T \subseteq Nat, T # {}
    PROVE  \E n \in T : \A m \in T : n <= m
<1> DEFINE F_ == {1 .. n : n \in T}
<1>1. \A n \in T : 1 .. n \in FiniteSubsetsOf(Nat)
    BY FS_Interval DEF FiniteSubsetsOf
<1>2. F_ \subseteq FiniteSubsetsOf(Nat) /\ F_ # {}
    BY <1>1
<1> HIDE DEF F_
<1>3. PICK V \in F_ : \A W_ \in F_ : ~(<<W_, V>> \in StrictSubsetOrdering(Nat))
    BY <1>2, FS_StrictSubsetOrderingWellFounded, WFMin
<1>4. PICK n \in T : V = 1 .. n
    BY DEF F_
<1>5. ASSUME NEW m \in T, m < n PROVE FALSE
    <2>1. 1 .. m \in F_
        BY DEF F_
    <2>2. m \in Nat /\ n \in Nat /\ 1 .. m \subseteq 1 .. n /\ n \in 1 .. n /\ n \notin 1 .. m
        BY <1>5
    <2>3. 1 .. m \in SUBSET Nat /\ 1 .. n \in SUBSET Nat
        OBVIOUS
    <2>4. <<1 .. m, V>> \in StrictSubsetOrdering(Nat)
        BY <1>4, <2>2, <2>3 DEF StrictSubsetOrdering
    <2> QED BY <1>3, <2>1, <2>4
<1> QED BY <1>5

----------------------------------------------------------------------------
(* Codes *)

\* What two rows make together.
Plus(v, w) == Q!XorInto(v, w)

LEMMA SumHas ==
    \A a, b : \A x : x \in Q!Sum(a, b) <=> (x \in a /\ x \notin b) \/ (x \in b /\ x \notin a)
BY DEF Q!Sum

LEMMA SumTurns ==
    /\ \A a, b : Q!Sum(a, b) = Q!Sum(b, a)
    /\ \A a, b, c : Q!Sum(Q!Sum(a, b), c) = Q!Sum(a, Q!Sum(b, c))
    /\ \A a : Q!Sum(a, a) = {} /\ Q!Sum(a, {}) = a /\ Q!Sum({}, a) = a
<1>1. \A a, b : Q!Sum(a, b) = Q!Sum(b, a)
    BY DEF Q!Sum
<1>2. ASSUME NEW a, NEW b, NEW c PROVE Q!Sum(Q!Sum(a, b), c) = Q!Sum(a, Q!Sum(b, c))
    <2>1. \A x : x \in Q!Sum(Q!Sum(a, b), c) <=> x \in Q!Sum(a, Q!Sum(b, c))
        BY SumHas
    <2> QED BY <2>1
<1>3. \A a : Q!Sum(a, a) = {} /\ Q!Sum(a, {}) = a /\ Q!Sum({}, a) = a
    BY DEF Q!Sum
<1> QED BY <1>1, <1>2, <1>3

LEMMA RowIs ==
    /\ \A v \in Q!Row : v.bits \subseteq Q!Blocks /\ v.data \subseteq Q!Blocks \cup Q!Noises
    /\ \A v, w \in Q!Row : v.bits = w.bits /\ v.data = w.data => v = w
    /\ Q!Zero \in Q!Row /\ Q!Zero.bits = {} /\ Q!Zero.data = {}
BY DEF Q!Row, Q!Zero

LEMMA PlusIs ==
    ASSUME NEW v \in Q!Row, NEW w \in Q!Row
    PROVE  /\ Plus(v, w) \in Q!Row
           /\ Plus(v, w).bits = Q!Sum(v.bits, w.bits) /\ Plus(v, w).data = Q!Sum(v.data, w.data)
BY DEF Plus, Q!XorInto, Q!Row, Q!Sum

LEMMA PlusTurns ==
    /\ \A v, w \in Q!Row : Plus(v, w) = Plus(w, v)
    /\ \A u, v, w \in Q!Row : Plus(Plus(u, v), w) = Plus(u, Plus(v, w))
    /\ \A v \in Q!Row : Plus(v, v) = Q!Zero /\ Plus(v, Q!Zero) = v
<1>1. ASSUME NEW v \in Q!Row, NEW w \in Q!Row PROVE Plus(v, w) = Plus(w, v)
    BY PlusIs, SumTurns, RowIs
<1>2. ASSUME NEW u \in Q!Row, NEW v \in Q!Row, NEW w \in Q!Row
      PROVE  Plus(Plus(u, v), w) = Plus(u, Plus(v, w))
    <2>1. /\ Plus(Plus(u, v), w) \in Q!Row /\ Plus(u, Plus(v, w)) \in Q!Row
          /\ Plus(Plus(u, v), w).bits = Q!Sum(Q!Sum(u.bits, v.bits), w.bits)
          /\ Plus(Plus(u, v), w).data = Q!Sum(Q!Sum(u.data, v.data), w.data)
          /\ Plus(u, Plus(v, w)).bits = Q!Sum(u.bits, Q!Sum(v.bits, w.bits))
          /\ Plus(u, Plus(v, w)).data = Q!Sum(u.data, Q!Sum(v.data, w.data))
        BY PlusIs
    <2> QED BY <2>1, SumTurns, RowIs
<1>3. ASSUME NEW v \in Q!Row PROVE Plus(v, v) = Q!Zero /\ Plus(v, Q!Zero) = v
    <2>1. Q!Zero \in Q!Row /\ Q!Zero.bits = {} /\ Q!Zero.data = {}
        BY RowIs
    <2>2. Plus(v, v) \in Q!Row /\ Plus(v, v).bits = {} /\ Plus(v, v).data = {}
        BY PlusIs, SumTurns
    <2>3. Plus(v, Q!Zero) \in Q!Row /\ Plus(v, Q!Zero).bits = v.bits /\ Plus(v, Q!Zero).data = v.data
        <3>1. /\ Plus(v, Q!Zero) \in Q!Row
              /\ Plus(v, Q!Zero).bits = Q!Sum(v.bits, Q!Zero.bits)
              /\ Plus(v, Q!Zero).data = Q!Sum(v.data, Q!Zero.data)
            BY <2>1, PlusIs
        <3>2. Q!Sum(v.bits, {}) = v.bits /\ Q!Sum(v.data, {}) = v.data
            BY SumTurns
        <3> QED BY <2>1, <3>1, <3>2
    <2> QED BY <2>1, <2>2, <2>3, RowIs
<1> QED BY <1>1, <1>2, <1>3

\* The rows that are kept are sums of the codes, each has the least of its blocks for a pivot,
\* which no other row has, and a sum without a pivot is of no block.
Spanned(kept, sums) ==
    /\ DOMAIN kept \subseteq Q!Blocks
    /\ sums \subseteq Q!Row /\ Q!Zero \in sums
    /\ \A v, w \in sums : Plus(v, w) \in sums
    /\ \A p \in DOMAIN kept : /\ kept[p] \in sums
                              /\ p \in kept[p].bits /\ \A c \in kept[p].bits : p <= c
                              /\ \A q \in DOMAIN kept \ {p} : p \notin kept[q].bits
    /\ \A v \in sums : v.bits \cap DOMAIN kept = {} => v.bits = {}

LEMMA BlocksAre == Q!Blocks \subseteq Nat /\ IsFiniteSet(Q!Blocks)
<1>1. BlockCount \in Nat
    BY BoundsAreNumbers
<1>2. IsFiniteSet(1 .. BlockCount)
    BY <1>1, FS_Interval
<1> QED BY <1>1, <1>2 DEF Q!Blocks

LEMMA NothingSpans == Spanned(Q!Empty, {Q!Zero})
BY RowIs, PlusTurns DEF Spanned, Q!Empty

\* ---- sums of rows ----

Odd(S) == Cardinality(S) % 2 = 1

\* An element more turns the parity.
LEMMA OneMore ==
    ASSUME NEW S, IsFiniteSet(S), NEW x, x \notin S
    PROVE  Odd(S \cup {x}) <=> ~Odd(S)
<1>1. Cardinality(S) \in Nat /\ Cardinality(S \cup {x}) = Cardinality(S) + 1
    BY FS_CardinalityType, FS_AddElement
<1> QED BY <1>1 DEF Odd

LEMMA NoneIsEven == ~Odd({})
BY FS_EmptySet DEF Odd

LEMMA OneIsOdd == \A x : Odd({x})
<1>1. \A x : Cardinality({x}) = 1
    BY FS_Singleton
<1>2. 1 % 2 = 1
    OBVIOUS
<1> QED BY <1>1, <1>2 DEF Odd

\* The sum of some rows: the blocks an odd number of them have.
SumOf(kept, U) ==
    [bits |-> {b \in Q!Blocks : Odd({p \in U : b \in kept[p].bits})},
     data |-> {b \in Q!Blocks \cup Q!Noises : Odd({p \in U : b \in kept[p].data})}]

LEMMA SumOfOneMore ==
    ASSUME NEW kept, NEW U, IsFiniteSet(U), NEW p \in U, kept[p] \in Q!Row
    PROVE  SumOf(kept, U) = Plus(SumOf(kept, U \ {p}), kept[p])
<1> DEFINE Has(V, b) == {q \in V : b \in kept[q].bits}
           Holds_(V, b) == {q \in V : b \in kept[q].data}
           W == U \ {p}
<1>1. \A b : IsFiniteSet(Has(W, b)) /\ IsFiniteSet(Holds_(W, b))
    <2>1. IsFiniteSet(W)
        BY FS_RemoveElement
    <2>2. \A b : Has(W, b) \in SUBSET W /\ Holds_(W, b) \in SUBSET W
        OBVIOUS
    <2> HIDE DEF W, Has, Holds_
    <2> QED BY <2>1, <2>2, FS_Subset
<1>2. \A b : Odd(Has(U, b)) <=> (Odd(Has(W, b)) /\ b \notin kept[p].bits)
                                \/ (~Odd(Has(W, b)) /\ b \in kept[p].bits)
    <2> TAKE b
    <2>1. CASE b \in kept[p].bits
        <3>1. Has(U, b) = Has(W, b) \cup {p} /\ p \notin Has(W, b)
            BY <2>1
        <3>2. Odd(Has(W, b) \cup {p}) <=> ~Odd(Has(W, b))
            BY <3>1, <1>1, OneMore
        <3> HIDE DEF W, Has
        <3> QED BY <3>1, <3>2, <2>1
    <2>2. CASE b \notin kept[p].bits
        <3>1. Has(U, b) = Has(W, b)
            BY <2>2
        <3> HIDE DEF W, Has
        <3> QED BY <3>1, <2>2
    <2> QED BY <2>1, <2>2
<1>3. \A b : Odd(Holds_(U, b)) <=> (Odd(Holds_(W, b)) /\ b \notin kept[p].data)
                                \/ (~Odd(Holds_(W, b)) /\ b \in kept[p].data)
    <2> TAKE b
    <2>1. CASE b \in kept[p].data
        <3>1. Holds_(U, b) = Holds_(W, b) \cup {p} /\ p \notin Holds_(W, b)
            BY <2>1
        <3>2. Odd(Holds_(W, b) \cup {p}) <=> ~Odd(Holds_(W, b))
            BY <3>1, <1>1, OneMore
        <3> HIDE DEF W, Holds_
        <3> QED BY <3>1, <3>2, <2>1
    <2>2. CASE b \notin kept[p].data
        <3>1. Holds_(U, b) = Holds_(W, b)
            BY <2>2
        <3> HIDE DEF W, Holds_
        <3> QED BY <3>1, <2>2
    <2> QED BY <2>1, <2>2
<1> DEFINE s == SumOf(kept, U)
           t == SumOf(kept, W)
<1>4. /\ s \in Q!Row /\ t \in Q!Row
      /\ \A b \in Q!Blocks : /\ b \in s.bits <=> Odd(Has(U, b))
                             /\ b \in t.bits <=> Odd(Has(W, b))
      /\ \A b \in Q!Blocks \cup Q!Noises : /\ b \in s.data <=> Odd(Holds_(U, b))
                                           /\ b \in t.data <=> Odd(Holds_(W, b))
    BY DEF SumOf, Q!Row
<1> HIDE DEF s, t, W, Has, Holds_
<1>5. Plus(t, kept[p]) \in Q!Row /\ Plus(t, kept[p]).bits = Q!Sum(t.bits, kept[p].bits)
      /\ Plus(t, kept[p]).data = Q!Sum(t.data, kept[p].data)
    BY <1>4, PlusIs
<1>6. s.bits = Q!Sum(t.bits, kept[p].bits)
    <2>1. \A b : b \in s.bits <=> b \in Q!Sum(t.bits, kept[p].bits)
        BY <1>2, <1>4, SumHas, RowIs
    <2> QED BY <2>1
<1>7. s.data = Q!Sum(t.data, kept[p].data)
    <2>1. \A b : b \in s.data <=> b \in Q!Sum(t.data, kept[p].data)
        BY <1>3, <1>4, SumHas, RowIs
    <2> QED BY <2>1
<1> QED BY <1>4, <1>5, <1>6, <1>7, RowIs DEF s, t, W

\* A sum of kept rows is a sum of codes: by induction over the rows.
LEMMA SumsAreSpanned ==
    ASSUME NEW kept, NEW sums, Spanned(kept, sums), NEW U \in SUBSET DOMAIN kept
    PROVE  SumOf(kept, U) \in sums
<1> DEFINE Piv == DOMAIN kept
           Bad == {V \in SUBSET Piv : SumOf(kept, V) \notin sums}
<1>1. IsFiniteSet(Piv) /\ \A V \in SUBSET Piv : IsFiniteSet(V)
    BY BlocksAre, FS_Subset DEF Spanned
<1>2. Bad \subseteq FiniteSubsetsOf(Piv)
    BY <1>1 DEF FiniteSubsetsOf
<1>3. ASSUME Bad # {} PROVE FALSE
    <2> HIDE DEF Piv, Bad
    <2>1. PICK V \in Bad : \A W \in Bad : ~(<<W, V>> \in StrictSubsetOrdering(Piv))
        BY <1>2, <1>3, FS_StrictSubsetOrderingWellFounded, WFMin
    <2>2. V \in SUBSET Piv /\ SumOf(kept, V) \notin sums
        BY <2>1 DEF Bad
    <2>3. CASE V = {}
        <3>1. SumOf(kept, {}) = Q!Zero
            BY NoneIsEven DEF SumOf, Q!Zero
        <3> QED BY <3>1, <2>2, <2>3 DEF Spanned
    <2>4. CASE V # {}
        <3>1. PICK p \in V : TRUE
            BY <2>4
        <3>2. V \ {p} \in SUBSET Piv /\ V \ {p} \subseteq V /\ V \ {p} # V
            BY <2>2, <3>1
        <3>3. V \ {p} \notin Bad
            BY <2>1, <2>2, <3>2 DEF StrictSubsetOrdering
        <3>4. SumOf(kept, V \ {p}) \in sums /\ kept[p] \in sums /\ sums \subseteq Q!Row
            BY <3>2, <3>3, <2>2 DEF Bad, Spanned, Piv
        <3>5. SumOf(kept, V) = Plus(SumOf(kept, V \ {p}), kept[p])
            BY <1>1, <2>2, <3>1, <3>4, SumOfOneMore
        <3> QED BY <2>2, <3>4, <3>5 DEF Spanned
    <2> QED BY <2>3, <2>4
<1> QED BY <1>3

\* What is left of a row: the row with some sum of the rows, and without their pivots.
LEMMA ReducedIs ==
    ASSUME NEW kept, NEW sums, Spanned(kept, sums), NEW v \in Q!Row
    PROVE  /\ Q!Reduced(v, kept) \in Q!Row
           /\ Q!Reduced(v, kept).bits \cap DOMAIN kept = {}
           /\ \E w \in sums : Q!Reduced(v, kept) = Plus(v, w)
<1> DEFINE used == {p \in DOMAIN kept : p \in v.bits}
           row == Q!Reduced(v, kept)
           w == SumOf(kept, used)
           Has(b) == {p \in used : b \in kept[p].bits}
           Says(b) == {p \in used : b \in kept[p].data}
<1>1. w \in sums /\ w \in Q!Row
    BY SumsAreSpanned DEF Spanned
<1>2. /\ row \in Q!Row
      /\ \A b \in Q!Blocks : b \in row.bits <=> ((b \in v.bits) # (Q!Cardinality(Has(b)) % 2 = 1))
      /\ \A b \in Q!Blocks \cup Q!Noises :
             b \in row.data <=> ((b \in v.data) # (Q!Cardinality(Says(b)) % 2 = 1))
    BY DEF Q!Reduced, Q!Row
<1>3. /\ \A b \in Q!Blocks : b \in w.bits <=> Odd(Has(b))
      /\ \A b \in Q!Blocks \cup Q!Noises : b \in w.data <=> Odd(Says(b))
    BY DEF SumOf
<1>4. \A S : (Q!Cardinality(S) % 2 = 1) <=> Odd(S)
    BY DEF Q!Cardinality, Cardinality, Odd
<1>5. /\ \A b \in Q!Blocks : b \in row.bits <=> (b \in v.bits /\ ~Odd(Has(b))) \/ (b \notin v.bits /\ Odd(Has(b)))
      /\ \A b \in Q!Blocks \cup Q!Noises :
             b \in row.data <=> (b \in v.data /\ ~Odd(Says(b))) \/ (b \notin v.data /\ Odd(Says(b)))
    <2> HIDE DEF row, Has, Says
    <2> QED BY <1>2, <1>4
<1>6. \A p \in DOMAIN kept : p \notin row.bits
    <2> SUFFICES ASSUME NEW p \in DOMAIN kept PROVE p \notin row.bits
        OBVIOUS
    <2>1. \A q \in DOMAIN kept : p \in kept[q].bits <=> q = p
        BY DEF Spanned
    <2>2. p \in Q!Blocks
        BY DEF Spanned
    <2>3. CASE p \in v.bits
        <3>1. Has(p) = {p}
            BY <2>1, <2>3
        <3> HIDE DEF Has, row
        <3> QED BY <3>1, <2>2, <2>3, <1>5, OneIsOdd
    <2>4. CASE p \notin v.bits
        <3>1. Has(p) = {}
            BY <2>1, <2>4
        <3> HIDE DEF Has, row
        <3> QED BY <3>1, <2>2, <2>4, <1>5, NoneIsEven
    <2> QED BY <2>3, <2>4
<1> HIDE DEF used, row, w, Has, Says
<1>7. Plus(v, w) \in Q!Row /\ Plus(v, w).bits = Q!Sum(v.bits, w.bits) /\ Plus(v, w).data = Q!Sum(v.data, w.data)
    BY <1>1, PlusIs
<1>8. row.bits = Q!Sum(v.bits, w.bits)
    <2>1. \A b : b \in row.bits <=> b \in Q!Sum(v.bits, w.bits)
        BY <1>1, <1>2, <1>3, <1>5, SumHas, RowIs
    <2> QED BY <2>1
<1>9. row.data = Q!Sum(v.data, w.data)
    <2>1. \A b : b \in row.data <=> b \in Q!Sum(v.data, w.data)
        BY <1>1, <1>2, <1>3, <1>5, SumHas, RowIs
    <2> QED BY <2>1
<1>10. row = Plus(v, w)
    BY <1>2, <1>7, <1>8, <1>9, RowIs
<1> QED BY <1>1, <1>2, <1>6, <1>10 DEF row

\* The codes with one more.
Grown(sums, frame) == sums \cup {Q!XorInto(v, frame) : v \in sums}

LEMMA GrownIs ==
    ASSUME NEW kept, NEW sums, Spanned(kept, sums), NEW frame \in Q!Row
    PROVE  /\ Grown(sums, frame) \subseteq Q!Row /\ Q!Zero \in Grown(sums, frame)
           /\ \A v, w \in Grown(sums, frame) : Plus(v, w) \in Grown(sums, frame)
           /\ \A w \in sums : Plus(frame, w) \in Grown(sums, frame)
           /\ sums \subseteq Grown(sums, frame)
           /\ \A v \in Grown(sums, frame) : v \in sums \/ \E u \in sums : v = Plus(u, frame)
<1> DEFINE G == Grown(sums, frame)
<1>1. \A v \in G : v \in sums \/ \E u \in sums : v = Plus(u, frame)
    BY DEF Grown, Plus
<1>2. sums \subseteq G /\ \A u \in sums : Plus(u, frame) \in G
    BY DEF Grown, Plus
<1>3. sums \subseteq Q!Row /\ Q!Zero \in sums /\ \A v, w \in sums : Plus(v, w) \in sums
    BY DEF Spanned
<1> HIDE DEF G
<1>4. G \subseteq Q!Row
    BY <1>1, <1>3, PlusIs
<1>5. \A w \in sums : Plus(frame, w) \in G
    BY <1>2, <1>3, PlusTurns
<1>6. ASSUME NEW v \in G, NEW w \in G PROVE Plus(v, w) \in G
    <2>1. CASE v \in sums /\ w \in sums
        BY <2>1, <1>2, <1>3
    <2>2. ASSUME v \in sums, NEW u \in sums, w = Plus(u, frame) PROVE Plus(v, w) \in G
        <3>1. Plus(v, w) = Plus(Plus(v, u), frame)
            BY <2>2, <1>3, PlusTurns
        <3> QED BY <3>1, <2>2, <1>2, <1>3
    <2>3. ASSUME w \in sums, NEW u \in sums, v = Plus(u, frame) PROVE Plus(v, w) \in G
        <3>1. Plus(v, w) = Plus(w, v)
            BY <2>3, <1>3, PlusIs, PlusTurns
        <3>2. Plus(w, v) = Plus(Plus(w, u), frame)
            BY <2>3, <1>3, PlusTurns
        <3> QED BY <3>1, <3>2, <2>3, <1>2, <1>3
    <2>4. ASSUME NEW t \in sums, v = Plus(t, frame), NEW u \in sums, w = Plus(u, frame) PROVE Plus(v, w) \in G
        <3>1. t \in Q!Row /\ u \in Q!Row /\ Plus(u, frame) \in Q!Row
            BY <1>3, PlusIs
        <3>2. Plus(v, w) = Plus(t, Plus(frame, Plus(u, frame)))
            BY <2>4, <3>1, PlusTurns
        <3>3. Plus(frame, Plus(u, frame)) = Plus(Plus(frame, frame), u)
            BY <3>1, PlusTurns
        <3>4. Plus(Plus(frame, frame), u) = u
            BY <3>1, RowIs, PlusTurns
        <3> QED BY <3>2, <3>3, <3>4, <2>4, <1>2, <1>3
    <2> QED BY <1>1, <2>1, <2>2, <2>3, <2>4
<1> QED BY <1>1, <1>2, <1>3, <1>4, <1>5, <1>6 DEF G

\* A code that tells nothing new leaves the rows.
LEMMA NothingNew ==
    ASSUME NEW kept, NEW sums, Spanned(kept, sums), NEW frame \in Q!Row,
           Q!Reduced(frame, kept).bits = {}
    PROVE  Spanned(kept, Grown(sums, frame))
<1>1. PICK w \in sums : Q!Reduced(frame, kept) = Plus(frame, w)
    BY ReducedIs
<1>2. w \in Q!Row /\ frame.bits = w.bits
    <2>1. w \in Q!Row
        BY DEF Spanned
    <2>2. Q!Sum(frame.bits, w.bits) = {}
        BY <1>1, <2>1, PlusIs
    <2>3. \A b : b \in frame.bits <=> b \in w.bits
        BY <2>2, SumHas
    <2> QED BY <2>1, <2>3
<1>3. ASSUME NEW v \in Grown(sums, frame), v.bits \cap DOMAIN kept = {} PROVE v.bits = {}
    <2>1. CASE v \in sums
        BY <2>1, <1>3 DEF Spanned
    <2>2. ASSUME NEW u \in sums, v = Plus(u, frame) PROVE v.bits = {}
        <3>1. u \in Q!Row /\ Plus(u, w) \in sums
            BY DEF Spanned
        <3>2. v.bits = Plus(u, w).bits
            BY <3>1, <2>2, <1>2, PlusIs
        <3> QED BY <3>1, <3>2, <1>3 DEF Spanned
    <2> QED BY <2>1, <2>2, GrownIs
<1> QED BY <1>3, GrownIs DEF Spanned

\* A code that tells something new becomes a row.
LEMMA OneRowMore ==
    ASSUME NEW kept, NEW sums, Spanned(kept, sums), NEW frame \in Q!Row,
           Q!Reduced(frame, kept).bits # {}
    PROVE  LET next == Q!WithRow(kept, Q!Reduced(frame, kept)) IN
           /\ Spanned(next, Grown(sums, frame))
           /\ DOMAIN kept \subseteq DOMAIN next
<1> DEFINE row == Q!Reduced(frame, kept)
           P == Q!Pivot(row)
           next == Q!WithRow(kept, row)
           Piv == DOMAIN kept
           G == Grown(sums, frame)
<1>1. row \in Q!Row /\ row.bits \cap Piv = {} /\ row.bits # {}
    BY ReducedIs
<1>2. PICK w \in sums : row = Plus(frame, w)
    BY ReducedIs
<1>3. row.bits \subseteq Q!Blocks
    BY <1>1, RowIs
<1> HIDE DEF row
<1>4. P \in row.bits /\ \A c \in row.bits : P <= c
    <2>1. \E b \in row.bits : \A c \in row.bits : b <= c
        BY <1>1, <1>3, BlocksAre, LeastOf
    <2> QED BY <2>1 DEF Q!Pivot
<1>5. P \in Q!Blocks /\ P \notin Piv
    BY <1>1, <1>3, <1>4
<1>6. /\ DOMAIN next = Piv \cup {P} /\ next[P] = row
      /\ \A p \in Piv : next[p] = IF P \in kept[p].bits THEN Plus(kept[p], row) ELSE kept[p]
    BY <1>5 DEF Q!WithRow, Plus
<1> HIDE DEF P, next
<1>7. /\ G \subseteq Q!Row /\ Q!Zero \in G /\ \A v, u \in G : Plus(v, u) \in G
      /\ \A u \in sums : Plus(frame, u) \in G
      /\ sums \subseteq G
      /\ \A v \in G : v \in sums \/ \E u \in sums : v = Plus(u, frame)
    BY GrownIs
<1> HIDE DEF G
<1>8. row \in G
    BY <1>2, <1>7
<1>9. \A p \in Piv : /\ kept[p] \in sums /\ kept[p] \in Q!Row
                   /\ p \in kept[p].bits /\ \A c \in kept[p].bits : p <= c
                   /\ \A q \in Piv \ {p} : p \notin kept[q].bits
                   /\ p \in Q!Blocks
    BY DEF Spanned
<1>10. ASSUME NEW p \in Piv
       PROVE  /\ next[p] \in G /\ next[p].bits \subseteq kept[p].bits \cup row.bits
              /\ P \in row.bits => P \notin next[p].bits
              /\ \A q \in Piv : q \in next[p].bits <=> q \in kept[p].bits
              /\ \A c \in next[p].bits : p <= c
    <2>1. CASE P \in kept[p].bits
        <3>1. next[p] = Plus(kept[p], row) /\ Plus(kept[p], row) \in G
            BY <2>1, <1>6, <1>7, <1>8, <1>9
        <3>2. next[p].bits = Q!Sum(kept[p].bits, row.bits)
            BY <3>1, <1>1, <1>9, PlusIs
        <3>3. \A q \in Piv : q \notin row.bits
            BY <1>1
        <3>4. p <= P
            BY <2>1, <1>9
        <3>5. p \in Nat /\ P \in Nat /\ row.bits \subseteq Nat
            <4>1. p \in Q!Blocks /\ P \in Q!Blocks
                BY <1>5 DEF Spanned
            <4> QED BY <4>1, <1>3, BlocksAre
        <3>6. \A c \in row.bits : p <= c
            BY <3>4, <3>5, <1>4
        <3> QED BY <3>1, <3>2, <3>3, <3>6, <2>1, <1>9, SumHas
    <2>2. CASE P \notin kept[p].bits
        BY <2>2, <1>6, <1>7, <1>9
    <2> QED BY <2>1, <2>2
<1>11. ASSUME NEW p \in DOMAIN next
       PROVE  /\ next[p] \in G
              /\ p \in next[p].bits /\ \A c \in next[p].bits : p <= c
              /\ \A q \in DOMAIN next \ {p} : p \notin next[q].bits
    <2>1. CASE p = P
        <3>1. \A q \in Piv : P \notin next[q].bits
            BY <1>4, <1>10
        <3> QED BY <3>1, <2>1, <1>4, <1>6, <1>8
    <2>2. CASE p \in Piv
        <3>1. p \in next[p].bits /\ \A q \in Piv \ {p} : p \notin next[q].bits
            BY <2>2, <1>9, <1>10
        <3>2. p \notin next[P].bits
            BY <2>2, <1>1, <1>6
        <3> QED BY <3>1, <3>2, <2>2, <1>6, <1>10
    <2> QED BY <2>1, <2>2, <1>6
<1>12. ASSUME NEW v \in G, v.bits \cap DOMAIN next = {} PROVE v.bits = {}
    <2>1. v.bits \cap Piv = {} /\ P \notin v.bits
        BY <1>6, <1>12
    <2>2. CASE v \in sums
        BY <2>1, <2>2 DEF Spanned
    <2>3. ASSUME NEW u \in sums, v = Plus(u, frame) PROVE FALSE
        <3>1. u \in Q!Row /\ w \in Q!Row /\ Plus(u, w) \in sums /\ Plus(u, w) \in Q!Row
            BY DEF Spanned
        <3>2. frame = Plus(row, w)
            <4>1. Plus(row, w) = Plus(frame, Plus(w, w))
                BY <1>2, <3>1, PlusTurns
            <4> QED BY <4>1, <3>1, PlusTurns
        <3>3. v = Plus(Plus(u, w), row)
            <4>1. Plus(row, w) = Plus(w, row)
                BY <1>1, <3>1, PlusTurns
            <4> QED BY <4>1, <2>3, <3>1, <3>2, <1>1, PlusTurns
        <3> DEFINE t == Plus(u, w)
        <3>4. v.bits = Q!Sum(t.bits, row.bits)
            BY <3>1, <3>3, <1>1, PlusIs
        <3> HIDE DEF t
        <3>5. t.bits \cap Piv = {}
            BY <3>4, <2>1, <1>1, SumHas
        <3>6. t.bits = {}
            BY <3>1, <3>5 DEF t, Spanned
        <3> QED BY <3>4, <3>6, <2>1, <1>4, SumHas
    <2> QED BY <2>2, <2>3, <1>7
<1>13. Spanned(next, G)
    <2>1. DOMAIN next \subseteq Q!Blocks
        BY <1>5, <1>6 DEF Spanned
    <2> QED BY <2>1, <1>7, <1>11, <1>12 DEF Spanned
<1> QED BY <1>6, <1>13 DEF row, next, G

CodesInv ==
    /\ stream \in Streams \cup {0} /\ (stream = 0 => rows = Q!Empty)
    /\ Spanned(rows, span)
    /\ result \in {"none", "more", "complete", "error"}

\* What a scan had before a code of stream s, and what it has after it.
Before(s) == IF stream = s THEN rows ELSE Q!Empty
SumsBefore(s) == IF stream = s THEN span ELSE {Q!Zero}

Adds(s, frame, next, whole) ==
    /\ Spanned(next, Grown(SumsBefore(s), frame)) /\ DOMAIN Before(s) \subseteq DOMAIN next
    /\ \/ /\ stream' = s /\ rows' = next /\ span' = Grown(SumsBefore(s), frame)
          /\ result' \in {"more", "complete"}
       \/ /\ whole
          /\ [b \in Q!Blocks |-> next[b].data] # Q!Source
          /\ stream' = 0 /\ rows' = Q!Empty /\ span' = {Q!Zero} /\ result' = "error"

LEMMA AddIs ==
    ASSUME CodesInv, NEW s \in Streams, NEW frame \in Q!Row, Q!Add(s, frame)
    PROVE  \E next : Adds(s, frame, next, DOMAIN next = Q!Blocks)
<1> DEFINE kept == Before(s)
           sums == SumsBefore(s)
           row == Q!Reduced(frame, kept)
           G == Grown(sums, frame)
<1>1. Spanned(kept, sums)
    BY NothingSpans DEF CodesInv, Before, SumsBefore
<1>2. CASE row.bits = {}
    <2>1. Spanned(kept, G)
        BY <1>1, <1>2, NothingNew
    <2>2. stream' = s /\ rows' = kept /\ span' = G /\ result' = "more"
        BY <1>2 DEF Q!Add, Grown, Before, SumsBefore
    <2> QED BY <2>1, <2>2 DEF Adds
<1>3. CASE row.bits # {}
    <2> DEFINE next == Q!WithRow(kept, row)
    <2>1. Spanned(next, G) /\ DOMAIN kept \subseteq DOMAIN next
        BY <1>1, <1>3, OneRowMore
    <2>2. \/ /\ stream' = s /\ rows' = next /\ span' = G /\ result' \in {"more", "complete"}
          \/ /\ DOMAIN next = Q!Blocks /\ [b \in Q!Blocks |-> next[b].data] # Q!Source
             /\ stream' = 0 /\ rows' = Q!Empty /\ span' = {Q!Zero} /\ result' = "error"
        BY <1>3 DEF Q!Add, Grown, Before, SumsBefore
    <2> HIDE DEF next
    <2> QED BY <2>1, <2>2 DEF Adds
<1> QED BY <1>2, <1>3

LEMMA FramesAre ==
    ASSUME NEW bits \in Q!Emitted
    PROVE  /\ [bits |-> bits, data |-> bits] \in Q!Row
           /\ \A noise \in Q!Noises : [bits |-> bits, data |-> bits \cup {noise}] \in Q!Row
BY DEF Q!Emitted, Q!Row

LEMMA CodesInit == Q!Init => CodesInv
BY NothingSpans DEF Q!Init, CodesInv

LEMMA NextAdds ==
    ASSUME Q!Next
    PROVE  \E s \in Streams, frame \in Q!Row : Q!Add(s, frame)
BY FramesAre DEF Q!Next

LEMMA CodesStep == CodesInv /\ [Q!Next]_(Q!vars) => CodesInv'
<1> SUFFICES ASSUME CodesInv, [Q!Next]_(Q!vars) PROVE CodesInv'
    OBVIOUS
<1>1. CASE UNCHANGED Q!vars
    BY <1>1 DEF Q!vars, CodesInv
<1>2. CASE Q!Next
    <2>1. PICK s \in Streams, frame \in Q!Row : Q!Add(s, frame)
        BY <1>2, NextAdds
    <2>2. PICK next : Adds(s, frame, next, DOMAIN next = Q!Blocks)
        BY <2>1, AddIs
    <2>3. stream' # 0 \/ rows' = Q!Empty
        BY <2>2, StreamsAreNumbered DEF Adds
    <2> QED BY <2>2, <2>3, NothingSpans DEF Adds, CodesInv
<1> QED BY <1>1, <1>2

LEMMA CodesMove == [Next]_vars => [Q!Next]_(Q!vars)
BY DEF Next, vars, codes, Q!vars

LEMMA CodesHold == Spec => []CodesInv
<1>1. Init => CodesInv
    BY CodesInit DEF Init
<1>2. CodesInv /\ [Next]_vars => CodesInv'
    BY CodesMove, CodesStep
<1> QED BY <1>1, <1>2, PTL DEF Spec

\* A sum of codes is told by the pivots it has.
LEMMA ToldByPivots ==
    ASSUME NEW kept, NEW sums, Spanned(kept, sums), NEW v \in sums, NEW w \in sums,
           v.bits \cap DOMAIN kept = w.bits \cap DOMAIN kept
    PROVE  v.bits = w.bits
<1>1. v \in Q!Row /\ w \in Q!Row /\ Plus(v, w) \in sums
    BY DEF Spanned
<1>2. Plus(v, w).bits = Q!Sum(v.bits, w.bits)
    BY <1>1, PlusIs
<1>3. Q!Sum(v.bits, w.bits) \cap DOMAIN kept = {}
    BY SumHas
<1>4. Q!Sum(v.bits, w.bits) = {}
    BY <1>1, <1>2, <1>3 DEF Spanned
<1>5. \A b : b \in v.bits <=> b \in w.bits
    BY <1>4, SumHas
<1> QED BY <1>5

\* The pivots of a sum of rows are those of the rows.
LEMMA PivotsOfSum ==
    ASSUME NEW kept, NEW sums, Spanned(kept, sums), NEW U \in SUBSET DOMAIN kept
    PROVE  SumOf(kept, U).bits \cap DOMAIN kept = U
<1>1. ASSUME NEW p \in DOMAIN kept PROVE p \in SumOf(kept, U).bits <=> p \in U
    <2>1. \A q \in DOMAIN kept : p \in kept[q].bits <=> q = p
        BY DEF Spanned
    <2>2. p \in Q!Blocks
        BY DEF Spanned
    <2>3. {q \in U : p \in kept[q].bits} = IF p \in U THEN {p} ELSE {}
        BY <2>1
    <2>4. p \in SumOf(kept, U).bits <=> Odd({q \in U : p \in kept[q].bits})
        BY <2>2 DEF SumOf
    <2> QED BY <2>3, <2>4, OneIsOdd, NoneIsEven
<1> QED BY <1>1

\* So there are as many sums as sets of pivots.
LEMMA CountOfSums ==
    ASSUME NEW kept, NEW sums, Spanned(kept, sums)
    PROVE  Cardinality({v.bits : v \in sums}) = 2 ^ Cardinality(DOMAIN kept)
<1> DEFINE Piv == DOMAIN kept
           T == {v.bits : v \in sums}
           f == [U \in SUBSET Piv |-> SumOf(kept, U).bits]
<1>1. IsFiniteSet(Piv)
    BY BlocksAre, FS_Subset DEF Spanned
<1>2. \A U \in SUBSET Piv : SumOf(kept, U) \in sums /\ SumOf(kept, U).bits \cap Piv = U
    BY SumsAreSpanned, PivotsOfSum
<1>3. f \in [SUBSET Piv -> T]
    BY <1>2
<1>4. \A U, V \in SUBSET Piv : f[U] = f[V] => U = V
    BY <1>2
<1>5. \A t \in T : \E U \in SUBSET Piv : f[U] = t
    <2> TAKE t \in T
    <2>1. PICK v \in sums : t = v.bits
        OBVIOUS
    <2> DEFINE U == v.bits \cap Piv
    <2>2. SumOf(kept, U) \in sums /\ SumOf(kept, U).bits \cap Piv = v.bits \cap Piv
        BY <1>2
    <2>3. SumOf(kept, U).bits = v.bits
        BY <2>2, ToldByPivots
    <2>4. U \in SUBSET Piv
        OBVIOUS
    <2> QED BY <2>1, <2>3, <2>4
<1> HIDE DEF Piv, T, f
<1>6. f \in Bijection(SUBSET Piv, T)
    BY <1>3, <1>4, <1>5 DEF Bijection, Injection, Surjection, IsInjective
<1>7. IsFiniteSet(SUBSET Piv) /\ Cardinality(SUBSET Piv) = 2 ^ Cardinality(Piv)
    BY <1>1, FS_SUBSET
<1>8. ExistsBijection(SUBSET Piv, T)
    BY <1>6 DEF ExistsBijection
<1>9. Cardinality(T) = Cardinality(SUBSET Piv)
    BY <1>7, <1>8, FS_Bijection
<1> QED BY <1>7, <1>9 DEF Piv, T

\* When every block is a row, each is a row of its own, and of codes of the source the
\* source's.
LEMMA WholeIs ==
    ASSUME NEW kept, NEW sums, Spanned(kept, sums), DOMAIN kept = Q!Blocks, NEW b \in Q!Blocks
    PROVE  /\ kept[b].bits = {b}
           /\ Q!Clean(sums) => kept[b] = [bits |-> {b}, data |-> {b}]
<1>1. /\ kept[b] \in sums /\ kept[b] \in Q!Row /\ b \in kept[b].bits
      /\ \A q \in Q!Blocks : q # b => q \notin kept[b].bits
    BY DEF Spanned
<1>2. kept[b].bits = {b}
    <2>1. kept[b].bits \subseteq Q!Blocks
        BY <1>1, RowIs
    <2> QED BY <1>1, <2>1
<1>3. ASSUME Q!Clean(sums) PROVE kept[b] = [bits |-> {b}, data |-> {b}]
    <2>1. kept[b].data = {b}
        BY <1>1, <1>2, <1>3 DEF Q!Clean
    <2> QED BY <1>1, <1>2, <2>1 DEF Q!Row
<1> QED BY <1>2, <1>3

\* Codes of the source add up to codes of the source.
LEMMA CleanGrows ==
    ASSUME NEW kept, NEW sums, Spanned(kept, sums), Q!Clean(sums),
           NEW frame \in Q!Row, frame.data = frame.bits
    PROVE  Q!Clean(Grown(sums, frame))
<1>1. ASSUME NEW u \in sums PROVE Plus(u, frame).data = Plus(u, frame).bits
    <2>1. u \in Q!Row /\ u.data = u.bits
        BY DEF Spanned, Q!Clean
    <2> QED BY <2>1, PlusIs
<1> QED BY <1>1, GrownIs DEF Q!Clean

\* The rows a scan keeps are its codes, no more and no less, whichever came twice, late or
\* never; and codes of the source that add up to every block are enough (Decoder::Add).
THEOREM RowsAreCodes == Spec => [](Q!TypeOK /\ Q!RowsSpanCodes /\ Q!CodesSuffice)
<1> SUFFICES ASSUME CodesInv PROVE Q!TypeOK /\ Q!RowsSpanCodes /\ Q!CodesSuffice
    BY CodesHold, PTL
<1>1. Spanned(rows, span)
    BY DEF CodesInv
<1>2. Q!TypeOK
    BY <1>1 DEF CodesInv, Q!TypeOK, Spanned
<1>3. Q!RowsSpanCodes
    <2>1. ASSUME NEW p \in DOMAIN rows PROVE p = Q!Pivot(rows[p])
        <3>1. /\ p \in rows[p].bits /\ \A c \in rows[p].bits : p <= c
              /\ rows[p].bits \subseteq Nat
            BY <1>1, BlocksAre, RowIs DEF Spanned
        <3>2. \A b \in rows[p].bits : (\A c \in rows[p].bits : b <= c) => b = p
            BY <3>1
        <3> QED BY <3>1, <3>2 DEF Q!Pivot
    <2>2. \A S : Q!Cardinality(S) = Cardinality(S)
        BY DEF Q!Cardinality, Cardinality
    <2>3. Q!Cardinality({v.bits : v \in span}) = 2 ^ Q!Cardinality(DOMAIN rows)
        BY <1>1, <2>2, CountOfSums
    <2> QED BY <1>1, <2>1, <2>3 DEF Q!RowsSpanCodes, Spanned
<1>4. Q!CodesSuffice
    <2> SUFFICES ASSUME Q!Clean(span), {v.bits : v \in span} = SUBSET Q!Blocks
                 PROVE  /\ DOMAIN rows = Q!Blocks
                        /\ \A b \in Q!Blocks : rows[b] = [bits |-> {b}, data |-> {b}]
        BY DEF Q!CodesSuffice
    <2>1. \A b \in Q!Blocks : b \in DOMAIN rows
        <3> SUFFICES ASSUME NEW b \in Q!Blocks, b \notin DOMAIN rows PROVE FALSE
            OBVIOUS
        <3>1. {b} \in {v.bits : v \in span}
            OBVIOUS
        <3>2. PICK v \in span : v.bits = {b}
            BY <3>1
        <3>3. v.bits \cap DOMAIN rows = {}
            BY <3>2
        <3>4. v.bits = {}
            BY <3>3, <1>1 DEF Spanned
        <3> QED BY <3>2, <3>4
    <2>2. DOMAIN rows = Q!Blocks
        BY <2>1, <1>1 DEF Spanned
    <2> QED BY <2>2, <1>1, WholeIs
<1> QED BY <1>2, <1>3, <1>4

\* A scan is lost only to a code that was not the source's, and what was scanned is given
\* up only then or for another stream (Decoder::Add).
THEOREM ScansFailByNoise == Spec => Q!OnlyNoiseFails
<1> DEFINE Fails ==
               /\ result' = "error" =>
                      \A s \in Streams, bits \in Q!Emitted :
                          Q!Add(s, [bits |-> bits, data |-> bits]) => stream = s /\ ~Q!Clean(span)
               /\ stream' = stream => DOMAIN rows \subseteq DOMAIN rows'
<1>1. CodesInv /\ [Next]_vars => [Fails]_(Q!vars)
    <2> SUFFICES ASSUME CodesInv, Q!Next PROVE Fails
        BY CodesMove
    <2>1. ASSUME result' = "error", NEW s \in Streams, NEW bits \in Q!Emitted,
                 Q!Add(s, [bits |-> bits, data |-> bits])
          PROVE  stream = s /\ ~Q!Clean(span)
        <3> DEFINE frame == [bits |-> bits, data |-> bits]
        <3>1. frame \in Q!Row /\ frame.data = frame.bits
            BY FramesAre
        <3> HIDE DEF frame
        <3>2. Q!Add(s, frame)
            BY <2>1 DEF frame
        <3>3. PICK next : Adds(s, frame, next, DOMAIN next = Q!Blocks)
            BY <3>1, <3>2, AddIs
        <3>4. /\ DOMAIN next = Q!Blocks /\ [b \in Q!Blocks |-> next[b].data] # Q!Source
              /\ Spanned(next, Grown(SumsBefore(s), frame))
            BY <3>3, <2>1 DEF Adds
        <3>5. ASSUME Q!Clean(SumsBefore(s)) PROVE FALSE
            <4>1. Spanned(Before(s), SumsBefore(s))
                BY NothingSpans DEF CodesInv, Before, SumsBefore
            <4>2. Q!Clean(Grown(SumsBefore(s), frame))
                BY <4>1, <3>1, <3>5, CleanGrows
            <4>3. \A b \in Q!Blocks : next[b].data = {b}
                <5> SUFFICES ASSUME NEW b \in Q!Blocks PROVE next[b].data = {b}
                    OBVIOUS
                <5>1. next[b] = [bits |-> {b}, data |-> {b}]
                    BY <3>4, <4>2, WholeIs
                <5> QED BY <5>1
            <4> QED BY <3>4, <4>3 DEF Q!Source
        <3>6. Q!Clean({Q!Zero})
            BY RowIs DEF Q!Clean
        <3> QED BY <3>5, <3>6 DEF SumsBefore
    <2>2. ASSUME stream' = stream PROVE DOMAIN rows \subseteq DOMAIN rows'
        <3>1. PICK s \in Streams, frame \in Q!Row : Q!Add(s, frame)
            BY NextAdds
        <3>2. PICK next : Adds(s, frame, next, DOMAIN next = Q!Blocks)
            BY <3>1, AddIs
        <3>3. CASE stream' = s /\ rows' = next
            BY <3>2, <3>3, <2>2 DEF Adds, Before
        <3>4. CASE stream' = 0
            BY <3>4, <2>2 DEF CodesInv, Q!Empty
        <3> QED BY <3>2, <3>3, <3>4 DEF Adds
    <2> QED BY <2>1, <2>2
<1> QED BY <1>1, CodesHold, PTL DEF Spec, Q!OnlyNoiseFails

----------------------------------------------------------------------------
(* Downloads *)

\* Every connection of a handle was made with the secret it is for, and one with a secret
\* to the server the secret is for.
Apart(policy, made) ==
    \A c \in made : c.secret = policy.secret /\ (c.secret # "none" => c.origin = policy.origin)

Jobs ==
    [at : {"none"}]
    \cup [at : {"sending"}, ask : L!Asking, dir : Nat, made : SUBSET L!Connections]
    \cup [at : {"arrived", "checked"}, ask : L!Asking, dir : Nat,
          headers : SUBSET ({"etag", "length"} \X {"last"})]

PoolInv ==
    /\ transport \in Transports
    /\ idle \in Seq([policy : L!Connections, made : SUBSET L!Connections]) /\ Len(idle) <= MaxIdle
    /\ \A i \in DOMAIN idle : Apart(idle[i].policy, idle[i].made)

\* A running request has a directory with its own body, which was looked at as far as the
\* request has come.
Running(r) ==
    /\ job[r].dir \in DOMAIN temps /\ temps[job[r].dir][1] = r
    /\ job[r].at = "sending" => Apart(L!Policy(job[r].ask), job[r].made)
    /\ job[r].at # "sending" => /\ temps[job[r].dir][2] \in {"whole", "large", "foreign"}
                                /\ job[r].ask.limited => temps[job[r].dir][2] # "large"
    /\ job[r].at = "checked" => temps[job[r].dir][2] # "foreign"

JobsInv ==
    /\ job \in [Requests -> Jobs]
    /\ \A r \in Requests : job[r].at # "none" => Running(r)

\* Every directory is a running request's.
TempsInv ==
    /\ DOMAIN temps \subseteq Nat /\ IsFiniteSet(DOMAIN temps)
    /\ temps = [d \in DOMAIN temps |-> temps[d]]
    /\ \A d \in DOMAIN temps : /\ temps[d] \in Requests \X L!Forms
                               /\ job[temps[d][1]].at # "none" /\ job[temps[d][1]].dir = d

DestInv == dest = <<"old">> \/ dest \in Requests \X {"whole", "large"}

DownInv == PoolInv /\ JobsInv /\ TempsInv /\ DestInv

LEMMA AskIs ==
    ASSUME NEW ask \in L!Asking
    PROVE  /\ ask.origin \in Origins /\ ask.secret \in {"none", "token"}
           /\ ask.current \in BOOLEAN /\ ask.limited \in BOOLEAN
           /\ L!Policy(ask) \in L!Connections
           /\ L!Policy(ask).origin = ask.origin /\ L!Policy(ask).secret = ask.secret
BY DEF L!Asking, L!Policy, L!Connections

LEMMA JobIs ==
    ASSUME NEW j \in Jobs
    PROVE  /\ j.at \in {"none", "sending", "arrived", "checked"}
           /\ j.at = "none" => j = L!Resting
           /\ j.at # "none" => j.ask \in L!Asking /\ j.dir \in Nat
           /\ j.at = "sending" => j.made \subseteq L!Connections
           /\ j.at \in {"arrived", "checked"} =>
                  /\ j.headers \subseteq {"etag", "length"} \X {"last"}
                  /\ [j EXCEPT !.at = "checked"] \in Jobs
                  /\ [j EXCEPT !.at = "checked"].at = "checked"
                  /\ [j EXCEPT !.at = "checked"].ask = j.ask
                  /\ [j EXCEPT !.at = "checked"].dir = j.dir
BY DEF Jobs, L!Resting

LEMMA DownInit == L!Init => DownInv
<1> SUFFICES ASSUME L!Init PROVE DownInv
    OBVIOUS
<1>1. PoolInv
    BY PoolHasRoom DEF L!Init, PoolInv
<1>2. JobsInv
    BY DEF L!Init, JobsInv, Jobs, L!Resting
<1>3. TempsInv
    BY FS_EmptySet DEF L!Init, TempsInv
<1> QED BY <1>1, <1>2, <1>3 DEF DownInv, DestInv, L!Init

LEMMA FreeIsFree ==
    ASSUME TempsInv
    PROVE  L!Free \in Nat \ DOMAIN temps
<1> DEFINE n == Cardinality(DOMAIN temps)
<1>1. n \in Nat /\ L!Cardinality(DOMAIN temps) = n
    BY FS_CardinalityType DEF TempsInv, L!Cardinality, Cardinality
<1>2. \E d \in 1 .. n + 1 : d \notin DOMAIN temps
    <2> SUFFICES ASSUME 1 .. n + 1 \subseteq DOMAIN temps PROVE FALSE
        OBVIOUS
    <2>1. Cardinality(1 .. n + 1) = n + 1
        BY <1>1, FS_Interval
    <2>2. Cardinality(1 .. n + 1) <= n
        BY FS_Subset DEF TempsInv
    <2> QED BY <1>1, <2>1, <2>2
<1>3. L!Free = CHOOSE d \in 1 .. n + 1 : d \notin DOMAIN temps
    BY <1>1 DEF L!Free
<1> HIDE DEF n
<1> QED BY <1>1, <1>2, <1>3

\* A request that ends takes its directory with it.
LEMMA EndKeeps ==
    ASSUME JobsInv, TempsInv, NEW r \in Requests, job[r].at # "none", NEW as, L!End(r, as)
    PROVE  JobsInv' /\ TempsInv'
<1> DEFINE dir == job[r].dir
<1>1. /\ job' = [job EXCEPT ![r] = L!Resting]
      /\ temps' = [e \in DOMAIN temps \ {dir} |-> temps[e]]
    BY DEF L!End, L!Without
<1>2. dir \in DOMAIN temps /\ temps[dir][1] = r
    BY DEF JobsInv, Running
<1> HIDE DEF dir
<1>3. \A q \in Requests : job'[q].at # "none" => q # r /\ job'[q] = job[q] /\ job[q].dir # dir
    BY <1>1, <1>2 DEF JobsInv, Running, L!Resting
<1>4. JobsInv'
    <2>1. L!Resting \in Jobs
        BY DEF L!Resting, Jobs
    <2>2. job' \in [Requests -> Jobs]
        BY <1>1, <2>1 DEF JobsInv
    <2>3. ASSUME NEW q \in Requests, job'[q].at # "none" PROVE Running(q)'
        <3>1. Running(q) /\ q # r /\ job'[q] = job[q] /\ job[q].dir # dir
            BY <2>3, <1>3 DEF JobsInv
        <3>2. job[q].dir \in DOMAIN temps' /\ temps'[job[q].dir] = temps[job[q].dir]
            BY <3>1, <1>1 DEF Running
        <3> QED BY <3>1, <3>2 DEF Running
    <2> QED BY <2>2, <2>3 DEF JobsInv
<1>5. TempsInv'
    <2>1. DOMAIN temps' = DOMAIN temps \ {dir} /\ \A d \in DOMAIN temps' : temps'[d] = temps[d]
        BY <1>1
    <2>2. IsFiniteSet(DOMAIN temps')
        BY <2>1, FS_RemoveElement DEF TempsInv
    <2>3. ASSUME NEW d \in DOMAIN temps'
          PROVE  /\ temps'[d] \in Requests \X L!Forms
                 /\ job'[temps'[d][1]].at # "none" /\ job'[temps'[d][1]].dir = d
        BY <2>1, <1>1, <1>2 DEF TempsInv, JobsInv
    <2>4. temps' = [d \in DOMAIN temps' |-> temps'[d]]
        BY <1>1
    <2> QED BY <2>1, <2>2, <2>3, <2>4 DEF TempsInv
<1> QED BY <1>4, <1>5

\* ---- the pool of handles ----

Pool(s) ==
    /\ s \in Seq([policy : L!Connections, made : SUBSET L!Connections]) /\ Len(s) <= MaxIdle
    /\ \A i \in DOMAIN s : Apart(s[i].policy, s[i].made)

LEMMA EvictedIs ==
    ASSUME NEW s, Pool(s)
    PROVE  Pool(L!Evicted(s)) /\ Len(L!Evicted(s)) < MaxIdle
<1>1. CASE Len(s) = MaxIdle
    <2>1. /\ L!Evicted(s) = Tail(s) /\ s # <<>> /\ MaxIdle \in Nat /\ MaxIdle > 0
        BY <1>1, PoolHasRoom DEF L!Evicted, Pool
    <2>2. /\ Tail(s) \in Seq([policy : L!Connections, made : SUBSET L!Connections])
          /\ Len(Tail(s)) = Len(s) - 1
          /\ \A i \in 1 .. Len(s) - 1 : Tail(s)[i] = s[i + 1] /\ i + 1 \in 1 .. Len(s)
        BY <2>1 DEF Pool
    <2>3. \A i \in DOMAIN Tail(s) : i \in 1 .. Len(s) - 1
        BY <2>2
    <2>4. \A i \in DOMAIN Tail(s) : Apart(Tail(s)[i].policy, Tail(s)[i].made)
        BY <2>2, <2>3 DEF Pool
    <2> QED BY <2>1, <2>2, <2>4, <1>1 DEF Pool
<1>2. CASE Len(s) # MaxIdle
    BY <1>2, PoolHasRoom DEF L!Evicted, Pool
<1> QED BY <1>1, <1>2

LEMMA ReturnedIs ==
    ASSUME Pool(idle), NEW policy \in L!Connections, NEW made \in SUBSET L!Connections,
           Apart(policy, made)
    PROVE  Pool(L!Returned(policy, made))
<1> DEFINE s == L!Evicted(idle)
           e == [policy |-> policy, made |-> made]
<1>1. Pool(s) /\ Len(s) < MaxIdle /\ L!Returned(policy, made) = Append(s, e)
    BY EvictedIs DEF L!Returned
<1>2. e \in [policy : L!Connections, made : SUBSET L!Connections] /\ Apart(e.policy, e.made)
    OBVIOUS
<1> HIDE DEF s, e
<1>3. /\ Append(s, e) \in Seq([policy : L!Connections, made : SUBSET L!Connections])
      /\ Len(Append(s, e)) = Len(s) + 1
      /\ \A i \in DOMAIN Append(s, e) : (i \in DOMAIN s /\ Append(s, e)[i] = s[i]) \/ Append(s, e)[i] = e
    BY <1>1, <1>2 DEF Pool
<1> QED BY <1>1, <1>2, <1>3, PoolHasRoom DEF Pool

LEMMA TakenIs ==
    ASSUME Pool(idle), NEW policy \in L!Connections
    PROVE  /\ Pool(L!Taken(policy).left)
           /\ L!Taken(policy).made \subseteq L!Connections /\ Apart(policy, L!Taken(policy).made)
<1>1. CASE L!Matching(policy) = {}
    BY <1>1, EvictedIs DEF L!Taken, Apart
<1>2. CASE L!Matching(policy) # {}
    <2> DEFINE i == CHOOSE j \in L!Matching(policy) : \A k \in L!Matching(policy) : j <= k
    <2>1. L!Matching(policy) \subseteq Nat
        BY DEF L!Matching, Pool
    <2>2. \E j \in L!Matching(policy) : \A k \in L!Matching(policy) : j <= k
        BY <1>2, <2>1, LeastOf
    <2>3. i \in L!Matching(policy)
        BY <2>2
    <2>4. L!Taken(policy) = [made |-> idle[i].made, left |-> L!RemoveAt(idle, i)]
        BY <1>2 DEF L!Taken
    <2> HIDE DEF i
    <2>5. i \in 1 .. Len(idle) /\ idle[i].policy = policy
        BY <2>3 DEF L!Matching, Pool
    <2>6. idle[i] \in [policy : L!Connections, made : SUBSET L!Connections] /\ Apart(idle[i].policy, idle[i].made)
        <3>1. i \in DOMAIN idle
            BY <2>3 DEF L!Matching
        <3>2. idle \in Seq([policy : L!Connections, made : SUBSET L!Connections])
            BY DEF Pool
        <3> DEFINE H_ == [policy : L!Connections, made : SUBSET L!Connections]
        <3>3. idle[i] \in H_
            <4>1. idle \in Seq(H_)
                BY <3>2
            <4> HIDE DEF H_
            <4> QED BY <2>5, <4>1
        <3> QED BY <3>1, <3>3 DEF Pool
    <2> DEFINE t == L!RemoveAt(idle, i)
    <2>7. t = SubSeq(idle, 1, i - 1) \o SubSeq(idle, i + 1, Len(idle))
        BY DEF L!RemoveAt
    <2>8. /\ t \in Seq([policy : L!Connections, made : SUBSET L!Connections])
          /\ Len(t) = Len(idle) - 1
          /\ \A j \in DOMAIN t : \E k \in DOMAIN idle : t[j] = idle[k]
        <3> DEFINE H_ == [policy : L!Connections, made : SUBSET L!Connections]
                   a == SubSeq(idle, 1, i - 1)
                   b == SubSeq(idle, i + 1, Len(idle))
        <3>1. idle \in Seq(H_)
            BY DEF Pool
        <3> HIDE DEF H_
        <3>2. /\ a \in Seq(H_) /\ Len(a) = i - 1 /\ \A j \in 1 .. i - 1 : a[j] = idle[j]
            BY <3>1, <2>5
        <3>3. /\ b \in Seq(H_) /\ Len(b) = Len(idle) - i
              /\ \A j \in 1 .. Len(idle) - i : b[j] = idle[j + i]
            BY <3>1, <2>5
        <3>4. t = a \o b
            BY <2>7
        <3>5. Len(idle) \in Nat /\ i \in Nat /\ DOMAIN idle = 1 .. Len(idle)
            BY <3>1, <2>5
        <3> HIDE DEF a, b, t
        <3>6. t \in Seq(H_) /\ Len(t) = Len(idle) - 1
            <4>1. t \in Seq(H_) /\ Len(t) = Len(a) + Len(b)
                BY <3>2, <3>3, <3>4, ConcatProperties
            <4> QED BY <4>1, <3>2, <3>3, <3>5
        <3>7. ASSUME NEW j \in 1 .. Len(idle) - 1 PROVE \E k \in DOMAIN idle : t[j] = idle[k]
            <4>1. CASE j <= i - 1
                <5>1. t[j] = a[j] /\ j \in 1 .. i - 1 /\ j \in 1 .. Len(idle)
                    BY <4>1, <3>2, <3>3, <3>4, <3>5, <2>5
                <5> QED BY <5>1, <3>2, <3>5
            <4>2. CASE j > i - 1
                <5>1. t[j] = b[j - (i - 1)] /\ j - (i - 1) \in 1 .. Len(idle) - i /\ j + 1 \in 1 .. Len(idle)
                    BY <4>2, <3>2, <3>3, <3>4, <3>5, <2>5
                <5>2. j - (i - 1) + i = j + 1
                    BY <3>5
                <5>3. b[j - (i - 1)] = idle[j + 1]
                    BY <5>1, <5>2, <3>3
                <5> QED BY <5>1, <5>3, <3>5
            <4> QED BY <4>1, <4>2, <3>5
        <3>8. DOMAIN t = 1 .. Len(idle) - 1
            BY <3>6
        <3> QED BY <3>6, <3>7, <3>8 DEF H_
    <2> HIDE DEF t
    <2>9. Pool(t)
        BY <2>5, <2>8, PoolHasRoom DEF Pool
    <2> QED BY <2>4, <2>5, <2>6, <2>9 DEF t
<1> QED BY <1>1, <1>2

LEMMA PoolIs == PoolInv <=> transport \in Transports /\ Pool(idle)
BY DEF PoolInv, Pool

\* ---- the steps ----

LEMMA BeginKeeps ==
    ASSUME DownInv, NEW r \in Requests, NEW ask \in L!Asking, L!Begin(r, ask)
    PROVE  DownInv'
<1> DEFINE dir == L!Free
           made == L!Taken(L!Policy(ask)).made
           new == [at |-> "sending", ask |-> ask, dir |-> dir, made |-> made]
<1>1. dir \in Nat \ DOMAIN temps
    BY FreeIsFree DEF DownInv
<1>2. /\ L!Policy(ask) \in L!Connections
      /\ Pool(L!Taken(L!Policy(ask)).left) /\ made \subseteq L!Connections /\ Apart(L!Policy(ask), made)
    BY AskIs, TakenIs, PoolIs DEF DownInv
<1>3. /\ job[r].at = "none"
      /\ job' = [job EXCEPT ![r] = new]
      /\ temps' = [e \in DOMAIN temps \cup {dir} |-> IF e = dir THEN <<r, "part">> ELSE temps[e]]
      /\ idle' = IF transport = "curl" THEN L!Taken(L!Policy(ask)).left ELSE idle
      /\ UNCHANGED <<transport, dest>>
    BY DEF L!Begin
<1>4. new \in Jobs /\ new.at = "sending" /\ new.dir = dir /\ new.ask = ask /\ new.made = made
    BY <1>1, <1>2 DEF Jobs
<1> HIDE DEF dir, made, new
<1>5. PoolInv'
    BY <1>2, <1>3, PoolIs DEF DownInv, PoolInv, Pool
<1>6. JobsInv'
    <2>1. job' \in [Requests -> Jobs]
        BY <1>3, <1>4 DEF DownInv, JobsInv
    <2>2. ASSUME NEW q \in Requests, job'[q].at # "none" PROVE Running(q)'
        <3>1. CASE q = r
            <4>1. job'[q] = new /\ dir \in DOMAIN temps' /\ temps'[dir] = <<r, "part">>
                BY <1>3, <3>1 DEF DownInv, JobsInv
            <4> QED BY <4>1, <3>1, <1>2, <1>4 DEF Running
        <3>2. CASE q # r
            <4>1. job'[q] = job[q] /\ Running(q)
                BY <1>3, <2>2, <3>2 DEF DownInv, JobsInv
            <4>2. job[q].dir \in DOMAIN temps' /\ temps'[job[q].dir] = temps[job[q].dir]
                BY <4>1, <1>1, <1>3 DEF Running
            <4> QED BY <4>1, <4>2 DEF Running
        <3> QED BY <3>1, <3>2
    <2> QED BY <2>1, <2>2 DEF JobsInv
<1>7. TempsInv'
    <2>1. DOMAIN temps' = DOMAIN temps \cup {dir} /\ temps'[dir] = <<r, "part">>
          /\ \A d \in DOMAIN temps : temps'[d] = temps[d]
        BY <1>1, <1>3
    <2>2. IsFiniteSet(DOMAIN temps')
        BY <2>1, FS_AddElement DEF DownInv, TempsInv
    <2>3. ASSUME NEW d \in DOMAIN temps'
          PROVE  /\ temps'[d] \in Requests \X L!Forms
                 /\ job'[temps'[d][1]].at # "none" /\ job'[temps'[d][1]].dir = d
        <3>1. CASE d = dir
            BY <3>1, <2>1, <1>3, <1>4 DEF DownInv, JobsInv, L!Forms
        <3>2. CASE d # dir
            BY <3>2, <2>1, <1>3, <1>4 DEF DownInv, JobsInv, TempsInv
        <3> QED BY <3>1, <3>2
    <2>4. temps' = [d \in DOMAIN temps' |-> temps'[d]]
        BY <1>3
    <2> QED BY <1>1, <2>1, <2>2, <2>3, <2>4 DEF DownInv, TempsInv
<1>8. DestInv'
    BY <1>3 DEF DownInv, DestInv
<1> QED BY <1>5, <1>6, <1>7, <1>8 DEF DownInv

\* The headers a request goes by are of the last hop.
LEMMA HeadersAreLast ==
    /\ L!HeadersOf(L!LastHop) \subseteq {"etag", "length"} \X {"last"}
    /\ L!HeadersOf(L!FirstHop \o L!LastHop) \subseteq {"etag", "length"} \X {"last"}
<1>1. L!HeadersOf(L!LastHop) \subseteq {"etag", "length"} \X {"last"}
    <2> DEFINE s == L!LastHop
    <2>1. Len(s) = 2 /\ DOMAIN s = 1 .. 2 /\ s[1][1] = "status" /\ s[2] = <<"length", "last">>
        BY DEF L!LastHop
    <2> HIDE DEF s
    <2>2. \A i \in DOMAIN s : s[i][1] # "status" => s[i] = <<"length", "last">>
        BY <2>1
    <2> QED BY <2>2 DEF L!HeadersOf, s
<1>2. L!HeadersOf(L!FirstHop \o L!LastHop) \subseteq {"etag", "length"} \X {"last"}
    <2> DEFINE s == L!FirstHop \o L!LastHop
    <2>1. Len(s) = 5 /\ DOMAIN s = 1 .. 5 /\ s[4][1] = "status" /\ s[5] = <<"length", "last">>
        BY DEF L!LastHop, L!FirstHop
    <2> HIDE DEF s
    <2>2. \A i \in DOMAIN s : s[i][1] # "status" /\ L!OnHeaderLine(s, i) => s[i] = <<"length", "last">>
        <3> SUFFICES ASSUME NEW i \in 1 .. 5, s[i][1] # "status", L!OnHeaderLine(s, i)
                     PROVE  i = 5
            BY <2>1
        <3>1. i # 4
            BY <2>1
        <3>2. \A j \in i + 1 .. 5 : s[j][1] # "status"
            BY <2>1 DEF L!OnHeaderLine
        <3>3. ~(4 \in i + 1 .. 5)
            BY <3>2, <2>1
        <3> QED BY <3>1, <3>3
    <2>3. \A h \in L!HeadersOf(s) : h = <<"length", "last">>
        BY <2>2 DEF L!HeadersOf
    <2> QED BY <2>3 DEF s
<1> QED BY <1>1, <1>2

\* What a request is at when its transfer ended well.
LEMMA ArriveIs ==
    ASSUME DownInv, NEW r \in Requests, L!Arrive(r)
    PROVE  /\ job[r].at = "sending" /\ UNCHANGED <<transport, dest>>
           /\ \E made \in SUBSET L!Connections :
                  /\ Apart(L!Policy(job[r].ask), made)
                  /\ idle' = idle \/ idle' = L!Returned(L!Policy(job[r].ask), made)
           /\ \/ L!End(r, "failed") \/ L!End(r, "current")
              \/ \E form \in {"whole", "foreign", "large"}, headers \in SUBSET ({"etag", "length"} \X {"last"}) :
                     /\ job[r].ask.limited => form # "large"
                     /\ job' = [job EXCEPT ![r] = [at |-> "arrived", ask |-> job[r].ask, dir |-> job[r].dir,
                                                   headers |-> headers]]
                     /\ temps' = [temps EXCEPT ![job[r].dir] = <<r, form>>]
                     /\ told' = L!Silence
<1> DEFINE ask == job[r].ask
           dir == job[r].dir
           Made(server) == job[r].made \cup {L!Policy(ask), [origin |-> server, secret |-> ask.secret]}
           Lines(server) == IF server # ask.origin THEN L!FirstHop \o L!LastHop ELSE L!LastHop
<1>1. job[r].at = "sending" /\ UNCHANGED <<transport, dest>>
    BY DEF L!Arrive
<1>2. PICK reply \in L!Replies(ask), server \in L!Hops(ask) :
          /\ idle' = IF transport = "curl" /\ reply.done
                     THEN L!Returned(L!Policy(ask), Made(server)) ELSE idle
          /\ IF ~L!Good(ask, reply) THEN L!End(r, "failed")
             ELSE IF reply.status = 304 THEN L!End(r, "current")
             ELSE /\ job' = [job EXCEPT ![r] = [at |-> "arrived", ask |-> ask, dir |-> dir,
                                                headers |-> L!HeadersOf(Lines(server))]]
                  /\ temps' = [temps EXCEPT ![dir] = <<r, reply.form>>]
                  /\ told' = L!Silence
    BY DEF L!Arrive
<1>3. /\ ask \in L!Asking /\ job[r].made \subseteq L!Connections /\ Apart(L!Policy(ask), job[r].made)
    BY <1>1, JobIs DEF DownInv, JobsInv, Running
<1>4. L!HeadersOf(Lines(server)) \in SUBSET ({"etag", "length"} \X {"last"})
    BY HeadersAreLast
<1>5. server \in Origins /\ (ask.secret # "none" => server = ask.origin)
    BY <1>3, AskIs DEF L!Hops, L!HasHeaders
<1>6. Made(server) \in SUBSET L!Connections /\ Apart(L!Policy(ask), Made(server))
    <2>1. [origin |-> server, secret |-> ask.secret] \in L!Connections
        BY <1>3, <1>5, AskIs DEF L!Connections
    <2>2. L!Policy(ask) \in L!Connections /\ L!Policy(ask).origin = ask.origin
          /\ L!Policy(ask).secret = ask.secret
        BY <1>3, AskIs
    <2> QED BY <2>1, <2>2, <1>3, <1>5 DEF Apart
<1>7. L!Good(ask, reply) /\ reply.status # 304 =>
          /\ reply.form \in {"whole", "foreign", "large"} /\ (ask.limited => reply.form # "large")
    <2> SUFFICES ASSUME L!Good(ask, reply), reply.status # 304
                 PROVE  reply.form \in {"whole", "foreign", "large"} /\ (ask.limited => reply.form # "large")
        OBVIOUS
    <2>1. reply.done /\ reply.status = 200 /\ reply.form # "cut" /\ ~(ask.limited /\ reply.form = "large")
        BY DEF L!Good
    <2>2. \/ reply = [done |-> FALSE, status |-> 0, form |-> "part"]
          \/ reply.form \in {"whole", "cut", "foreign"} \/ reply.form = "large"
          \/ reply.form = "foreign" \/ reply.status = 304
        BY DEF L!Replies
    <2>3. reply.form \in {"whole", "foreign", "large"}
        BY <2>1, <2>2
    <2> QED BY <2>1, <2>3
<1> HIDE DEF Made, Lines
<1> QED BY <1>1, <1>2, <1>4, <1>6, <1>7

LEMMA ArriveKeeps ==
    ASSUME DownInv, NEW r \in Requests, L!Arrive(r)
    PROVE  DownInv'
<1> DEFINE ask == job[r].ask
           dir == job[r].dir
<1>1. PICK made \in SUBSET L!Connections :
          /\ Apart(L!Policy(ask), made)
          /\ idle' = idle \/ idle' = L!Returned(L!Policy(ask), made)
    BY ArriveIs
<1>2. /\ job[r].at = "sending" /\ UNCHANGED <<transport, dest>>
      /\ \/ L!End(r, "failed") \/ L!End(r, "current")
         \/ \E form \in {"whole", "foreign", "large"}, headers \in SUBSET ({"etag", "length"} \X {"last"}) :
                /\ ask.limited => form # "large"
                /\ job' = [job EXCEPT ![r] = [at |-> "arrived", ask |-> ask, dir |-> dir, headers |-> headers]]
                /\ temps' = [temps EXCEPT ![dir] = <<r, form>>]
    BY ArriveIs
<1>3. ask \in L!Asking /\ dir \in Nat /\ Running(r) /\ L!Policy(ask) \in L!Connections
    BY <1>2, JobIs, AskIs DEF DownInv, JobsInv
<1>4. PoolInv'
    <2>1. Pool(idle) /\ transport \in Transports
        BY PoolIs DEF DownInv
    <2>2. Pool(L!Returned(L!Policy(ask), made))
        BY <1>1, <1>3, <2>1, ReturnedIs
    <2>3. Pool(idle') /\ transport' \in Transports
        BY <1>1, <1>2, <2>1, <2>2
    <2> QED BY <2>3 DEF PoolInv, Pool
<1>5. DestInv'
    BY <1>2 DEF DownInv, DestInv
<1>6. CASE L!End(r, "failed") \/ L!End(r, "current")
    <2>1. JobsInv' /\ TempsInv'
        BY <1>2, <1>6, EndKeeps DEF DownInv
    <2> QED BY <1>4, <1>5, <2>1 DEF DownInv
<1>7. ASSUME NEW form \in {"whole", "foreign", "large"},
             NEW headers \in SUBSET ({"etag", "length"} \X {"last"}),
             ask.limited => form # "large",
             job' = [job EXCEPT ![r] = [at |-> "arrived", ask |-> ask, dir |-> dir, headers |-> headers]],
             temps' = [temps EXCEPT ![dir] = <<r, form>>]
      PROVE  DownInv'
    <2> DEFINE new == [at |-> "arrived", ask |-> ask, dir |-> dir, headers |-> headers]
    <2>1. new \in Jobs /\ new.at = "arrived" /\ new.ask = ask /\ new.dir = dir
        BY <1>3 DEF Jobs
    <2>2. job' = [job EXCEPT ![r] = new]
        BY <1>7
    <2>3. temps[dir][1] = r /\ dir \in DOMAIN temps
        BY <1>3 DEF Running
    <2>4. \A q \in Requests : q # r /\ job[q].at # "none" => job[q].dir # dir
        BY <2>3 DEF DownInv, JobsInv, Running
    <2> HIDE DEF new, ask, dir
    <2>5. DOMAIN temps' = DOMAIN temps /\ temps'[dir] = <<r, form>>
          /\ \A d \in DOMAIN temps \ {dir} : temps'[d] = temps[d]
        BY <1>7, <2>3
    <2>6. JobsInv'
        <3>1. job' \in [Requests -> Jobs]
            BY <2>1, <2>2 DEF DownInv, JobsInv
        <3>2. ASSUME NEW q \in Requests, job'[q].at # "none" PROVE Running(q)'
            <4>1. CASE q = r
                <5>1. job'[q] = new
                    BY <2>2, <4>1 DEF DownInv, JobsInv
                <5> QED BY <5>1, <2>1, <2>3, <2>5, <4>1, <1>7 DEF Running
            <4>2. CASE q # r
                <5>1. job'[q] = job[q] /\ Running(q) /\ job[q].dir # dir
                    BY <2>2, <2>4, <3>2, <4>2 DEF DownInv, JobsInv
                <5>2. job[q].dir \in DOMAIN temps' /\ temps'[job[q].dir] = temps[job[q].dir]
                    BY <5>1, <2>5 DEF Running
                <5> QED BY <5>1, <5>2 DEF Running
            <4> QED BY <4>1, <4>2
        <3> QED BY <3>1, <3>2 DEF JobsInv
    <2>7. TempsInv'
        <3>1. ASSUME NEW d \in DOMAIN temps'
              PROVE  /\ temps'[d] \in Requests \X L!Forms
                     /\ job'[temps'[d][1]].at # "none" /\ job'[temps'[d][1]].dir = d
            <4>1. CASE d = dir
                <5>1. temps'[d] = <<r, form>> /\ temps'[d][1] = r /\ job'[r] = new
                    BY <4>1, <2>2, <2>5 DEF DownInv, JobsInv
                <5>2. <<r, form>> \in Requests \X L!Forms
                    BY DEF L!Forms
                <5> QED BY <5>1, <5>2, <4>1, <2>1
            <4>2. CASE d # dir
                <5>1. /\ temps'[d] = temps[d] /\ temps[d] \in Requests \X L!Forms
                      /\ temps[d][1] \in Requests
                      /\ job[temps[d][1]].at # "none" /\ job[temps[d][1]].dir = d
                    BY <4>2, <2>5 DEF DownInv, TempsInv
                <5>2. temps[d][1] # r
                    BY <5>1, <4>2 DEF dir
                <5>3. job'[temps[d][1]] = job[temps[d][1]]
                    BY <5>1, <5>2, <2>2 DEF DownInv, JobsInv
                <5> QED BY <5>1, <5>3
            <4> QED BY <4>1, <4>2
        <3>2. temps' = [d \in DOMAIN temps' |-> temps'[d]]
            BY <1>7 DEF DownInv, TempsInv
        <3> QED BY <2>5, <3>1, <3>2 DEF DownInv, TempsInv
    <2> QED BY <1>4, <1>5, <2>6, <2>7 DEF DownInv
<1> QED BY <1>2, <1>6, <1>7

LEMMA CheckKeeps ==
    ASSUME DownInv, NEW r \in Requests, L!Check(r)
    PROVE  DownInv'
<1>1. job[r].at = "arrived" /\ UNCHANGED <<transport, idle, dest>>
    BY DEF L!Check
<1>2. PoolInv' /\ DestInv'
    BY <1>1 DEF DownInv, PoolInv, DestInv
<1>3. CASE L!End(r, "failed")
    BY <1>1, <1>2, <1>3, EndKeeps DEF DownInv
<1>4. CASE /\ temps[job[r].dir][2] # "foreign" /\ job' = [job EXCEPT ![r].at = "checked"] /\ UNCHANGED temps
    <2> DEFINE new == [job[r] EXCEPT !.at = "checked"]
    <2>1. new \in Jobs /\ new.at = "checked" /\ new.ask = job[r].ask /\ new.dir = job[r].dir
        BY <1>1, JobIs DEF DownInv, JobsInv
    <2>2. job' = [job EXCEPT ![r] = new]
        BY <1>4
    <2>3. Running(r)
        BY <1>1 DEF DownInv, JobsInv
    <2> HIDE DEF new
    <2>4. JobsInv'
        <3>1. job' \in [Requests -> Jobs]
            BY <2>1, <2>2 DEF DownInv, JobsInv
        <3>2. ASSUME NEW q \in Requests, job'[q].at # "none" PROVE Running(q)'
            <4>1. CASE q = r
                <5>1. job'[q] = new
                    BY <2>2, <4>1 DEF DownInv, JobsInv
                <5> QED BY <5>1, <2>1, <2>3, <4>1, <1>1, <1>4 DEF Running
            <4>2. CASE q # r
                BY <2>2, <3>2, <4>2, <1>4 DEF DownInv, JobsInv, Running
            <4> QED BY <4>1, <4>2
        <3> QED BY <3>1, <3>2 DEF JobsInv
    <2>5. TempsInv'
        BY <1>4, <2>1, <2>2 DEF DownInv, JobsInv, TempsInv
    <2> QED BY <1>2, <2>4, <2>5 DEF DownInv
<1> QED BY <1>3, <1>4 DEF L!Check

LEMMA CommitKeeps ==
    ASSUME DownInv, NEW r \in Requests, L!Commit(r)
    PROVE  DownInv'
<1>1. /\ job[r].at = "checked" /\ UNCHANGED <<transport, idle>>
      /\ dest' = temps[job[r].dir] \/ UNCHANGED dest
      /\ \E as \in {"saved", "failed"} : L!End(r, as)
    BY DEF L!Commit
<1>2. JobsInv' /\ TempsInv'
    BY <1>1, EndKeeps DEF DownInv
<1>3. PoolInv'
    BY <1>1 DEF DownInv, PoolInv
<1>4. DestInv'
    <2>1. Running(r)
        BY <1>1 DEF DownInv, JobsInv
    <2>2. temps[job[r].dir] \in Requests \X {"whole", "large"}
        BY <2>1, <1>1 DEF DownInv, TempsInv, Running
    <2> QED BY <1>1, <2>2 DEF DownInv, DestInv
<1> QED BY <1>2, <1>3, <1>4 DEF DownInv

LEMMA DownStep == DownInv /\ [L!Next]_(L!vars) => DownInv'
<1> SUFFICES ASSUME DownInv, [L!Next]_(L!vars) PROVE DownInv'
    OBVIOUS
<1>1. CASE UNCHANGED L!vars
    BY <1>1 DEF L!vars, DownInv, PoolInv, JobsInv, TempsInv, DestInv, Running
<1>2. CASE L!Next
    BY <1>2, BeginKeeps, ArriveKeeps, CheckKeeps, CommitKeeps DEF L!Next
<1> QED BY <1>1, <1>2

LEMMA DownMoves == [Next]_vars => [L!Next]_(L!vars)
BY DEF Next, vars, downloads, L!vars

LEMMA DownHolds == Spec => []DownInv
<1>1. Init => DownInv
    BY DownInit DEF Init
<1>2. DownInv /\ [Next]_vars => DownInv'
    BY DownMoves, DownStep
<1> QED BY <1>1, <1>2, PTL DEF Spec

\* Secrets stay with the server they are for, over every redirection and every use of a
\* handle; every running request has a directory of its own, and only theirs are left; the
\* destination never has what was not checked (Take, Return, downloadToFile).
THEOREM DownloadsAreWhole == Spec => [](L!TypeOK /\ L!SecretsStayApart /\ L!DestinationIsWhole)
<1> SUFFICES ASSUME DownInv PROVE L!TypeOK /\ L!SecretsStayApart /\ L!DestinationIsWhole
    BY DownHolds, PTL
<1>1. L!TypeOK
    <2>1. \A i \in DOMAIN idle : idle[i].policy \in L!Connections /\ idle[i].made \subseteq L!Connections
        <3> DEFINE H_ == [policy : L!Connections, made : SUBSET L!Connections]
        <3>1. idle \in Seq(H_)
            BY DEF DownInv, PoolInv
        <3>2. \A h \in H_ : h.policy \in L!Connections /\ h.made \subseteq L!Connections
            OBVIOUS
        <3> HIDE DEF H_
        <3>3. \A i \in DOMAIN idle : idle[i] \in H_
            BY <3>1
        <3> QED BY <3>2, <3>3
    <2>2. \A r \in Requests : job[r].at \in {"none", "sending", "arrived", "checked"}
                              /\ (job[r].at # "none" => job[r].ask \in L!Asking)
        BY JobIs DEF DownInv, JobsInv
    <2>3. dest = <<"old">> \/ dest \in Requests \X L!Forms
        BY DEF DownInv, DestInv, L!Forms
    <2> QED BY <2>1, <2>2, <2>3 DEF L!TypeOK, DownInv, PoolInv, TempsInv
<1>2. L!SecretsStayApart
    <2> SUFFICES ASSUME NEW h \in L!Handles, NEW c \in h.made
                 PROVE  c.secret = h.ask.secret /\ (c.secret # "none" => c.origin = h.ask.origin)
        BY DEF L!SecretsStayApart
    <2>1. Apart(h.ask, h.made)
        BY DEF L!Handles, DownInv, PoolInv, JobsInv, Running
    <2> QED BY <2>1 DEF Apart
<1>3. L!DestinationIsWhole
    <2>1. \A q, r \in Requests :
              job[q].at # "none" /\ job[r].at # "none" /\ job[q].dir = job[r].dir => q = r
        BY DEF DownInv, JobsInv, Running
    <2>2. DOMAIN temps = {job[r].dir : r \in {q \in Requests : job[q].at # "none"}}
        <3>1. \A r \in Requests : job[r].at # "none" => job[r].dir \in DOMAIN temps
            BY DEF DownInv, JobsInv, Running
        <3>2. \A d \in DOMAIN temps : /\ temps[d][1] \in Requests /\ job[temps[d][1]].at # "none"
                                      /\ job[temps[d][1]].dir = d
            BY DEF DownInv, TempsInv
        <3> QED BY <3>1, <3>2
    <2>3. dest[Len(dest)] \notin {"part", "cut", "foreign"}
        <3>1. CASE dest = <<"old">>
            BY <3>1
        <3>2. CASE dest \in Requests \X {"whole", "large"}
            <4>1. PICK r \in Requests, form \in {"whole", "large"} : dest = <<r, form>>
                BY <3>2
            <4> QED BY <4>1
        <3> QED BY <3>1, <3>2 DEF DownInv, DestInv
    <2> QED BY <2>1, <2>2, <2>3 DEF L!DestinationIsWhole
<1> QED BY <1>1, <1>2, <1>3

\* Who is told that its file was saved has put it there, within its limit, and goes by the
\* headers of the body's own hop; nobody else changed the destination (downloadToFile).
THEOREM DownloadsTellTheTruth == Spec => L!TellsTheTruth
<1> DEFINE Truth ==
               /\ dest' # dest => told'[2] = "saved"
               /\ told'[2] = "saved" =>
                      LET r == told'[1] IN
                      /\ dest'[1] = r
                      /\ job[r].ask.limited => dest'[2] # "large"
                      /\ \A h \in job[r].headers : h[2] = "last"
<1>1. DownInv /\ [Next]_vars => [Truth]_(L!vars)
    <2> SUFFICES ASSUME DownInv, L!Next PROVE Truth
        BY DownMoves
    <2>1. ASSUME NEW r \in Requests, NEW ask \in L!Asking, L!Begin(r, ask) PROVE Truth
        BY <2>1 DEF L!Begin, L!Silence
    <2>2. ASSUME NEW r \in Requests, L!Arrive(r) PROVE Truth
        <3>1. dest' = dest /\ told'[2] # "saved"
            BY <2>2, ArriveIs DEF L!End, L!Silence
        <3> QED BY <3>1
    <2>3. ASSUME NEW r \in Requests, L!Check(r) PROVE Truth
        <3>1. dest' = dest /\ told'[2] # "saved"
            BY <2>3 DEF L!Check, L!End, L!Silence
        <3> QED BY <3>1
    <2>4. ASSUME NEW r \in Requests, L!Commit(r) PROVE Truth
        <3>1. Running(r) /\ job[r].at = "checked" /\ job[r] \in Jobs
            BY <2>4 DEF L!Commit, DownInv, JobsInv
        <3>2. CASE dest' = temps[job[r].dir] /\ L!End(r, "saved")
            <4>1. told'[1] = r /\ dest'[1] = r /\ (job[r].ask.limited => dest'[2] # "large")
                BY <3>1, <3>2 DEF L!End, Running
            <4>2. \A h \in job[r].headers : h[2] = "last"
                BY <3>1, JobIs
            <4>3. told'[2] = "saved"
                BY <3>2 DEF L!End
            <4> QED BY <4>1, <4>2, <4>3
        <3>3. CASE UNCHANGED dest /\ L!End(r, "failed")
            <4>1. told'[2] # "saved"
                BY <3>3 DEF L!End
            <4> QED BY <3>3, <4>1
        <3> QED BY <3>2, <3>3, <2>4 DEF L!Commit
    <2> QED BY <2>1, <2>2, <2>3, <2>4 DEF L!Next
<1> QED BY <1>1, DownHolds, PTL DEF Spec, L!TellsTheTruth

----------------------------------------------------------------------------
(* Other programs' tunnels *)

\* ---- addresses and routes ----

\* An address or a network: a value and how many of its bits count.
LEMMA FirstIs ==
    ASSUME NEW x, NEW y, x[1] \in 0 .. 3, y[1] \in 0 .. 3, NEW n \in 0 .. 2, NEW k \in 0 .. n
    PROVE  C!First(x, n) = C!First(y, n) => C!First(x, k) = C!First(y, k)
BY DEF C!First, C!High

\* Two prefixes share an address just when the bits both have agree.
LEMMA OverlapIsShare ==
    ASSUME NEW x \in Addresses, NEW y \in Addresses
    PROVE  C!Overlaps(x, y) <=> C!Share(x, y)
<1>1. /\ x[1] \in 0 .. 3 /\ x[2] \in 0 .. 2 /\ y[1] \in 0 .. 3 /\ y[2] \in 0 .. 2
    BY DEF Addresses
<1> DEFINE k == C!Shorter(x, y)
<1>2. k \in 0 .. x[2] /\ k \in 0 .. y[2] /\ (k = x[2] \/ k = y[2])
    BY <1>1 DEF C!Shorter
<1> HIDE DEF k
<1>3. \A a : a \in C!Within(x) <=> a \in 0 .. 3 /\ C!First(<<a, 2>>, x[2]) = C!First(x, x[2])
    BY DEF C!Within
<1>4. \A a : a \in C!Within(y) <=> a \in 0 .. 3 /\ C!First(<<a, 2>>, y[2]) = C!First(y, y[2])
    BY DEF C!Within
<1>5. ASSUME C!Share(x, y) PROVE C!First(x, k) = C!First(y, k)
    <2>1. PICK a : a \in C!Within(x) /\ a \in C!Within(y)
        BY <1>5 DEF C!Share
    <2> DEFINE z == <<a, 2>>
    <2>2. z[1] \in 0 .. 3 /\ C!First(z, x[2]) = C!First(x, x[2]) /\ C!First(z, y[2]) = C!First(y, y[2])
        BY <2>1, <1>3, <1>4
    <2> HIDE DEF z
    <2>3. C!First(z, k) = C!First(x, k)
        BY <2>2, <1>1, <1>2, FirstIs
    <2>4. C!First(z, k) = C!First(y, k)
        BY <2>2, <1>1, <1>2, FirstIs
    <2> QED BY <2>3, <2>4
<1>6. ASSUME C!First(x, k) = C!First(y, k) PROVE C!Share(x, y)
    <2>1. \A a, n : C!First(<<a, 2>>, n) = C!First(<<a, 0>>, n)
        BY DEF C!First, C!High
    <2>2. /\ \A n : C!First(<<x[1], 2>>, n) = C!First(x, n)
          /\ \A n : C!First(<<y[1], 2>>, n) = C!First(y, n)
        BY DEF C!First, C!High
    <2>3. CASE k = y[2]
        <3>1. x[1] \in C!Within(x) /\ x[1] \in C!Within(y)
            BY <2>2, <2>3, <1>1, <1>3, <1>4, <1>6
        <3> QED BY <3>1 DEF C!Share
    <2>4. CASE k = x[2]
        <3>1. y[1] \in C!Within(x) /\ y[1] \in C!Within(y)
            BY <2>2, <2>4, <1>1, <1>3, <1>4, <1>6
        <3> QED BY <3>1 DEF C!Share
    <2> QED BY <2>3, <2>4, <1>2
<1> QED BY <1>5, <1>6 DEF C!Overlaps, k

LEMMA NetworksAre ==
    /\ \A p \in Networks : p[2] \in 0 .. 2
    /\ \A p, q \in Networks : \A a \in 0 .. 3 :
           a \in C!Within(p) /\ a \in C!Within(q) /\ p[2] = q[2] => p = q
    /\ \A p \in Networks : p[2] <= 1 =>
           /\ 0 \in C!Within(p) <=> 1 \in C!Within(p)
           /\ 3 \in C!Within(p) <=> 2 \in C!Within(p)
    /\ \A p \in Networks : \A a \in 0 .. 3 : p[2] = 2 /\ a \in C!Within(p) => p[1] = a
<1>1. \A p \in Networks : \/ p = <<0, 0>> \/ p = <<0, 1>> \/ p = <<2, 1>>
                          \/ p[1] \in 0 .. 3 /\ p = <<p[1], 2>>
    BY DEF Networks
<1>2. /\ \A a \in 0 .. 3 : a \in C!Within(<<0, 0>>)
      /\ \A a \in 0 .. 3 : a \in C!Within(<<0, 1>>) <=> a \in {0, 1}
      /\ \A a \in 0 .. 3 : a \in C!Within(<<2, 1>>) <=> a \in {2, 3}
      /\ \A a, b \in 0 .. 3 : a \in C!Within(<<b, 2>>) <=> a = b
    BY DEF C!Within, C!First, C!High
<1>3. \A p \in Networks : p[2] \in 0 .. 2
    BY <1>1
<1>4. ASSUME NEW p \in Networks, NEW q \in Networks, NEW a \in 0 .. 3,
             a \in C!Within(p), a \in C!Within(q), p[2] = q[2]
      PROVE  p = q
    <2>1. CASE p = <<0, 0>>
        BY <1>1, <1>4, <2>1
    <2>2. CASE p = <<0, 1>>
        <3>1. q = <<0, 1>> \/ q = <<2, 1>>
            BY <1>1, <1>4, <2>2
        <3> QED BY <3>1, <1>2, <1>4, <2>2
    <2>3. CASE p = <<2, 1>>
        <3>1. q = <<0, 1>> \/ q = <<2, 1>>
            BY <1>1, <1>4, <2>3
        <3> QED BY <3>1, <1>2, <1>4, <2>3
    <2>4. CASE p[1] \in 0 .. 3 /\ p = <<p[1], 2>>
        <3>1. p[2] = 2
            BY <2>4
        <3>2. q[1] \in 0 .. 3 /\ q = <<q[1], 2>>
            BY <3>1, <1>1, <1>4
        <3>3. p[1] = a /\ q[1] = a
            BY <2>4, <3>2, <1>2, <1>4
        <3> QED BY <2>4, <3>2, <3>3
    <2> QED BY <1>1, <2>1, <2>2, <2>3, <2>4
<1>5. ASSUME NEW p \in Networks, p[2] <= 1
      PROVE  /\ 0 \in C!Within(p) <=> 1 \in C!Within(p)
             /\ 3 \in C!Within(p) <=> 2 \in C!Within(p)
    <2>1. p = <<0, 0>> \/ p = <<0, 1>> \/ p = <<2, 1>>
        BY <1>1, <1>5
    <2>2. {0, 1, 2, 3} \subseteq 0 .. 3
        OBVIOUS
    <2> QED BY <2>1, <2>2, <1>2
<1>6. ASSUME NEW p \in Networks, NEW a \in 0 .. 3, p[2] = 2, a \in C!Within(p) PROVE p[1] = a
    <2>1. p[1] \in 0 .. 3 /\ p = <<p[1], 2>>
        BY <1>1, <1>6
    <2> QED BY <2>1, <1>2, <1>6
<1> QED BY <1>3, <1>4, <1>5, <1>6

\* ---- who captures the network ----

Routed(a) == {p \in DOMAIN routes : routes[p] # 0 /\ a \in C!Within(p)}
Best(a, b) == b \in Routed(a) /\ \A q \in Routed(a) : q[2] <= b[2]

LEMMA RoutedIs ==
    ASSUME routes \in Tables, NEW a \in 0 .. 3
    PROVE  /\ Routed(a) \subseteq Networks
           /\ Routed(a) # {} => \E b : Best(a, b)
           /\ \A b, c : Best(a, b) /\ Best(a, c) => b = c
<1>1. Routed(a) \subseteq Networks
    BY RoutesAreNetworks DEF Routed
<1>2. \A p \in Routed(a) : p[2] \in 0 .. 2 /\ a \in C!Within(p)
    BY <1>1, NetworksAre DEF Routed
<1>3. ASSUME Routed(a) # {} PROVE \E b : Best(a, b)
    <2>1. CASE \E p \in Routed(a) : p[2] = 2
        <3>1. PICK p \in Routed(a) : p[2] = 2
            BY <2>1
        <3>2. Best(a, p)
            BY <3>1, <1>2 DEF Best
        <3> QED BY <3>2
    <2>2. CASE (\E p \in Routed(a) : p[2] = 1) /\ \A p \in Routed(a) : p[2] # 2
        <3>1. PICK p \in Routed(a) : p[2] = 1
            BY <2>2
        <3>2. \A q \in Routed(a) : q[2] <= 1
            BY <2>2, <1>2
        <3>3. Best(a, p)
            BY <3>1, <3>2 DEF Best
        <3> QED BY <3>3
    <2>3. CASE \A p \in Routed(a) : p[2] # 1 /\ p[2] # 2
        <3>1. \A q \in Routed(a) : q[2] = 0
            BY <2>3, <1>2
        <3>2. PICK p \in Routed(a) : TRUE
            BY <1>3
        <3>3. Best(a, p)
            BY <3>1, <3>2 DEF Best
        <3> QED BY <3>3
    <2> QED BY <2>1, <2>2, <2>3
<1>4. ASSUME NEW b, NEW c, Best(a, b), Best(a, c) PROVE b = c
    <2>1. b \in Routed(a) /\ c \in Routed(a) /\ b[2] <= c[2] /\ c[2] <= b[2]
        BY <1>4 DEF Best
    <2>2. b[2] = c[2]
        BY <2>1, <1>2
    <2> QED BY <2>1, <2>2, <1>1, <1>2, NetworksAre
<1> QED BY <1>1, <1>3, <1>4

LEMMA LookUpIs ==
    ASSUME routes \in Tables, NEW a \in 0 .. 3
    PROVE  /\ Routed(a) = {} => C!LookUp(a).index = 0
           /\ \A b : Best(a, b) => C!LookUp(a).index = routes[b] /\ C!LookUp(a).bits = b[2]
<1> DEFINE best == CHOOSE p \in Routed(a) : \A q \in Routed(a) : q[2] <= p[2]
<1>1. C!LookUp(a) = IF Routed(a) = {} THEN [index |-> 0, bits |-> 128]
                    ELSE [index |-> routes[best], bits |-> best[2]]
    BY DEF C!LookUp, Routed
<1>2. ASSUME NEW b, Best(a, b) PROVE best = b /\ Routed(a) # {}
    <2>1. best \in Routed(a) /\ \A q \in Routed(a) : q[2] <= best[2]
        BY <1>2 DEF Best
    <2> HIDE DEF best
    <2>2. Best(a, best)
        BY <2>1 DEF Best
    <2> QED BY <2>1, <2>2, <1>2, RoutedIs
<1> HIDE DEF best
<1> QED BY <1>1, <1>2

\* What goes by default where no single address has a route.
LEMMA DefaultIs ==
    ASSUME routes \in Tables, NEW a \in 0 .. 3, \A p \in Routed(a) : p[2] <= 1
    PROVE  /\ Routed(a) = {} => C!Default(a) = {}
           /\ \A b : Best(a, b) => C!Default(a) = {routes[b]}
<1> DEFINE M == {p \in DOMAIN C!Coarse : C!Coarse[p] # 0 /\ a \in C!Within(p)}
<1>1. M = Routed(a) /\ \A p \in M : C!Coarse[p] = routes[p]
    BY DEF C!Coarse, Routed
<1>2. C!Default(a) = {C!Coarse[p] : p \in {q \in M : \A r \in M : r[2] <= q[2]}}
    BY DEF C!Default
<1> HIDE DEF M
<1>3. ASSUME NEW b, Best(a, b) PROVE C!Default(a) = {routes[b]}
    <2>1. {q \in M : \A r \in M : r[2] <= q[2]} = {b}
        BY <1>1, <1>3, RoutedIs DEF Best
    <2> QED BY <2>1, <1>1, <1>2, <1>3 DEF Best
<1> QED BY <1>1, <1>2, <1>3

\* The two addresses of a half have the same default.
LEMMA SameHalf ==
    ASSUME routes \in Tables
    PROVE  C!Default(0) = C!Default(1) /\ C!Default(3) = C!Default(2)
<1> DEFINE M(a) == {p \in DOMAIN C!Coarse : C!Coarse[p] # 0 /\ a \in C!Within(p)}
<1>1. \A p \in DOMAIN C!Coarse : p \in Networks /\ p[2] <= 1
    BY RoutesAreNetworks DEF C!Coarse
<1>2. M(0) = M(1) /\ M(3) = M(2)
    BY <1>1, NetworksAre
<1>3. \A a : C!Default(a) = {C!Coarse[p] : p \in {q \in M(a) : \A r \in M(a) : r[2] <= q[2]}}
    BY DEF C!Default
<1> HIDE DEF M
<1> QED BY <1>2, <1>3

LEMMA CapturesMeant ==
    ASSUME routes \in Tables
    PROVE  C!CaptureIsMeant
<1> SUFFICES ASSUME NEW i \in 1 .. 3
             PROVE  /\ C!Captures(i) => \A a \in 0 .. 3 : C!Default(a) = {i}
                    /\ (\A a \in 0 .. 3 : C!Default(a) = {i})
                       /\ (\A p \in DOMAIN routes : p[2] = 2 /\ routes[p] # 0 => p[1] \notin {1, 2})
                           => C!Captures(i)
    BY DEF C!CaptureIsMeant, C!Indices, C!LowSample, C!HighSample
<1>1. ASSUME C!Captures(i) PROVE \A a \in 0 .. 3 : C!Default(a) = {i}
    <2>1. ASSUME NEW s \in {1, 2} PROVE C!Default(s) = {i}
        <3>1. C!LookUp(s).index = i /\ C!LookUp(s).bits <= 1 /\ s \in 0 .. 3
            BY <1>1 DEF C!Captures, C!LowSample, C!HighSample
        <3>2. Routed(s) # {}
            BY <3>1, LookUpIs
        <3>3. PICK b : Best(s, b)
            BY <3>1, <3>2, RoutedIs
        <3>4. routes[b] = i /\ b[2] <= 1
            BY <3>1, <3>3, LookUpIs
        <3>5. \A p \in Routed(s) : p[2] <= 1
            <4>1. \A p \in Routed(s) : p[2] \in 0 .. 2 /\ p[2] <= b[2]
                BY <3>1, <3>3, RoutedIs, NetworksAre DEF Best
            <4>2. b[2] \in 0 .. 2
                BY <3>3, <4>1 DEF Best
            <4> QED BY <4>1, <4>2, <3>4
        <3> QED BY <3>1, <3>3, <3>4, <3>5, DefaultIs
    <2>2. \A a \in 0 .. 3 : a \in {0, 1, 2, 3}
        OBVIOUS
    <2>3. C!Default(0) = {i} /\ C!Default(1) = {i} /\ C!Default(2) = {i} /\ C!Default(3) = {i}
        BY <2>1, SameHalf
    <2> QED BY <2>2, <2>3
<1>2. ASSUME \A a \in 0 .. 3 : C!Default(a) = {i},
             \A p \in DOMAIN routes : p[2] = 2 /\ routes[p] # 0 => p[1] \notin {1, 2}
      PROVE  C!Captures(i)
    <2>1. ASSUME NEW s \in {1, 2} PROVE C!LookUp(s).index = i /\ C!LookUp(s).bits <= 1
        <3>1. s \in 0 .. 3
            OBVIOUS
        <3>2. \A p \in Routed(s) : p[2] <= 1
            <4> SUFFICES ASSUME NEW p \in Routed(s) PROVE p[2] <= 1
                OBVIOUS
            <4>1. p \in Networks /\ s \in C!Within(p) /\ p \in DOMAIN routes /\ routes[p] # 0
                BY <3>1, RoutedIs DEF Routed
            <4>2. p[2] # 2
                BY <4>1, <3>1, <1>2, NetworksAre
            <4>3. p[2] \in 0 .. 2
                BY <4>1, NetworksAre
            <4> QED BY <4>2, <4>3
        <3>3. C!Default(s) = {i}
            BY <1>2, <3>1
        <3>4. Routed(s) # {}
            BY <3>1, <3>2, <3>3, DefaultIs
        <3>5. PICK b : Best(s, b)
            BY <3>1, <3>4, RoutedIs
        <3>6. routes[b] = i
            BY <3>1, <3>2, <3>3, <3>5, DefaultIs
        <3> QED BY <3>1, <3>2, <3>5, <3>6, LookUpIs DEF Best
    <2> QED BY <2>1 DEF C!Captures, C!LowSample, C!HighSample
<1> QED BY <1>1, <1>2

\* ---- whose tunnels are whose ----

\* The kernel's tunnel is what its plan says, unless it was taken; and who knows a plan of
\* a kernel that runs knows the one it runs.
TunnelInv ==
    /\ links \in [1 .. 3 -> {links[1], links[2], links[3]}]
    /\ links[3] = Physical /\ links[2] \in Others \cup {C!NoLink}
    /\ links[1] # C!NoLink => C!Running /\ links[1] = C!Tunnel(kernel.plan)
    /\ C!Running /\ ~lost => links[1] = C!Tunnel(kernel.plan)
    /\ kernel \in [start : 0 .. MaxStarts, plan : Plans \cup {C!NoPlan}]
    /\ C!Running => planFile = kernel.plan /\ applied \in {kernel.plan, C!NoPlan}
    /\ applied \in Plans \cup {C!NoPlan} /\ planFile \in Plans \cup {C!NoPlan}
    /\ expected \in 0 .. MaxStarts
    /\ routes \in Tables
    /\ verdict.as \in {"none", "accepted", "refused"}

LEMMA TunnelIs ==
    ASSUME NEW plan \in Plans
    PROVE  /\ plan.tuns = {} => C!Tunnel(plan) = C!NoLink
           /\ plan.tuns # {} => C!Tunnel(plan).up /\ C!Tunnel(plan).tunnel
           /\ \A tun \in plan.tuns : /\ C!Tunnel(plan).addresses = tun.addresses
                                     /\ tun.name # "" => C!Tunnel(plan).name = tun.name
<1>1. \A s, t \in plan.tuns : s = t
    BY PlansAreOpened
<1>2. ASSUME NEW tun \in plan.tuns
      PROVE  C!Tunnel(plan) = [up |-> TRUE, name |-> IF tun.name = "" THEN "utun" ELSE tun.name,
                               tunnel |-> TRUE, addresses |-> tun.addresses, native |-> FALSE]
    <2>1. (CHOOSE t \in plan.tuns : TRUE) = tun
        BY <1>1
    <2> QED BY <2>1 DEF C!Tunnel
<1>3. plan.tuns = {} => C!Tunnel(plan) = C!NoLink
    BY DEF C!Tunnel
<1>4. CASE plan.tuns = {}
    BY <1>3, <1>4
<1>5. CASE plan.tuns # {}
    <2>1. PICK tun \in plan.tuns : TRUE
        BY <1>5
    <2> DEFINE T_ == C!Tunnel(plan)
    <2>2. T_ = [up |-> TRUE, name |-> IF tun.name = "" THEN "utun" ELSE tun.name,
                tunnel |-> TRUE, addresses |-> tun.addresses, native |-> FALSE]
        BY <1>2
    <2> HIDE DEF T_
    <2>3. /\ T_.up = TRUE /\ T_.tunnel = TRUE /\ T_.addresses = tun.addresses
          /\ tun.name # "" => T_.name = tun.name
        BY <2>2
    <2>4. \A t \in plan.tuns : t = tun
        BY <1>1
    <2> QED BY <1>5, <2>3, <2>4 DEF T_
<1> QED BY <1>4, <1>5

LEMMA TunnelInit == C!Init => TunnelInv
<1> SUFFICES ASSUME C!Init PROVE TunnelInv
    OBVIOUS
<1>1. links = [i \in 1 .. 3 |-> IF i = 3 THEN Physical ELSE C!NoLink]
    BY DEF C!Init, C!Indices
<1>2. /\ links[1] = C!NoLink /\ links[2] = C!NoLink /\ links[3] = Physical
      /\ links \in [1 .. 3 -> {links[1], links[2], links[3]}]
    <2>1. \A i \in 1 .. 3 : i = 1 \/ i = 2 \/ i = 3
        OBVIOUS
    <2>2. links[1] = C!NoLink /\ links[2] = C!NoLink /\ links[3] = Physical
        BY <1>1
    <2>3. \A i \in 1 .. 3 : links[i] \in {links[1], links[2], links[3]}
        BY <2>1
    <2> QED BY <1>1, <2>2, <2>3
<1>3. ~C!Running
    BY DEF C!Init, C!Running
<1> QED BY <1>2, <1>3, BoundsAreNumbers DEF C!Init, TunnelInv, C!Unasked

\* A link that changes leaves the others.
LEMMA LinksChange ==
    ASSUME links \in [1 .. 3 -> {links[1], links[2], links[3]}], NEW i \in 1 .. 3, NEW link,
           links' = [links EXCEPT ![i] = link]
    PROVE  /\ links' \in [1 .. 3 -> {links'[1], links'[2], links'[3]}]
           /\ links'[i] = link /\ \A j \in 1 .. 3 \ {i} : links'[j] = links[j]
<1>1. \A j \in 1 .. 3 : j = 1 \/ j = 2 \/ j = 3
    OBVIOUS
<1>2. links' = [j \in 1 .. 3 |-> IF j = i THEN link ELSE links[j]]
    OBVIOUS
<1>3. \A j \in 1 .. 3 : links'[j] \in {links'[1], links'[2], links'[3]}
    BY <1>1
<1> QED BY <1>2, <1>3

LEMMA ReroutedIs ==
    ASSUME routes \in Tables, NEW i, C!Rerouted(i)
    PROVE  routes' \in Tables
BY DEF C!Rerouted

LEMMA TunnelStep == TunnelInv /\ [C!Next]_(C!vars) => TunnelInv'
<1> SUFFICES ASSUME TunnelInv, [C!Next]_(C!vars) PROVE TunnelInv'
    OBVIOUS
<1>1. links \in [1 .. 3 -> {links[1], links[2], links[3]}] /\ 1 \in 1 .. 3 /\ 2 \in 1 .. 3 /\ 3 \in 1 .. 3
    BY DEF TunnelInv
<1>2. kernel \in [start : 0 .. MaxStarts, plan : Plans \cup {C!NoPlan}] /\ MaxStarts \in Nat
    BY BoundsAreNumbers DEF TunnelInv
<1>3. ASSUME NEW plan \in Plans, NEW answers \in BOOLEAN, C!Start(plan, answers) PROVE TunnelInv'
    <2>1. verdict'.as \in {"accepted", "refused"} /\ kernel.start < MaxStarts
        BY <1>3 DEF C!Start
    <2>2. CASE UNCHANGED <<links, routes, kernel, lost, expected, applied, planFile>>
        BY <2>1, <2>2 DEF TunnelInv, C!Running
    <2>3. CASE /\ planFile' = plan /\ lost' = FALSE
               /\ kernel' = [start |-> kernel.start + 1, plan |-> plan]
               /\ expected' \in {0, kernel.start + 1}
               /\ applied' = plan
               /\ links' = [links EXCEPT ![1] = C!Tunnel(plan)]
               /\ UNCHANGED routes
        <3>1. /\ links' \in [1 .. 3 -> {links'[1], links'[2], links'[3]}]
              /\ links'[1] = C!Tunnel(plan) /\ links'[2] = links[2] /\ links'[3] = links[3]
            BY <2>3, <1>1, LinksChange
        <3>2. kernel.start + 1 \in 0 .. MaxStarts /\ 0 \in 0 .. MaxStarts
            BY <2>1, <1>2
        <3>3. kernel'.plan = plan /\ kernel' \in [start : 0 .. MaxStarts, plan : Plans \cup {C!NoPlan}]
            BY <2>3, <3>2
        <3>4. expected' \in 0 .. MaxStarts
            BY <2>3, <3>2
        <3>5. C!Running'
            BY <3>3, PlansAreOpened DEF C!Running, C!NoPlan
        <3> QED BY <2>1, <2>3, <3>1, <3>3, <3>4, <3>5 DEF TunnelInv
    <2>4. CASE /\ planFile' = plan /\ lost' = FALSE
               /\ kernel' = C!Ended /\ expected' = 0
               /\ links' = [links EXCEPT ![1] = C!NoLink]
               /\ C!Rerouted(1)
               /\ UNCHANGED applied
        <3>1. /\ links' \in [1 .. 3 -> {links'[1], links'[2], links'[3]}]
              /\ links'[1] = C!NoLink /\ links'[2] = links[2] /\ links'[3] = links[3]
            BY <2>4, <1>1, LinksChange
        <3>2. kernel'.plan = C!NoPlan /\ kernel' \in [start : 0 .. MaxStarts, plan : Plans \cup {C!NoPlan}]
            BY <2>4, <1>2 DEF C!Ended
        <3>3. ~C!Running'
            BY <3>2 DEF C!Running
        <3>4. 0 \in 0 .. MaxStarts
            BY <1>2
        <3>5. routes' \in Tables
            BY <2>4, ReroutedIs DEF TunnelInv
        <3> QED BY <2>1, <2>4, <3>1, <3>2, <3>3, <3>4, <3>5 DEF TunnelInv
    <2> QED BY <1>3, <2>2, <2>3, <2>4 DEF C!Start
<1>4. CASE C!KernelDies
    <2>1. /\ kernel' = C!Ended /\ links' = [links EXCEPT ![1] = C!NoLink] /\ C!Rerouted(1)
          /\ verdict' = C!Unasked /\ UNCHANGED <<expected, applied, planFile>>
        BY <1>4 DEF C!KernelDies
    <2>2. /\ links' \in [1 .. 3 -> {links'[1], links'[2], links'[3]}]
          /\ links'[1] = C!NoLink /\ links'[2] = links[2] /\ links'[3] = links[3]
        BY <2>1, <1>1, LinksChange
    <2>3. kernel'.plan = C!NoPlan /\ kernel' \in [start : 0 .. MaxStarts, plan : Plans \cup {C!NoPlan}]
        BY <2>1, <1>2 DEF C!Ended
    <2>4. ~C!Running'
        BY <2>3 DEF C!Running
    <2>5. routes' \in Tables
        BY <2>1, ReroutedIs DEF TunnelInv
    <2> QED BY <2>1, <2>2, <2>3, <2>4, <2>5 DEF TunnelInv, C!Unasked
<1>5. CASE C!TunnelLost
    <2>1. /\ lost' = TRUE /\ links' = [links EXCEPT ![1] = C!NoLink] /\ C!Rerouted(1)
          /\ verdict' = C!Unasked /\ UNCHANGED <<kernel, expected, applied, planFile>>
        BY <1>5 DEF C!TunnelLost
    <2>2. /\ links' \in [1 .. 3 -> {links'[1], links'[2], links'[3]}]
          /\ links'[1] = C!NoLink /\ links'[2] = links[2] /\ links'[3] = links[3]
        BY <2>1, <1>1, LinksChange
    <2>3. routes' \in Tables
        BY <2>1, ReroutedIs DEF TunnelInv
    <2> QED BY <2>1, <2>2, <2>3 DEF TunnelInv, C!Unasked, C!Running
<1>6. CASE C!AppRestarts
    <2>1. 0 \in 0 .. MaxStarts
        BY <1>2
    <2> QED BY <1>6, <2>1 DEF C!AppRestarts, TunnelInv, C!Unasked, C!Running
<1>7. ASSUME NEW link \in Others, C!OtherOpens(link) PROVE TunnelInv'
    <2>1. /\ links' = [links EXCEPT ![2] = link] /\ verdict' = C!Unasked
          /\ UNCHANGED <<routes, kernel, lost, expected, applied, planFile>>
        BY <1>7 DEF C!OtherOpens
    <2>2. /\ links' \in [1 .. 3 -> {links'[1], links'[2], links'[3]}]
          /\ links'[2] = link /\ links'[1] = links[1] /\ links'[3] = links[3]
        BY <2>1, <1>1, LinksChange
    <2> QED BY <2>1, <2>2 DEF TunnelInv, C!Unasked, C!Running
<1>8. CASE C!OtherCloses
    <2>1. /\ links' = [links EXCEPT ![2] = C!NoLink] /\ C!Rerouted(2) /\ verdict' = C!Unasked
          /\ UNCHANGED <<kernel, lost, expected, applied, planFile>>
        BY <1>8 DEF C!OtherCloses
    <2>2. /\ links' \in [1 .. 3 -> {links'[1], links'[2], links'[3]}]
          /\ links'[2] = C!NoLink /\ links'[1] = links[1] /\ links'[3] = links[3]
        BY <2>1, <1>1, LinksChange
    <2>3. routes' \in Tables
        BY <2>1, ReroutedIs DEF TunnelInv
    <2> QED BY <2>1, <2>2, <2>3 DEF TunnelInv, C!Unasked, C!Running
<1>9. CASE C!Reroute
    BY <1>9 DEF C!Reroute, TunnelInv, C!Unasked, C!Running
<1>10. CASE UNCHANGED C!vars
    BY <1>10 DEF C!vars, TunnelInv, C!Running
<1> QED BY <1>3, <1>4, <1>5, <1>6, <1>7, <1>8, <1>9, <1>10 DEF C!Next

LEMMA TunnelsMove == [Next]_vars => [C!Next]_(C!vars)
BY DEF Next, vars, tunnels, C!vars

LEMMA TunnelsHold == Spec => []TunnelInv
<1>1. Init => TunnelInv
    BY TunnelInit DEF Init
<1>2. TunnelInv /\ [Next]_vars => TunnelInv'
    BY TunnelsMove, TunnelStep
<1> QED BY <1>1, <1>2, PTL DEF Spec

\* A link captures the network just when it has what has no route of its own (Inspect).
THEOREM CapturesAreMeant == Spec => [](C!TypeOK /\ C!CaptureIsMeant)
<1> SUFFICES ASSUME TunnelInv PROVE C!TypeOK /\ C!CaptureIsMeant
    BY TunnelsHold, PTL
<1>1. C!CaptureIsMeant
    BY CapturesMeant DEF TunnelInv
<1>2. links[1] = C!NoLink \/ links[1].tunnel
    <2> SUFFICES ASSUME links[1] # C!NoLink PROVE links[1].tunnel
        OBVIOUS
    <2>1. kernel.plan \in Plans /\ links[1] = C!Tunnel(kernel.plan)
        BY DEF TunnelInv, C!Running
    <2> QED BY <2>1, TunnelIs
<1>3. kernel.start \in 0 .. MaxStarts /\ kernel.plan \in Plans \cup {C!NoPlan}
    BY DEF TunnelInv
<1> QED BY <1>1, <1>2, <1>3 DEF C!TypeOK, TunnelInv

\* ---- the check before a start ----

\* The tunnels that may be a plan's.
Matches(tun) ==
    {i \in 1 .. 3 : /\ links[i].up /\ links[i].tunnel
                    /\ tun.name \in {"", links[i].name}
                    /\ tun.addresses # {}
                    /\ \A a \in tun.addresses : \E b \in links[i].addresses : a[1] = b[1]}

LEMMA OwnedIs ==
    ASSUME NEW tuns
    PROVE  \A i : i \in C!OwnedInterfaces(tuns) <=>
               \E tun \in tuns : i \in Matches(tun) /\ Matches(tun) = {i}
<1>1. \A i : i \in C!OwnedInterfaces(tuns) <=>
               \E tun \in tuns : i \in Matches(tun) /\ C!Cardinality(Matches(tun)) = 1
    <2>1. C!OwnedInterfaces(tuns) =
              UNION {Matches(tun) : tun \in {t \in tuns : C!Cardinality(Matches(t)) = 1}}
        BY Zenon DEF C!OwnedInterfaces, C!Indices, Matches
    <2> QED BY <2>1
<1>2. \A S : C!Cardinality(S) = Cardinality(S)
    BY DEF C!Cardinality, Cardinality
<1>3. ASSUME NEW tun PROVE \A i \in Matches(tun) : C!Cardinality(Matches(tun)) = 1 <=> Matches(tun) = {i}
    <2>1. Matches(tun) \in SUBSET (1 .. 3)
        BY DEF Matches
    <2>2. IsFiniteSet(Matches(tun))
        <3>1. IsFiniteSet(1 .. 3)
            <4>1. 1 \in Int /\ 3 \in Int
                OBVIOUS
            <4> QED BY <4>1, FS_Interval
        <3> QED BY <2>1, <3>1, FS_Subset
    <2>3. Cardinality(Matches(tun)) = 1 <=> \E x : Matches(tun) = {x}
        BY <2>2, FS_Singleton
    <2> QED BY <2>3, <1>2
<1> QED BY <1>1, <1>3

\* What matches is the kernel's own or makes it double; and the kernel's own matches.
LEMMA MatchesAre ==
    ASSUME TunnelInv, C!Running, C!Known = kernel.plan, NEW tun \in kernel.plan.tuns
    PROVE  /\ Matches(tun) \subseteq {1, 2}
           /\ 2 \in Matches(tun) => C!Double
           /\ links[1] = C!Tunnel(kernel.plan) => 1 \in Matches(tun)
<1>1. kernel.plan \in Plans /\ C!Known # C!NoPlan
    BY DEF TunnelInv, C!Running
<1>2. 3 \notin Matches(tun)
    BY LinksAreGiven DEF Matches, TunnelInv
<1>3. 2 \in Matches(tun) => C!Double
    BY <1>1 DEF Matches, C!Double
<1>4. ASSUME links[1] = C!Tunnel(kernel.plan) PROVE 1 \in Matches(tun)
    <2> DEFINE T_ == C!Tunnel(kernel.plan)
    <2>a. /\ kernel.plan.tuns # {} => T_.up /\ T_.tunnel
          /\ \A t \in kernel.plan.tuns : T_.addresses = t.addresses
          /\ \A t \in kernel.plan.tuns : t.name # "" => T_.name = t.name
        BY <1>1, TunnelIs
    <2>b. links[1] = T_
        BY <1>4
    <2> HIDE DEF T_
    <2>c. T_.up /\ T_.tunnel /\ T_.addresses = tun.addresses /\ (tun.name # "" => T_.name = tun.name)
        <3>1. tun \in kernel.plan.tuns
            OBVIOUS
        <3>2. kernel.plan.tuns # {}
            BY <3>1
        <3>3. T_.up /\ T_.tunnel
            BY <2>a, <3>2
        <3>6. T_.addresses = tun.addresses
            BY <2>a, <3>1
        <3>7. tun.name # "" => T_.name = tun.name
            BY <2>a, <3>1
        <3> QED BY <3>3, <3>6, <3>7
    <2>1. /\ links[1].up /\ links[1].tunnel /\ links[1].addresses = tun.addresses
          /\ tun.name \in {"", links[1].name}
        BY <2>b, <2>c
    <2>2. tun.addresses # {} /\ 1 \in 1 .. 3
        BY <1>1, PlansAreOpened
    <2> QED BY <2>1, <2>2 DEF Matches
<1>5. \A i \in Matches(tun) : i = 1 \/ i = 2 \/ i = 3
    <2>1. \A i \in Matches(tun) : i \in 1 .. 3
        BY DEF Matches
    <2>2. \A i \in 1 .. 3 : i = 1 \/ i = 2 \/ i = 3
        OBVIOUS
    <2> QED BY <2>1, <2>2
<1> QED BY <1>2, <1>3, <1>4, <1>5

\* Who owns something knows the plan of the kernel that runs.
LEMMA KnownIs ==
    ASSUME TunnelInv, C!Running
    PROVE  C!Known = kernel.plan
BY DEF TunnelInv, C!Running, C!Known

\* For what others have, the check is exact.
LEMMA InTheWayIs ==
    ASSUME TunnelInv, NEW i \in {2, 3}, NEW plan \in Plans
    PROVE  C!InTheWay(i, plan) <=> C!Obstacle(i, plan)
<1>1. ASSUME links[i].up, NEW tun \in plan.tuns, NEW a \in tun.addresses, NEW b \in links[i].addresses
      PROVE  C!Overlaps(a, b) <=> C!Share(a, b)
    <2>1. a \in Addresses
        BY PlansAreOpened
    <2>2. b \in Addresses
        <3>1. links[i] \in Others \cup {Physical} \/ links[i] = C!NoLink
            BY DEF TunnelInv
        <3>2. links[i] # C!NoLink
            <4>1. ~C!NoLink.up
                BY DEF C!NoLink
            <4> QED BY Zenon, <4>1, <1>1
        <3> QED BY <3>1, <3>2, LinksAreGiven
    <2> QED BY <2>1, <2>2, OverlapIsShare
<1> QED BY <1>1 DEF C!InTheWay, C!Obstacle

\* No start goes over another's tunnel, and the kernel's own stops none, whatever the
\* application knows of the kernel that runs (OwnedInterfaces, Check, checkNetworkConflicts).
THEOREM TunnelsAreFound == Spec => C!OthersAreFound
<1> DEFINE Found ==
               /\ verdict'.as = "accepted" /\ ~(lost /\ C!Double) =>
                      \A i \in {2, 3} : ~C!Obstacle(i, verdict'.plan)
               /\ verdict'.as = "refused" /\ verdict'.answers /\ C!Running /\ expected \in {0, kernel.start}
                  /\ C!Known = kernel.plan /\ ~C!Double =>
                      \E i \in {2, 3} : C!Obstacle(i, verdict'.plan)
<1>1. TunnelInv /\ [Next]_vars => [Found]_(C!vars)
    <2> SUFFICES ASSUME TunnelInv, C!Next PROVE Found
        BY TunnelsMove
    <2>1. ASSUME NEW plan \in Plans, NEW answers \in BOOLEAN, C!Start(plan, answers) PROVE Found
        <3>1. /\ verdict'.as = IF C!Accepts(plan, answers) THEN "accepted" ELSE "refused"
              /\ verdict'.plan = plan /\ verdict'.answers = answers
            BY <2>1 DEF C!Start
        <3>2. ASSUME C!Accepts(plan, answers), ~(lost /\ C!Double), NEW i \in {2, 3}
              PROVE  ~C!Obstacle(i, plan)
            <4>1. i \notin C!Owned(answers)
                <5> SUFFICES ASSUME i \in C!Owned(answers) PROVE FALSE
                    OBVIOUS
                <5>1. C!Running /\ i \in C!OwnedInterfaces(C!Known.tuns)
                    BY DEF C!Owned, C!Authenticated
                <5>2. C!Known = kernel.plan
                    BY <5>1, KnownIs
                <5>3. PICK tun \in kernel.plan.tuns : i \in Matches(tun) /\ Matches(tun) = {i}
                    BY <5>1, <5>2, OwnedIs
                <5>4. i = 2 /\ C!Double
                    BY <5>1, <5>2, <5>3, MatchesAre
                <5>5. links[1] = C!Tunnel(kernel.plan)
                    BY <5>1, <5>4, <3>2 DEF TunnelInv
                <5> QED BY <5>1, <5>2, <5>3, <5>4, <5>5, MatchesAre
            <4>2. ~C!InTheWay(i, plan)
                BY <4>1, <3>2 DEF C!Accepts, C!Indices
            <4> QED BY <4>2, InTheWayIs
        <3>3. ASSUME ~C!Accepts(plan, answers), answers, C!Running, expected \in {0, kernel.start},
                     C!Known = kernel.plan, ~C!Double
              PROVE  \E i \in {2, 3} : C!Obstacle(i, plan)
            <4>1. PICK i \in 1 .. 3 : i \notin C!Owned(answers) /\ C!InTheWay(i, plan)
                BY <3>3 DEF C!Accepts, C!Indices
            <4>2. CASE i \in {2, 3}
                BY <4>1, <4>2, InTheWayIs
            <4>3. CASE i = 1
                <5>1. links[1].up
                    BY <4>1, <4>3 DEF C!InTheWay
                <5>2. links[1] = C!Tunnel(kernel.plan) /\ kernel.plan \in Plans
                    <6>1. links[1] # C!NoLink
                        <7>1. ~C!NoLink.up
                            BY DEF C!NoLink
                        <7> QED BY Zenon, <7>1, <5>1
                    <6> QED BY <6>1 DEF TunnelInv, C!Running
                <5>3. kernel.plan.tuns # {}
                    <6>1. C!NoLink.up = FALSE
                        BY DEF C!NoLink
                    <6> QED BY <6>1, <5>1, <5>2, TunnelIs
                <5>4. links[1].tunnel
                    BY <5>2, <5>3, TunnelIs
                <5>5. C!Authenticated(answers)
                    BY <3>3, <5>1, <5>4 DEF C!Authenticated, C!Indices
                <5>6. PICK tun \in kernel.plan.tuns : TRUE
                    BY <5>3
                <5>7. Matches(tun) = {1}
                    BY <3>3, <5>2, MatchesAre
                <5>8. C!Known # C!NoPlan
                    BY <3>3 DEF C!Running
                <5>9. 1 \in C!Owned(answers)
                    BY <5>5, <5>7, <5>8, <3>3, OwnedIs DEF C!Owned
                <5> QED BY <5>9, <4>1, <4>3
            <4> QED BY <4>2, <4>3
        <3> QED BY <3>1, <3>2, <3>3
    <2>2. ASSUME verdict' = C!Unasked PROVE Found
        BY <2>2 DEF C!Unasked
    <2> QED
        BY <2>1, <2>2 DEF C!Next, C!KernelDies, C!TunnelLost, C!AppRestarts, C!OtherOpens,
                          C!OtherCloses, C!Reroute
<1> QED BY <1>1, TunnelsHold, PTL DEF Spec, C!OthersAreFound

----------------------------------------------------------------------------
(* The properties the run checks *)

\* One owner of the application, however launches, take-overs, crashes and the two kinds of
\* lock interleave; what a launch reports was executed, once unless an owner died over it,
\* and is kept; and nothing is shown after the end (acquireOrActivate, servePendingCommands,
\* tryForwardCommand, RequestExit).
THEOREM OneOfAll == Spec => []OneApplication
<1>1. LaunchInv => I!TypeOK /\ I!OneOwner /\ I!ReportedRan /\ I!RunsOnce /\ I!ReportedIsSaved
    <2> SUFFICES ASSUME LaunchInv
                 PROVE  I!TypeOK /\ I!OneOwner /\ I!ReportedRan /\ I!RunsOnce /\ I!ReportedIsSaved
        OBVIOUS
    <2> USE DEF LaunchInv
    <2>1. I!OneOwner
        BY DEF I!OneOwner, LockInv, FileInv, Holding
    <2>2. I!ReportedRan /\ I!RunsOnce
        BY DEF I!ReportedRan, I!RunsOnce, ReportInv, RunInv, Informed
    <2>3. I!ReportedIsSaved
        BY DEF I!ReportedIsSaved, SavedInv, Informed
    <2> QED BY <2>1, <2>2, <2>3
<1>2. DeskInv => D!TypeOK /\ D!NothingAfterExit
    BY DEF DeskInv
<1> QED BY <1>1, <1>2, LaunchHolds, DeskHolds, PTL DEF OneApplication

\* A take-over ends only a process that announced its end, although what it read of it is
\* older than the decision; a window or a menu comes back with the next tick, but to a hidden
\* window nobody calls while there is no icon; a failed installation gives the window back;
\* and a menu never turns into one of another tree (terminateOldProcess, the task of
\* DesktopApplicationEffects, InstallUpdate, RefreshBasicTray).
THEOREM EntriesComeBack == Spec => WindowComesBack
<1> DEFINE Brings == start = "done" /\ ~installing /\ ui.window # "shown" /\ ui.menu = "none" =>
                         \A activated \in BOOLEAN :
                             D!Tick(activated, TRUE, TRUE) =>
                                 \/ ui'.window = "shown" \/ ui'.menu # "none"
                                 \/ ui.window = "hidden" /\ ~activated /\ ~(trayOn /\ host)
           Swaps == ui.menu # "none" /\ ui'.menu # "none" => ui'.menu = ui.menu
<1>1. LaunchInv /\ [Next]_vars => [EvictsClosing]_(I!vars)
    BY LaunchMoves, EvictStep
<1>2. DeskInv /\ [Next]_vars => [Brings]_(D!vars)
    BY TickIs
<1>3. DeskInv /\ [Next]_vars => [Swaps]_(D!vars)
    BY DeskMoves, OthersKeepDesk DEF DeskStep
<1>4. LaunchInv /\ [Next]_vars => [\A p \in Processes :
           phase[p] = "evict" /\ phase'[p] = "retry" =>
               \A q \in Processes \ {p} : phase'[q] = phase[q] \/ phase[q] \in {"closing", "flushed"}]_(I!vars)
    BY <1>1 DEF EvictsClosing
<1>5. DeskInv /\ [Next]_vars =>
          [installing => IF ~installing' THEN ui'.window = "shown" ELSE ui'.window = "hidden"]_(D!vars)
    BY DeskMoves, OthersKeepDesk DEF DeskStep, Gives
<1> QED
    BY <1>2, <1>3, <1>4, <1>5, LaunchHolds, DeskHolds, PTL
    DEF Spec, WindowComesBack, I!EvictsOnlyClosing, D!TickBringsBack, D!FailureGivesBack,
        D!TreesDoNotSwap

\* What comes from outside is checked before it counts: the rows a scan keeps are the codes it
\* saw, and it fails by noise alone; a download replaces its destination only whole, says what
\* became of it, and shares no connection between secrets; callers share one load and are
\* cancelled by nobody else; and a link counts as taking everybody's traffic exactly when it
\* does, and a start is accepted only when no other program's tunnel is in its way
\* (QrsDecoder::add, downloadOnce, ProviderResources, checkNetworkConflicts).
THEOREM OutsideHolds == Spec => OutsideIsChecked
<1>1. Spec => [](Q!TypeOK /\ Q!RowsSpanCodes /\ Q!CodesSuffice)
    BY RowsAreCodes
<1>2. Spec => Q!OnlyNoiseFails
    BY ScansFailByNoise
<1>3. Spec => [](L!TypeOK /\ L!SecretsStayApart /\ L!DestinationIsWhole)
    BY DownloadsAreWhole
<1>4. Spec => L!TellsTheTruth
    BY DownloadsTellTheTruth
<1>5. Spec => [](F!TypeOK /\ F!OneLoad) /\ []F!WaitsForSomebody /\ []F!NoEmptyAnswer
    BY LoadsAreShared, SomebodyLoads, AnswersWereLoaded
<1>6. Spec => F!CancelIsOwn
    BY CancelledItself
<1>7. Spec => [](C!TypeOK /\ C!CaptureIsMeant)
    BY CapturesAreMeant
<1>8. Spec => C!OthersAreFound
    BY TunnelsAreFound
<1> QED BY <1>1, <1>2, <1>3, <1>4, <1>5, <1>6, <1>7, <1>8, PTL DEF OutsideIsChecked
==============================================================================
