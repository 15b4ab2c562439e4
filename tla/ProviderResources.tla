-------------------------- MODULE ProviderResources --------------------------
(***************************************************************************)
(* Requests for rule and node providers (provider_resources.cppm): callers *)
(* that ask for the same resource share one load, whose owner is the first *)
(* of them; few loads run at once and few requests are in flight.  A       *)
(* caller may be cancelled at any time: one that waits leaves, and one     *)
(* that loads finishes first, since others may wait for what it loads.     *)
(***************************************************************************)
EXTENDS Integers, FiniteSets

CONSTANTS
    None,
    Callers,        \* calls of fetch(), each made once
    Resources,
    Concurrency,    \* loads at once
    Capacity        \* requests in flight

VARIABLES
    step,           \* where a call is in fetch()
    want,           \* the resource it asks for
    stop,           \* it was cancelled
    flight,         \* the flight it holds, known by the caller that owns it
    flights,        \* by resource: the flight others may join
    state,          \* of a flight: "open", "loaded", "failed" or "abandoned"
    active,         \* loads that count
    result          \* what a call brought

vars == <<step, want, stop, flight, flights, state, active, result>>

TypeOK ==
    /\ step \in [Callers -> {"new", "entering", "joined", "queued", "loading", "out"}]
    /\ want \in [Callers -> Resources \cup {None}]
    /\ stop \in [Callers -> BOOLEAN]
    /\ flight \in [Callers -> Callers \cup {None}]
    /\ flights \in [Resources -> Callers \cup {None}]
    /\ state \in [Callers -> {"none", "open", "loaded", "failed", "abandoned"}]
    /\ active \in Int
    /\ result \in [Callers -> {"none", "cancelled", "full", "loaded", "failed", "empty"}]

Init ==
    /\ step = [c \in Callers |-> "new"]
    /\ want = [c \in Callers |-> None]
    /\ stop = [c \in Callers |-> FALSE]
    /\ flight = [c \in Callers |-> None]
    /\ flights = [r \in Resources |-> None]
    /\ state = [c \in Callers |-> "none"]
    /\ active = 0
    /\ result = [c \in Callers |-> "none"]

InFlight == {r \in Resources : flights[r] # None}

Leave(c, with) ==
    /\ step' = [step EXCEPT ![c] = "out"]
    /\ result' = [result EXCEPT ![c] = with]
    /\ flight' = [flight EXCEPT ![c] = None]
    /\ UNCHANGED <<want, stop>>

Done(f) == state[f] \in {"loaded", "failed", "abandoned"}

\* What a caller finds in the flight it waited for.
Brought(f) == IF state[f] \in {"loaded", "failed"} THEN state[f] ELSE "empty"

-----------------------------------------------------------------------------
\* fetch(): a call begins.
Call(c, r) ==
    /\ step[c] = "new"
    /\ step' = [step EXCEPT ![c] = "entering"]
    /\ want' = [want EXCEPT ![c] = r]
    /\ UNCHANGED <<stop, flight, flights, state, active, result>>

Cancel(c) ==
    /\ step[c] \notin {"new", "out"} /\ ~stop[c]
    /\ stop' = [stop EXCEPT ![c] = TRUE]
    /\ UNCHANGED <<step, want, flight, flights, state, active, result>>

\* Under the lock: it joins the request in flight, finds the queue full, or owns a new one.
Enter(c) ==
    LET r == want[c] IN
    /\ step[c] = "entering"
    /\ \/ /\ stop[c]
          /\ Leave(c, "cancelled")
          /\ UNCHANGED <<flights, state, active>>
       \/ /\ ~stop[c] /\ flights[r] # None
          /\ step' = [step EXCEPT ![c] = "joined"]
          /\ flight' = [flight EXCEPT ![c] = flights[r]]
          /\ UNCHANGED <<want, stop, flights, state, active, result>>
       \/ /\ ~stop[c] /\ flights[r] = None /\ Cardinality(InFlight) >= Capacity
          /\ Leave(c, "full")
          /\ UNCHANGED <<flights, state, active>>
       \/ /\ ~stop[c] /\ flights[r] = None /\ Cardinality(InFlight) < Capacity
          /\ flights' = [flights EXCEPT ![r] = c]
          /\ state' = [state EXCEPT ![c] = "open"]
          /\ flight' = [flight EXCEPT ![c] = c]
          /\ IF active < Concurrency
             THEN step' = [step EXCEPT ![c] = "loading"] /\ active' = active + 1
             ELSE step' = [step EXCEPT ![c] = "queued"] /\ UNCHANGED active
          /\ UNCHANGED <<want, stop, result>>

\* The wait of one that joined ends: cancelled, with what the owner loaded, or, when the
\* owner gave up before it loaded anything, at the beginning again.
Joined(c) ==
    LET f == flight[c] IN
    /\ step[c] = "joined"
    /\ \/ /\ stop[c]
          /\ Leave(c, "cancelled")
       \/ /\ ~stop[c] /\ state[f] = "abandoned"
          /\ step' = [step EXCEPT ![c] = "entering"]
          /\ flight' = [flight EXCEPT ![c] = None]
          /\ UNCHANGED <<want, stop, result>>
       \/ /\ ~stop[c] /\ Done(f) /\ state[f] # "abandoned"
          /\ Leave(c, Brought(f))
    /\ UNCHANGED <<flights, state, active>>

\* The wait of an owner for one of the loads to end.
Queued(c) ==
    /\ step[c] = "queued"
    /\ \/ /\ stop[c]
          /\ state' = [state EXCEPT ![flight[c]] = "abandoned"]
          /\ flights' = [flights EXCEPT ![want[c]] = None]
          /\ Leave(c, "cancelled")
          /\ UNCHANGED active
       \/ /\ ~stop[c] /\ active < Concurrency
          /\ step' = [step EXCEPT ![c] = "loading"]
          /\ active' = active + 1
          /\ UNCHANGED <<want, stop, flight, flights, state, result>>

\* load() returns or throws: those who joined have it even when the owner was cancelled, and
\* the next call loads anew.
Finish(c, as) ==
    /\ step[c] = "loading"
    /\ active' = active - 1
    /\ state' = [state EXCEPT ![flight[c]] = as]
    /\ flights' = [flights EXCEPT ![want[c]] = None]
    /\ Leave(c, IF stop[c] THEN "cancelled" ELSE as)

Inside(c) == Enter(c) \/ Joined(c) \/ Queued(c) \/ \E as \in {"loaded", "failed"} : Finish(c, as)

Next ==
    \E c \in Callers :
        \/ \E r \in Resources : Call(c, r)
        \/ Cancel(c)
        \/ Inside(c)

Spec == Init /\ [][Next]_vars

-----------------------------------------------------------------------------
Loading == {c \in Callers : step[c] = "loading"}

\* A resource is loaded by one caller at a time, no more loads run than may, those that
\* count are those that run, and no more requests are in flight than may.
OneLoad ==
    /\ \A c, d \in Loading : want[c] = want[d] => c = d
    /\ active = Cardinality(Loading) /\ active <= Concurrency
    /\ Cardinality(InFlight) <= Capacity

\* Nobody joins a flight that is over, so that a call made after an answer loads anew, and
\* one who waits for a flight waits for somebody: whoever owns it queues or loads.
WaitsForSomebody ==
    /\ \A r \in InFlight : state[flights[r]] = "open"
    /\ \A c \in Callers :
           step[c] = "joined" /\ state[flight[c]] = "open" =>
               \E o \in Callers : /\ flight[o] = flight[c] /\ want[o] = want[c]
                                  /\ step[o] \in {"queued", "loading"}

\* No caller is given the answer of a load that never ran.
NoEmptyAnswer == \A c \in Callers : result[c] # "empty"

\* A caller is told that it was cancelled when it was, not when the one it joined was.
CancelIsOwn ==
    [][\A c \in Callers : result'[c] = "cancelled" /\ result[c] # "cancelled" => stop[c]]_vars
==============================================================================
