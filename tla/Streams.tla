------------------------------- MODULE Streams -------------------------------
(***************************************************************************)
(* The WebSocket streams of the running kernel (stream.cpp) and the health *)
(* each channel reports (runtime_health.h): the owner starts and stops     *)
(* them, the socket threads call back at any time, a monitor thread probes *)
(* the controller without a lock and reopens a channel that went silent.   *)
(*                                                                         *)
(* One action is one critical section of "mutex". "lifecycle" is the lock  *)
(* the owner and the monitor hold across several of them. The constants of *)
(* time keep the order of the code's (5 s, 10 s, 30 s to 120 s, 300 s),    *)
(* not their size.                                                         *)
(***************************************************************************)
EXTENDS Integers, FiniteSets

CONSTANTS
    Channels,      \* the channels
    Periodic,      \* those whose kernel side sends a frame every second
    Threshold,     \* a frame older than this is stale
    Grace,         \* a channel just opened or resumed is not stale this long
    Step, Cap,     \* the delay after the first repair, the longest delay
    Window,        \* at most three repairs are reserved in this long
    MaxOps         \* bound on starts, stops and pauses

\* In the code 0 < Threshold <= Grace, 0 < Step <= Cap < Window.

VARIABLES
    active, epoch, pauses, observation,
    control,    \* the epoch the evidence shown is of, 0 when there is none
    chan,       \* each channel's health
    sock,       \* each channel's socket
    push,       \* a message between the callback's first section and its second
    slot,       \* the epoch of the kernel that sent the frame not yet taken, 0 for none
    owner,      \* what the owner thread is in
    monitor,    \* what the monitor thread is in
    lifecycle,  \* who holds the lifecycle lock
    slept,      \* how long ago the monitor last looked
    taken,      \* how many operations paused the monitor so far
    reserved,   \* how long ago repairs of this epoch were reserved, within Window
    since       \* valid frames since the channel's connection opened or resumed

vars == <<active, epoch, pauses, observation, control, chan, sock, push, slot, owner, monitor,
          lifecycle, slept, taken, reserved, since>>

None == [gen |-> 0, epoch |-> 0]

----------------------------------------------------------------------------
(* Health of a channel: pure decisions on its record. A time is kept as an *)
(* age, which stops growing once past what it is compared with, or as a    *)
(* delay still to run. "denied" stands for the failures a retry cannot     *)
(* mend (401, 403, 404): the others are only displayed.                    *)

Blank == [active |-> FALSE, connected |-> FALSE, periodic |-> TRUE, gen |-> 0,
          age |-> Threshold + 1, grace |-> 0, wait |-> 0, run |-> 0, repairs |-> 0,
          denied |-> FALSE, attempts |-> [i \in 0..2 |-> Window]]

\* Generations are only compared, and a socket is at most two behind: four
\* values tell them apart.
NextGen(h) == (h.gen + 1) % 4

Reset(h, periodic) ==
    [Blank EXCEPT !.active = TRUE, !.periodic = periodic, !.gen = NextGen(h), !.grace = Grace]

\* What else a stopped channel remembers is not read before Reset forgets it.
Stop(h) == [Blank EXCEPT !.gen = NextGen(h)]

Resume(h) == [h EXCEPT !.grace = Grace, !.run = 0]

Reopen(h) == Resume([h EXCEPT !.connected = FALSE, !.gen = NextGen(h)])

Accepts(h, gen) == h.active /\ gen = h.gen

\* The last failure replaces the one before: a transport error unblocks.
Erred(h, denied) == [h EXCEPT !.connected = FALSE, !.run = 0, !.denied = denied]

Silent(h) == h.age > Threshold

\* The run of valid frames is capped at two: only "two or more" is read.
Frame(h, valid) ==
    IF valid THEN [h EXCEPT !.run = IF Silent(h) \/ @ = 0 THEN 1 ELSE 2, !.age = 0]
    ELSE [h EXCEPT !.run = 0, !.denied = FALSE]

State(h) ==
    IF ~h.active THEN "paused"
    ELSE IF h.denied THEN "blocked"
    ELSE IF ~h.connected THEN "reconnecting"
    ELSE IF h.grace = 0 /\ h.periodic /\ Silent(h) THEN "stale"
    ELSE IF h.run >= 2 THEN "fresh"
    ELSE "waiting"

RepairDue(h) ==
    State(h) = "stale" /\ h.wait = 0 /\ Cardinality({i \in 0..2 : h.attempts[i] < Window}) < 3

Backoff(n) == LET delay == Step * (IF n = 1 THEN 1 ELSE IF n = 2 THEN 2 ELSE 4)
              IN  IF delay < Cap THEN delay ELSE Cap

\* The count of repairs matters by its remainder and whether it passed two.
ReserveRepair(h) ==
    [h EXCEPT !.attempts[h.repairs % 3] = 0, !.repairs = IF @ = 5 THEN 3 ELSE @ + 1,
              !.wait = Backoff(h.repairs + 1)]

Older(a, most) == IF a < most THEN a + 1 ELSE most
Nearer(d) == IF d > 0 THEN d - 1 ELSE 0

Aged(h) == [h EXCEPT !.age = Older(@, Threshold + 1), !.grace = Nearer(@), !.wait = Nearer(@),
                     !.attempts = [i \in 0..2 |-> Older(@[i], Window)]]

----------------------------------------------------------------------------
Free == "free"
Idle == [pc |-> "idle", epoch |-> 0, obs |-> 0, due |-> {}, ev |-> "none"]

Init ==
    /\ active = FALSE /\ epoch = 0 /\ pauses = 0 /\ observation = 0 /\ control = 0
    /\ chan = [c \in Channels |-> Blank]
    /\ sock = [c \in Channels |-> [state |-> "off", gen |-> 0, epoch |-> 0]]
    /\ push = [c \in Channels |-> None]
    /\ slot = [c \in Channels |-> 0]
    /\ owner = "idle" /\ monitor = Idle /\ lifecycle = Free /\ slept = 0 /\ taken = 0
    /\ reserved = [c \in Channels |-> {}] /\ since = [c \in Channels |-> 0]

\* Time passes.
Tick ==
    /\ chan' = [c \in Channels |-> Aged(chan[c])]
    /\ slept' = Older(slept, Threshold + 1)
    /\ reserved' = [c \in Channels |-> {t + 1 : t \in reserved[c]} \ {Window}]
    /\ UNCHANGED <<active, epoch, pauses, observation, control, sock, push, slot, owner, monitor,
                   lifecycle, taken, since>>

(* The owner: start, stop and the pause a lifecycle operation takes *)

\* CoreStreams::start and stop take "lifecycle", then invalidate what is running.
\* stop also stops every channel's health.
Begin(op) ==
    /\ owner = "idle" /\ lifecycle = Free /\ epoch + taken < MaxOps
    /\ op = "stop" => active
    /\ owner' = op /\ lifecycle' = "owner"
    /\ active' = FALSE /\ epoch' = epoch + 1
    /\ chan' = IF op = "stop" THEN [c \in Channels |-> Stop(chan[c])] ELSE chan
    /\ UNCHANGED <<pauses, observation, control, sock, push, slot, monitor, slept, taken, reserved,
                   since>>

Quiet(c) == push[c] = None   \* no callback of this socket is running

\* stopAll joins each socket's thread: it waits for a callback that is running.
StopAll(c) ==
    /\ owner \in {"start", "stop"} /\ sock[c].state # "off" /\ Quiet(c)
    /\ sock' = [sock EXCEPT ![c].state = "off"]
    /\ UNCHANGED <<active, epoch, pauses, observation, control, chan, push, slot, owner, monitor,
                   lifecycle, slept, taken, reserved, since>>

AllOff == \A c \in Channels : sock[c].state = "off"

\* The rest of start: the slots and the evidence are emptied, every channel's
\* health is reset, the callbacks are installed and the sockets started.
StartAll ==
    /\ owner = "start" /\ AllOff
    /\ active' = TRUE /\ control' = 0
    /\ chan' = [c \in Channels |-> Reset(chan[c], c \in Periodic)]
    /\ slot' = [c \in Channels |-> 0]
    /\ sock' = [c \in Channels |-> [state |-> "connecting", gen |-> chan'[c].gen, epoch |-> epoch]]
    /\ reserved' = [c \in Channels |-> {}] /\ since' = [c \in Channels |-> 0]
    /\ owner' = "idle" /\ lifecycle' = Free
    /\ UNCHANGED <<epoch, pauses, observation, push, monitor, slept, taken>>

StopDone ==
    /\ owner = "stop" /\ AllOff
    /\ owner' = "idle" /\ lifecycle' = Free
    /\ UNCHANGED <<active, epoch, pauses, observation, control, chan, sock, push, slot, monitor,
                   slept, taken, reserved, since>>

\* HealthPause: taken under "lifecycle", so never inside a repair ...
Pause ==
    /\ epoch + taken < MaxOps /\ lifecycle = Free
    /\ pauses' = pauses + 1 /\ observation' = observation + 1 /\ taken' = taken + 1
    /\ UNCHANGED <<active, epoch, control, chan, sock, push, slot, owner, monitor, lifecycle, slept,
                   reserved, since>>

Resumed == [c \in Channels |-> IF c \in Periodic THEN Resume(chan[c]) ELSE chan[c]]
Forgotten == [c \in Channels |-> IF c \in Periodic THEN 0 ELSE since[c]]

\* ... and given back without it: the last one gives every channel its grace.
Unpause ==
    /\ pauses > 0 /\ pauses' = pauses - 1
    /\ IF pauses = 1
       THEN observation' = observation + 1 /\ chan' = Resumed /\ since' = Forgotten
       ELSE UNCHANGED <<observation, chan, since>>
    /\ UNCHANGED <<active, epoch, control, sock, push, slot, owner, monitor, lifecycle, slept,
                   taken, reserved>>

(* The socket threads *)

\* Whether a callback installed with this generation and epoch still counts.
Current(c, e, gen) == active /\ epoch = e /\ Accepts(chan[c], gen)

\* The handshake succeeded.
Opened(c) ==
    /\ sock[c].state = "connecting"
    /\ sock' = [sock EXCEPT ![c].state = "open"]
    /\ IF Current(c, sock[c].epoch, sock[c].gen)
       THEN /\ chan' = [chan EXCEPT ![c] = Resume([@ EXCEPT !.connected = TRUE])]
            /\ since' = [since EXCEPT ![c] = 0]
       ELSE UNCHANGED <<chan, since>>
    /\ UNCHANGED <<active, epoch, pauses, observation, control, push, slot, owner, monitor,
                   lifecycle, slept, taken, reserved>>

\* The connection was closed, or an attempt was answered with an error: after a
\* final answer the socket does not reconnect by itself.
Lost(c, denied) ==
    /\ sock[c].state \in IF denied THEN {"connecting"} ELSE {"connecting", "open"}
    /\ Quiet(c)
    /\ IF Current(c, sock[c].epoch, sock[c].gen)
       THEN /\ chan' = [chan EXCEPT ![c] = Erred(@, denied)]
            /\ sock' = [sock EXCEPT ![c].state = IF denied THEN "down" ELSE "connecting"]
       ELSE sock' = [sock EXCEPT ![c].state = "connecting"] /\ UNCHANGED chan
    /\ UNCHANGED <<active, epoch, pauses, observation, control, push, slot, owner, monitor,
                   lifecycle, slept, taken, reserved, since>>

\* A message arrives: the first section of the callback lets it through ...
Message(c) ==
    /\ c \in Periodic /\ sock[c].state = "open" /\ Quiet(c)
    /\ Current(c, sock[c].epoch, sock[c].gen)
    /\ push' = [push EXCEPT ![c] = [gen |-> sock[c].gen, epoch |-> sock[c].epoch]]
    /\ UNCHANGED <<active, epoch, pauses, observation, control, chan, sock, slot, owner, monitor,
                   lifecycle, slept, taken, reserved, since>>

\* ... and, after decoding, pushTraffic or pushConnections checks again and keeps it.
Push(c, valid) ==
    LET m == push[c]
        kept == Current(c, m.epoch, m.gen)
    IN  /\ m # None
        /\ push' = [push EXCEPT ![c] = None]
        /\ chan' = IF kept THEN [chan EXCEPT ![c] = Frame(@, valid)] ELSE chan
        /\ slot' = IF kept /\ valid THEN [slot EXCEPT ![c] = m.epoch] ELSE slot
        /\ since' = IF kept /\ valid THEN [since EXCEPT ![c] = IF @ < 2 THEN @ + 1 ELSE 2]
                    ELSE since
        /\ UNCHANGED <<active, epoch, pauses, observation, control, sock, owner, monitor, lifecycle,
                       slept, taken, reserved>>

\* The UI takes the newest frame.
Take(c) ==
    /\ slot[c] # 0
    /\ slot' = [slot EXCEPT ![c] = 0]
    /\ UNCHANGED <<active, epoch, pauses, observation, control, chan, sock, push, owner, monitor,
                   lifecycle, slept, taken, reserved, since>>

(* The monitor thread *)

\* Once a second. While nothing is to be observed it only moves its clock; after
\* a gap (the machine slept) every channel gets its grace again. What is due is
\* reserved before anything is probed, so failed probes are bounded too.
Sample ==
    LET woke == slept > Threshold
        seen == IF woke THEN Resumed ELSE chan
        due == {c \in Periodic : RepairDue(seen[c])}
    IN  /\ monitor.pc = "idle" /\ slept' = 0
        /\ IF active /\ pauses = 0
           THEN /\ chan' = [c \in Channels |-> IF c \in due THEN ReserveRepair(seen[c]) ELSE seen[c]]
                /\ reserved' = [c \in Channels |->
                                    IF c \in due THEN reserved[c] \cup {0} ELSE reserved[c]]
                /\ since' = IF woke THEN Forgotten ELSE since
                /\ monitor' = IF due = {} THEN monitor
                              ELSE [pc |-> "probe", epoch |-> epoch, obs |-> observation, due |-> due,
                                    ev |-> "none"]
           ELSE UNCHANGED <<chan, reserved, since, monitor>>
        /\ UNCHANGED <<active, epoch, pauses, observation, control, sock, push, slot, owner,
                       lifecycle, taken>>

\* The probe ends, with an answer of the controller or without: it held no lock.
\* With "lifecycle" the answer is kept, or dropped if the runtime it is about is gone.
Record(ev) ==
    /\ monitor.pc = "probe" /\ lifecycle = Free
    /\ IF active /\ pauses = 0 /\ epoch = monitor.epoch /\ observation = monitor.obs
       THEN /\ control' = monitor.epoch
            /\ monitor' = [monitor EXCEPT !.pc = "repair", !.ev = ev] /\ lifecycle' = "monitor"
       ELSE monitor' = Idle /\ UNCHANGED <<control, lifecycle>>
    /\ UNCHANGED <<active, epoch, pauses, observation, chan, sock, push, slot, owner, slept, taken,
                   reserved, since>>

\* The monitor goes on to the next channel that was due, or releases "lifecycle".
Done(c) ==
    IF monitor.due = {c} THEN monitor' = Idle /\ lifecycle' = Free
    ELSE monitor' = [monitor EXCEPT !.pc = "repair", !.due = @ \ {c}] /\ UNCHANGED lifecycle

\* Mutant of Repair.
RepairAsSampled(c) ==
    LET h == [chan[c] EXCEPT !.denied = @ \/ monitor.ev = "denied"]
        again == monitor.ev = "responsive" /\ State(h) # "blocked"
    IN  /\ monitor.pc = "repair" /\ c \in monitor.due
        /\ chan' = [chan EXCEPT ![c] = IF again THEN Reopen(h) ELSE h]
        /\ since' = IF again THEN [since EXCEPT ![c] = 0] ELSE since
        /\ IF again THEN monitor' = [monitor EXCEPT !.pc = c] /\ UNCHANGED lifecycle ELSE Done(c)
        /\ UNCHANGED <<active, epoch, pauses, observation, control, sock, push, slot, owner, slept,
                       taken, reserved>>

\* For each channel that was due: a final answer blocks it; it is reopened only
\* if the controller answers and the channel is stale still. Its socket is then
\* joined outside "mutex".
Repair(c) ==
    LET h == [chan[c] EXCEPT !.denied = @ \/ monitor.ev = "denied"]
        again == monitor.ev = "responsive" /\ State(h) = "stale"
    IN  /\ monitor.pc = "repair" /\ c \in monitor.due
        /\ chan' = [chan EXCEPT ![c] = IF again THEN Reopen(h) ELSE h]
        /\ since' = IF again THEN [since EXCEPT ![c] = 0] ELSE since
        /\ IF again THEN monitor' = [monitor EXCEPT !.pc = c] /\ UNCHANGED lifecycle ELSE Done(c)
        /\ UNCHANGED <<active, epoch, pauses, observation, control, sock, push, slot, owner, slept,
                       taken, reserved>>

\* The joined socket gets a callback of the new generation and is started.
Rejoin(c) ==
    /\ monitor.pc = c /\ Quiet(c)
    /\ sock' = [sock EXCEPT ![c] = [state |-> "connecting", gen |-> chan[c].gen, epoch |-> epoch]]
    /\ Done(c)
    /\ UNCHANGED <<active, epoch, pauses, observation, control, chan, push, slot, owner, slept,
                   taken, reserved, since>>

Evidence == {"responsive", "denied", "other"}

Next ==
    \/ Tick \/ Pause \/ Unpause \/ StartAll \/ StopDone \/ Sample
    \/ \E op \in {"start", "stop"} : Begin(op)
    \/ \E ev \in Evidence : Record(ev)
    \/ \E c \in Channels :
        \/ StopAll(c) \/ Opened(c) \/ Message(c) \/ Take(c) \/ Repair(c) \/ Rejoin(c)
        \/ \E denied \in BOOLEAN : Lost(c, denied)
        \/ \E valid \in BOOLEAN : Push(c, valid)

Spec == Init /\ [][Next]_vars

----------------------------------------------------------------------------
Health == [active : BOOLEAN, connected : BOOLEAN, periodic : BOOLEAN, gen : 0..3,
           age : 0..(Threshold + 1), grace : 0..Grace, wait : 0..Cap, run : 0..2, repairs : 0..5,
           denied : BOOLEAN, attempts : [0..2 -> 0..Window]]

TypeOK ==
    /\ active \in BOOLEAN /\ epoch \in 0..MaxOps /\ control \in 0..MaxOps
    /\ pauses \in 0..MaxOps /\ observation \in 0..(2 * MaxOps)
    /\ chan \in [Channels -> Health]
    /\ \A c \in Channels : sock[c].state \in {"off", "connecting", "open", "down"}
    /\ owner \in {"idle", "start", "stop"} /\ lifecycle \in {Free, "owner", "monitor"}
    /\ (lifecycle = "owner") <=> (owner # "idle")
    /\ slept \in 0..(Threshold + 1) /\ since \in [Channels -> 0..2]

\* A frame waiting for the UI was sent by the kernel that is running: no frame
\* of the previous kernel is shown as the new one's, whatever its socket's last
\* callbacks did (pushTraffic, pushConnections, CoreStreams::start).
FrameIsOfThisKernel == \A c \in Channels : active => slot[c] \in {0, epoch}

\* A channel is called fresh only on two valid frames of the connection it has
\* now, or since the pause or the sleep that made older frames worthless
\* (Channel::Read; "a socket handshake is not a sample").
FreshIsEarned == \A c \in Channels : State(chan[c]) = "fresh" => since[c] >= 2

\* In any window at most three repairs are reserved, failed probes included
\* (Channel::RepairDue, ReserveRepair: "failed probes are also bounded and
\* cannot storm").
RepairsAreRare == \A c \in Channels : Cardinality(reserved[c]) <= 3

\* Whatever the monitor does with "lifecycle" held is about the runtime that is
\* running, unpaused since it was sampled: no repair starts inside a lifecycle
\* operation, and none outlives the kernel it was decided for (watch, HealthPause).
RepairIsCurrent ==
    lifecycle = "monitor" =>
        active /\ pauses = 0 /\ monitor.epoch = epoch /\ monitor.obs = observation

\* The evidence shown is of the kernel that is running (watch, start).
EvidenceIsCurrent == active => control \in {0, epoch}

\* While the streams run, each socket that is up carries the generation its
\* health expects, unless the monitor is about to replace it: no channel goes
\* deaf, dropping every frame of a connection that works (install, watch).
NoDeafSocket ==
    \A c \in Channels :
        active /\ sock[c].state \in {"connecting", "open"} =>
            \/ sock[c].epoch = epoch /\ sock[c].gen = chan[c].gen
            \/ monitor.pc = c

\* A reopened channel had been silent past the threshold at that moment, even
\* if it was sampled as silent earlier and a frame arrived during the probe.
OnlySilentIsReopened ==
    [][\A c \in Channels : monitor.pc # c /\ monitor'.pc = c => Silent(chan[c])]_vars
==============================================================================
