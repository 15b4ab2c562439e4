---------------------------- MODULE KernelProcess ----------------------------
(***************************************************************************)
(* The kernel as a process of the application (core.cpp CoreProcess): a    *)
(* child whose output a monitor thread reads until it hangs up and which   *)
(* it then reaps, on macOS; a service's kernel that is never a child, on   *)
(* Linux and Windows; and a handle on the system's tunnel, on the phones.  *)
(* The caller holds the lifecycle lock; the monitor, the child and the     *)
(* readers of the output run beside it.                                    *)
(***************************************************************************)
EXTENDS Integers, Sequences

CONSTANTS
    Buffer,     \* lines one read returns
    TailLen,    \* kTailLines
    MaxOutput,  \* kMaxOutputLines
    MaxLines,   \* bound on lines written
    MaxStarts   \* bound on starts; each child is numbered by its start

VARIABLES
    os,         \* "mac", "hosted" (Linux and Windows), "android" or "ios"
    procs,      \* of each child: "none", "alive", "asked" (SIGTERM), "zombie" or "reaped"
    child,      \* childPid; 0 is none
    pidfile,    \* core.pid
    tunnel,     \* the system's tunnel runs (iOS)
    pipe,       \* lines written and not read
    monitor,    \* the monitor thread: "none", "poll", "reap" or "done"
    grace,      \* its killDeadline: "none", "armed" or "over"
    running, stopping, exit,
    starting,   \* start() waits for the previous monitor
    output, tail,
    wrote, read, \* ghost: lines written, lines the monitor read
    starts      \* ghost: starts so far

vars == <<os, procs, child, pidfile, tunnel, pipe, monitor, grace, running, stopping, exit, starting,
          output, tail, wrote, read, starts>>

Init ==
    /\ os \in {"mac", "hosted", "android", "ios"}
    /\ procs = [p \in 1..MaxStarts |-> "none"] /\ child = 0 /\ pidfile = 0
    /\ tunnel \in {FALSE, os = "ios"}
    /\ pipe = <<>> /\ monitor = "none" /\ grace = "none"
    /\ running = FALSE /\ stopping = FALSE /\ exit = -1 /\ starting = FALSE
    /\ output = <<>> /\ tail = <<>>
    /\ wrote = 0 /\ read = <<>> /\ starts = 0

Live == {p \in DOMAIN procs : procs[p] \in {"alive", "asked"}}
HungUp == child = 0 \/ procs[child] \notin {"alive", "asked"}

----------------------------------------------------------------------------
(* The caller *)

\* Impl::stop asks and does not wait. The tunnel must confirm; the service's
\* kernel is no child.
Stop(confirmed) ==
    IF os = "ios"
    THEN /\ IF confirmed THEN stopping' = TRUE /\ running' = FALSE /\ exit' = 0 /\ tunnel' = FALSE
            ELSE UNCHANGED <<stopping, running, exit, tunnel>>
         /\ UNCHANGED procs
    ELSE IF ~running THEN UNCHANGED <<stopping, running, exit, tunnel, procs>>
    ELSE /\ stopping' = TRUE /\ UNCHANGED tunnel
         /\ IF os = "android" THEN running' = FALSE /\ exit' = 0 /\ UNCHANGED procs
            ELSE /\ procs' = IF child # 0 /\ procs[child] = "alive" THEN [procs EXCEPT ![child] = "asked"]
                             ELSE procs
                 /\ UNCHANGED <<running, exit>>

Ask(confirmed) ==
    /\ ~starting /\ Stop(confirmed)
    /\ UNCHANGED <<os, child, pidfile, pipe, monitor, grace, starting, output, tail, wrote, read, starts>>

\* CoreProcess::start first ends what runs.
Start(confirmed) ==
    /\ ~starting /\ starts < MaxStarts /\ starting' = TRUE
    /\ IF running THEN Stop(confirmed) ELSE UNCHANGED <<stopping, running, exit, tunnel, procs>>
    /\ UNCHANGED <<os, child, pidfile, pipe, monitor, grace, output, tail, wrote, read, starts>>

JoinedNot == TRUE

\* joinMonitor: the previous child is reaped before the next is spawned.
Joined == monitor \in {"none", "done"}

\* The fields of the previous run.
Clear ==
    /\ output' = <<>> /\ tail' = <<>> /\ read' = <<>>
    /\ stopping' = FALSE /\ exit' = -1

\* spawn: the child's only connection is the pipe; pidfile lets another process stop it.
Spawn(ok) ==
    /\ starts' = starts + 1 /\ wrote' = 0
    /\ IF ok THEN /\ procs' = [procs EXCEPT ![starts'] = "alive"] /\ child' = starts' /\ pidfile' = starts'
                  /\ pipe' = <<>> /\ monitor' = "poll" /\ grace' = "none" /\ running' = TRUE
       ELSE UNCHANGED <<procs, child, pidfile, pipe, grace, running>> /\ monitor' = "none"
    /\ UNCHANGED tunnel

\* The tunnel is started by the system; on Android the VPN service starts the kernel.
Handle(ok) ==
    /\ starts' = starts + 1
    /\ running' = ok /\ tunnel' = (IF os = "ios" THEN ok \/ tunnel ELSE tunnel)
    /\ UNCHANGED <<procs, child, pidfile, pipe, monitor, grace, wrote>>

Started(ok) ==
    /\ starting /\ Joined /\ starting' = FALSE /\ Clear
    /\ CASE os = "mac" -> Spawn(ok)
         [] os = "hosted" -> Handle(FALSE)
         [] os = "android" -> Handle(TRUE)
         [] os = "ios" -> Handle(ok)
    /\ UNCHANGED os

\* drainOutput.
Drain ==
    /\ output # <<>> /\ output' = <<>>
    /\ UNCHANGED <<os, procs, child, pidfile, tunnel, pipe, monitor, grace, running, stopping, exit,
                   starting, tail, wrote, read, starts>>

\* killPid of the pidfile, by the command line in another process.
KillPid ==
    /\ pidfile # 0 /\ procs[pidfile] = "alive" /\ procs' = [procs EXCEPT ![pidfile] = "asked"]
    /\ UNCHANGED <<os, child, pidfile, tunnel, pipe, monitor, grace, running, stopping, exit, starting,
                   output, tail, wrote, read, starts>>

----------------------------------------------------------------------------
(* The child *)

Write(p) ==
    /\ p \in Live /\ p = child /\ wrote < MaxLines
    /\ wrote' = wrote + 1 /\ pipe' = Append(pipe, wrote')
    /\ UNCHANGED <<os, procs, child, pidfile, tunnel, monitor, grace, running, stopping, exit, starting,
                   output, tail, read, starts>>

\* It ends by itself, or because it was asked to; it need not heed that.
Exit(p) ==
    /\ p \in Live /\ procs' = [procs EXCEPT ![p] = "zombie"]
    /\ UNCHANGED <<os, child, pidfile, tunnel, pipe, monitor, grace, running, stopping, exit, starting,
                   output, tail, wrote, read, starts>>

\* The system ends the tunnel.
TunnelEnds ==
    /\ tunnel /\ tunnel' = FALSE
    /\ UNCHANGED <<os, procs, child, pidfile, pipe, monitor, grace, running, stopping, exit, starting,
                   output, tail, wrote, read, starts>>

----------------------------------------------------------------------------
(* The monitor thread *)

First(s, n) == IF Len(s) > n THEN SubSeq(s, 1, n) ELSE s
Newest(s, n) == IF Len(s) > n THEN SubSeq(s, Len(s) - n + 1, Len(s)) ELSE s

\* pushLine: the tail goes on when the output is full.
Push(lines) ==
    /\ output' = output \o First(lines, MaxOutput - Len(output))
    /\ tail' = Newest(tail \o lines, TailLen)

\* After a stop the child has a grace period; then SIGKILL, and again if need be.
Kill ==
    /\ monitor = "poll" /\ stopping /\ grace # "armed"
    /\ grace' = IF grace = "none" THEN "armed" ELSE "none"
    /\ procs' = IF grace = "over" /\ child \in Live THEN [procs EXCEPT ![child] = "zombie"] ELSE procs
    /\ UNCHANGED <<os, child, pidfile, tunnel, pipe, monitor, running, stopping, exit, starting, output,
                   tail, wrote, read, starts>>

Clock ==
    /\ grace = "armed" /\ grace' = "over"
    /\ UNCHANGED <<os, procs, child, pidfile, tunnel, pipe, monitor, running, stopping, exit, starting,
                   output, tail, wrote, read, starts>>

\* poll and read: one buffer; after a hang-up there is no second read. Either may fail,
\* be it that a signal interrupts it, and then the loop is over although the child lives.
Poll ==
    /\ monitor = "poll"
    /\ \/ /\ HungUp \/ pipe # <<>>
          /\ Push(First(pipe, Buffer)) /\ read' = read \o First(pipe, Buffer)
          /\ pipe' = SubSeq(pipe, Buffer + 1, Len(pipe))
          /\ monitor' = IF HungUp THEN "reap" ELSE "poll"
       \/ monitor' = "reap" /\ UNCHANGED <<output, tail, read, pipe>>
    /\ UNCHANGED <<os, procs, child, pidfile, tunnel, grace, running, stopping, exit, starting,
                   wrote, starts>>

\* waitpid, without limit. A child that was stopped has not failed.
Code == IF stopping THEN 0 ELSE 1

Reap ==
    /\ monitor = "reap" /\ HungUp /\ monitor' = "done"
    /\ procs' = IF child # 0 THEN [procs EXCEPT ![child] = "reaped"] ELSE procs
    /\ child' = 0 /\ pipe' = <<>>
    /\ exit' = Code /\ running' = FALSE
    /\ UNCHANGED <<os, pidfile, tunnel, grace, stopping, starting, output, tail, wrote, read, starts>>

Next ==
    \/ \E yes \in BOOLEAN : Ask(yes) \/ Start(yes) \/ Started(yes)
    \/ Drain \/ KillPid \/ TunnelEnds \/ Kill \/ Clock \/ Poll \/ Reap
    \/ \E p \in DOMAIN procs : Write(p) \/ Exit(p)

Spec == Init /\ [][Next]_vars

----------------------------------------------------------------------------
TypeOK ==
    /\ \A p \in DOMAIN procs : procs[p] \in {"none", "alive", "asked", "zombie", "reaped"}
    /\ child \in 0..MaxStarts /\ pidfile \in 0..MaxStarts /\ exit \in {-1, 0, 1}
    /\ monitor \in {"none", "poll", "reap", "done"} /\ grace \in {"none", "armed", "over"}
    /\ {running, stopping, starting, tunnel} \subseteq BOOLEAN
    /\ Len(output) <= MaxOutput /\ Len(tail) <= TailLen

\* One kernel at a time, and none that nobody will reap: whatever is not ended is the
\* child the monitor watches. Without it a second kernel would meet a taken port.
OneKernel ==
    \A p \in DOMAIN procs :
        procs[p] \in {"alive", "asked", "zombie"} => p = child /\ monitor \in {"poll", "reap"}

\* The lines a failure is explained with are the last ones the monitor read, also
\* when nobody drains the output and it is full.
TailIsLatest == os = "mac" => tail = Newest(read, TailLen)
==============================================================================
