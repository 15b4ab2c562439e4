---------------------------- MODULE KernelService ----------------------------
(***************************************************************************)
(* What a privileged service promises its clients, whatever the platform:  *)
(* commands take effect one at a time and in the order in which they were  *)
(* accepted; an "OK" is only said after the effect; a kernel is only       *)
(* started once the earlier one is gone.  A client may stop waiting: its   *)
(* command keeps its place and may still take effect.                      *)
(*                                                                         *)
(* ServiceDaemon (Linux) and WindowsService implement this specification.  *)
(***************************************************************************)
EXTENDS Sequences

CONSTANTS Configs, None

VARIABLES
    kernel,     \* the configuration of the kernel that runs, or None
    accepted,   \* the commands accepted and not yet answered, oldest first
    effective   \* the oldest command has had its effect

vars == <<kernel, accepted, effective>>

Command == [op : {"START"}, config : Configs] \cup [op : {"STOP", "STATUS", "UPGRADE"}, config : {None}]

Init == kernel = None /\ accepted = <<>> /\ effective = FALSE

Accept ==
    /\ \E c \in Command : accepted' = Append(accepted, c)
    /\ UNCHANGED <<kernel, effective>>

\* A kernel may die at any time, by itself or because it is being replaced.
Exit == kernel # None /\ kernel' = None /\ UNCHANGED <<accepted, effective>>

Start ==
    /\ accepted # <<>> /\ Head(accepted).op = "START" /\ ~effective
    /\ kernel = None /\ kernel' = Head(accepted).config
    /\ effective' = TRUE
    /\ UNCHANGED accepted

Stopped ==
    /\ accepted # <<>> /\ Head(accepted).op = "STOP" /\ ~effective
    /\ kernel = None /\ effective' = TRUE
    /\ UNCHANGED <<kernel, accepted>>

\* An answer: OK to a START or a STOP only when it was effective.
Answer(ok) ==
    /\ accepted # <<>>
    /\ ok /\ Head(accepted).op \in {"START", "STOP"} => effective
    /\ accepted' = Tail(accepted) /\ effective' = FALSE
    /\ UNCHANGED kernel

\* The service ends: nothing that was accepted takes effect any more, and a kernel
\* that is tied to it ends with it.
End == accepted' = <<>> /\ effective' = FALSE /\ kernel' \in {kernel, None}

Next ==
    \/ Accept \/ Exit \/ Start \/ Stopped \/ End
    \/ \E ok \in BOOLEAN : Answer(ok)

Spec == Init /\ [][Next]_vars
==============================================================================
