------------------------------ MODULE ConfigTool ------------------------------
(***************************************************************************)
(* The kernel's binary as a tool (core.cpp runNativeConfigTool): it checks *)
(* a configuration or turns a rule set into text, with a deadline and with *)
(* limits on what it may write. Whatever happens the child is reaped and   *)
(* the files of the attempt are removed.                                   *)
(***************************************************************************)

VARIABLES
    os,       \* "posix" or "windows"
    use,      \* "check" or "import"
    pc,       \* "open", "wait", "after", "unwind" or "returned"
    child,    \* "none", "running", "zero" or "failed" (ended, by its code), "reaped"
    large,    \* the child has written more than the limit
    late,     \* the deadline is over
    success, error,
    file,     \* the diagnostic file exists
    staging   \* "none", "source" (a private copy of the rule set) or "text" (what came out)

vars == <<os, use, pc, child, large, late, success, error, file, staging>>

Init ==
    /\ os \in {"posix", "windows"} /\ use \in {"check", "import"}
    /\ pc = "open" /\ child = "none" /\ large = FALSE /\ late = FALSE
    /\ success = FALSE /\ error = FALSE /\ file = FALSE
    /\ staging = IF use = "import" THEN "source" ELSE "none"

\* The child is spawned, its output in the diagnostic file.
Open(spawned) ==
    /\ pc = "open"
    /\ file' \in (IF spawned THEN {TRUE} ELSE BOOLEAN)
    /\ IF spawned THEN child' = "running" /\ pc' = "wait" /\ UNCHANGED error
       ELSE pc' = "unwind" /\ error' = TRUE /\ UNCHANGED child
    /\ UNCHANGED <<os, use, large, late, success, staging>>

Write ==
    /\ child = "running" /\ large' = TRUE
    /\ UNCHANGED <<os, use, pc, child, late, success, error, file, staging>>

End(code) ==
    /\ child = "running" /\ child' = code
    /\ staging' = IF use = "import" /\ code = "zero" THEN "text" ELSE staging
    /\ UNCHANGED <<os, use, pc, large, late, success, error, file>>

Clock ==
    /\ ~late /\ late' = TRUE
    /\ UNCHANGED <<os, use, pc, child, large, success, error, file, staging>>

\* One round of the loop: the exit code, or the limit, or a wait that fails. On POSIX it
\* fails for a child that ended and was reaped by somebody else.
Round ==
    /\ pc = "wait" /\ ~late
    /\ \/ /\ child \in {"zero", "failed"} /\ pc' = "after"
          /\ child' = "reaped"
          /\ \/ success' = (child = "zero") /\ UNCHANGED error
             \/ os = "posix" /\ error' = TRUE /\ UNCHANGED success
       \/ (large \/ os = "windows") /\ pc' = "after" /\ error' = TRUE /\ UNCHANGED <<success, child>>
    /\ UNCHANGED <<os, use, large, late, file, staging>>

Timeout ==
    /\ pc = "wait" /\ late /\ pc' = "after" /\ error' = TRUE
    /\ UNCHANGED <<os, use, child, large, late, success, file, staging>>

\* Windows ends the child here and waits for it without limit.
Terminate ==
    /\ os = "windows" /\ pc = "after" /\ child # "reaped" /\ child' = "reaped"
    /\ UNCHANGED <<os, use, pc, large, late, success, error, file, staging>>

\* Once more, since the child may have written after the last round.
Within == ~large

Judge ==
    /\ pc = "after" /\ (os = "windows" => child = "reaped")
    /\ success' = (success /\ Within) /\ error' = ~success'
    /\ pc' = "unwind"
    /\ UNCHANGED <<os, use, child, large, late, file, staging>>

\* CheckChild kills and reaps, then DiagnosticFile removes.
Owner == child' = IF child = "none" THEN "none" ELSE "reaped"

Unwind ==
    /\ pc = "unwind" /\ pc' = "returned"
    /\ Owner /\ file' = FALSE
    /\ UNCHANGED <<os, use, large, late, success, error, staging>>

\* importRuleSet goes on with the text of its own copy; its directory goes last.
Leave ==
    /\ pc = "returned" /\ staging # "none" /\ staging' = "none"
    /\ UNCHANGED <<os, use, pc, child, large, late, success, error, file>>

Next ==
    \/ \E spawned \in BOOLEAN : Open(spawned)
    \/ \E code \in {"zero", "failed"} : End(code)
    \/ Write \/ Clock \/ Round \/ Timeout \/ Terminate \/ Judge \/ Unwind \/ Leave

Spec == Init /\ [][Next]_vars

----------------------------------------------------------------------------
TypeOK ==
    /\ pc \in {"open", "wait", "after", "unwind", "returned"}
    /\ child \in {"none", "running", "zero", "failed", "reaped"} /\ staging \in {"none", "source", "text"}
    /\ {large, late, success, error, file} \subseteq BOOLEAN

\* No tool and no file of an attempt outlives it: the lifecycle lock is held meanwhile,
\* and a tool still running would read the next attempt's files.
NothingLeft == pc = "returned" => child \in {"none", "reaped"} /\ ~file

\* What is used was written completely, by a child that ended by itself, within the limits.
SuccessIsWhole ==
    pc = "returned" /\ success => ~large /\ (use = "import" => staging \in {"text", "none"})
==============================================================================
