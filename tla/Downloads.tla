------------------------------ MODULE Downloads ------------------------------
(***************************************************************************)
(* Files the application downloads (api.cpp): a transfer takes a handle of *)
(* a small pool, writes into a directory of its own beside the             *)
(* destination, and what it brought is checked and then replaces the       *)
(* destination.  Several requests may be for one destination.  Of a handle *)
(* matters which connections it made and may use again: for which server,  *)
(* with which secret.  A body that is cut is one the server announced to   *)
(* be longer; a shorter one nobody can tell from a whole.                  *)
(***************************************************************************)
EXTENDS Integers, SequencesExt

CONSTANTS
    Requests,
    Transports,     \* "curl" or "ios"
    Origins,        \* servers
    MaxIdle         \* handles the pool keeps

VARIABLES
    transport,
    idle,           \* the pool, the oldest handle first
    job,            \* what each request is at
    temps,          \* the temporary directories: whose body lies in each, and its form
    dest,           \* whose body the destination has, and its form
    told            \* what the request that ended with the last step was told

vars == <<transport, idle, job, temps, dest, told>>

\* A profile is asked for as it is; a provider with a limit, and with the user's secret or
\* only if the copy is no longer current.
Asking ==
    {ask \in [origin : Origins, secret : {"none", "token"}, current : BOOLEAN, limited : BOOLEAN] :
        /\ ask.limited <=> ask.secret # "none" \/ ask.current
        /\ ~(ask.secret # "none" /\ ask.current)}
Connections == [origin : Origins, secret : {"none", "token"}]
Forms == {"part", "whole", "cut", "large", "foreign"}

TypeOK ==
    /\ transport \in Transports
    /\ Len(idle) <= MaxIdle
    /\ \A i \in DOMAIN idle : idle[i].policy \in Connections /\ idle[i].made \subseteq Connections
    /\ \A r \in Requests : /\ job[r].at \in {"none", "sending", "arrived", "checked"}
                           /\ job[r].at # "none" => job[r].ask \in Asking
    /\ \A d \in DOMAIN temps : temps[d] \in Requests \X Forms
    /\ dest = <<"old">> \/ dest \in Requests \X Forms

Resting == [at |-> "none"]
Silence == <<"nobody", "nothing">>

Init ==
    /\ transport \in Transports
    /\ idle = <<>>
    /\ job = [r \in Requests |-> Resting]
    /\ temps = [d \in {} |-> <<>>]
    /\ dest = <<"old">>
    /\ told = Silence

\* ---- the pool of handles --------------------------------------------------
\* DownloadPolicy::From: the question whether the copy is current is of this reply only.
Policy(ask) == [origin |-> ask.origin, secret |-> ask.secret]

Evicted(pool) == IF Len(pool) = MaxIdle THEN Tail(pool) ELSE pool

Matching(policy) == {i \in DOMAIN idle : idle[i].policy = policy}

\* DownloadHandlePool::Take and Return.
Taken(policy) ==
    IF Matching(policy) = {} THEN [made |-> {}, left |-> Evicted(idle)]
    ELSE LET i == CHOOSE j \in Matching(policy) : \A k \in Matching(policy) : j <= k IN
         [made |-> idle[i].made, left |-> RemoveAt(idle, i)]

Returned(policy, made) == Append(Evicted(idle), [policy |-> policy, made |-> made])

\* ---- the reply -----------------------------------------------------------
\* onHeaderLine: a status line begins another hop; the last of a name stands.
OnHeaderLine(lines, i) == \A j \in i + 1 .. Len(lines) : lines[j][1] \notin {"status", lines[i][1]}

\* A redirection has a tag that the page it leads to has not.
FirstHop == <<<<"status", 302>>, <<"etag", "first">>, <<"length", "first">>>>
LastHop == <<<<"status", 200>>, <<"length", "last">>>>
HeadersOf(lines) ==
    {lines[i] : i \in {j \in DOMAIN lines : lines[j][1] # "status" /\ OnHeaderLine(lines, j)}}

HasHeaders(ask) == ask.secret # "none" \/ ask.current

\* Redirections are followed only by a request without headers, perhaps to another server.
Hops(ask) == {ask.origin} \cup (IF HasHeaders(ask) THEN {} ELSE Origins)

\* What may come: a transfer that broke off, or a status and a body.
Replies(ask) ==
    {[done |-> FALSE, status |-> 0, form |-> "part"]}
    \cup [done : {TRUE}, status : {200}, form : {"whole", "cut", "foreign"}]
    \cup [done : {~(ask.limited /\ transport = "curl")}, status : {200}, form : {"large"}]
    \cup [done : {TRUE}, status : {404}, form : {"foreign"}]
    \cup (IF ask.current THEN [done : {TRUE}, status : {304}, form : {"part"}] ELSE {})

\* What of it is good so far: complete, of a good status, as long as announced, not too long.
Good(ask, reply) ==
    /\ reply.done
    /\ reply.status = 200 \/ (reply.status = 304 /\ transport = "curl")
    /\ reply.form = "cut" => reply.status = 304
    /\ ~(ask.limited /\ reply.form = "large")

-----------------------------------------------------------------------------
Free == CHOOSE d \in 1 .. Cardinality(DOMAIN temps) + 1 : d \notin DOMAIN temps

Without(d) == [e \in DOMAIN temps \ {d} |-> temps[e]]

\* The request ends, and its directory with it.
End(r, as) ==
    /\ job' = [job EXCEPT ![r] = Resting]
    /\ temps' = Without(job[r].dir)
    /\ told' = <<r, as>>

\* downloadToFile() up to the transfer: a directory nobody has, an empty file in it, and a
\* handle. The system's own transfer on iOS takes no headers.
Begin(r, ask) ==
    LET handle == Taken(Policy(ask)) IN
    /\ job[r].at = "none" /\ (transport = "ios" => ~HasHeaders(ask))
    /\ job' = [job EXCEPT ![r] = [at |-> "sending", ask |-> ask, dir |-> Free, made |-> handle.made]]
    /\ temps' = [e \in DOMAIN temps \cup {Free} |-> IF e = Free THEN <<r, "part">> ELSE temps[e]]
    /\ idle' = IF transport = "curl" THEN handle.left ELSE idle
    /\ told' = Silence
    /\ UNCHANGED <<transport, dest>>

\* The transfer ends; a handle is kept when nothing broke, and released before any check.
Arrive(r) ==
    /\ job[r].at = "sending"
    /\ LET ask == job[r].ask  dir == job[r].dir IN
       \E reply \in Replies(ask), server \in Hops(ask) :
           LET lines == IF server # ask.origin THEN FirstHop \o LastHop ELSE LastHop
               made == job[r].made \cup {Policy(ask), [origin |-> server, secret |-> ask.secret]} IN
           /\ idle' = IF transport = "curl" /\ reply.done
                      THEN Returned(Policy(ask), made) ELSE idle
           /\ IF ~Good(ask, reply) THEN End(r, "failed")
              ELSE IF reply.status = 304 THEN End(r, "current")
              ELSE /\ job' = [job EXCEPT ![r] = [at |-> "arrived", ask |-> ask, dir |-> dir,
                                                 headers |-> HeadersOf(lines)]]
                   /\ temps' = [temps EXCEPT ![dir] = <<r, reply.form>>]
                   /\ told' = Silence
    /\ UNCHANGED <<transport, dest>>

\* validate(): what is not of the kind is refused, and so is what came too late.
Check(r) ==
    /\ job[r].at = "arrived"
    /\ \/ /\ temps[job[r].dir][2] # "foreign"
          /\ job' = [job EXCEPT ![r].at = "checked"]
          /\ told' = Silence
          /\ UNCHANGED temps
       \/ End(r, "failed")
    /\ UNCHANGED <<transport, idle, dest>>

\* replaceDownload()
Commit(r) ==
    /\ job[r].at = "checked"
    /\ \/ dest' = temps[job[r].dir] /\ End(r, "saved")
       \/ UNCHANGED dest /\ End(r, "failed")
    /\ UNCHANGED <<transport, idle>>

Next == \E r \in Requests : (\E ask \in Asking : Begin(r, ask)) \/ Arrive(r) \/ Check(r) \/ Commit(r)

Spec == Init /\ [][Next]_vars

-----------------------------------------------------------------------------
Handles == {[ask |-> Policy(job[r].ask), made |-> job[r].made] :
               r \in {q \in Requests : job[q].at = "sending"}}
           \cup {[ask |-> idle[i].policy, made |-> idle[i].made] : i \in DOMAIN idle}

\* No request is sent over a connection that was made with another secret, and no secret
\* is known to a server it was not meant for, whatever redirects and reuse came between.
SecretsStayApart ==
    \A h \in Handles : \A c \in h.made :
        /\ c.secret = h.ask.secret
        /\ c.secret # "none" => c.origin = h.ask.origin

\* Each running request has a directory of its own, nothing else is left beside the
\* destination, and the destination never has what is cut, foreign or half written.
DestinationIsWhole ==
    /\ \A q, r \in Requests :
           job[q].at # "none" /\ job[r].at # "none" /\ job[q].dir = job[r].dir => q = r
    /\ DOMAIN temps = {job[r].dir : r \in {q \in Requests : job[q].at # "none"}}
    /\ dest[Len(dest)] \notin {"part", "cut", "foreign"}

\* Only a request that is told so changed the destination, to its own body and within its
\* limit, and the headers it goes by are those of the body's own hop.
TellsTheTruth ==
    [][/\ dest' # dest => told'[2] = "saved"
       /\ told'[2] = "saved" =>
              LET r == told'[1] IN
              /\ dest'[1] = r
              /\ job[r].ask.limited => dest'[2] # "large"
              /\ \A h \in job[r].headers : h[2] = "last"]_vars
==============================================================================
