----------------------------- MODULE WebsiteTests -----------------------------
(***************************************************************************)
(* The website tests (website_test_model.h): a few HTTP probes run at a    *)
(* time, the others wait. Sites are added, edited, removed and cancelled   *)
(* while their probes are under way; a cancelled probe may still answer.   *)
(* The model belongs to the application: it is not bound to the page.      *)
(***************************************************************************)
EXTENDS Integers, Orderings, SequencesExt

CONSTANTS
    Sites,      \* ids of sites
    Limit,      \* kMaxConcurrentProbes
    MaxUrls,    \* bound on the addresses given to a site
    MaxProbes   \* bound on probes launched

VARIABLES
    sites,      \* of each site: [url, phase, of]; url 0: not in the list; of (ghost): the url measured
    pending,    \* the queue of sites
    running,    \* of each site the generation of its probe; 0 is none
    probes,     \* the probes launched and not answered: [id, generation, url]
    launched    \* nextGeneration

vars == <<sites, pending, running, probes, launched>>

Active == {"Queued", "Running"}
Shown == {id \in Sites : sites[id].url # 0}
Blank(url) == [url |-> url, phase |-> "Idle", of |-> 0]
Marked(row, phase) == [row EXCEPT !.phase = phase, !.of = 0]

\* Some of the sites are preset, the others can be added.
Init ==
    /\ \E preset \in SUBSET Sites :
          /\ Cardinality(Sites \ preset) <= 1
          /\ sites = [id \in Sites |-> Blank(IF id \in preset THEN 1 ELSE 0)]
    /\ pending = <<>> /\ running = [id \in Sites |-> 0] /\ probes = {} /\ launched = 0

----------------------------------------------------------------------------
\* Pump, on the rows, the queue, the slots and the probes an operation leaves: the
\* first of the queue get the free slots, in order.
Pump(rows, queue, slots, left) ==
    LET free  == Limit - Cardinality({id \in Sites : slots[id] # 0})
        n     == IF free < Len(queue) THEN free ELSE Len(queue)
        taken == ToSet(SubSeq(queue, 1, n))
        generation(id) == launched + (CHOOSE i \in 1..n : queue[i] = id)
    IN  /\ launched + n <= MaxProbes /\ launched' = launched + n
        /\ pending' = SubSeq(queue, n + 1, Len(queue))
        /\ running' = [id \in Sites |-> IF id \in taken THEN generation(id) ELSE slots[id]]
        /\ sites' = [id \in Sites |-> IF id \in taken THEN Marked(rows[id], "Running") ELSE rows[id]]
        /\ probes' = left \cup {[id |-> id, generation |-> generation(id), url |-> rows[id].url] : id \in taken}

\* Stop: a queued site leaves the queue, a running one frees its slot at once.
Stop(id) == Kept(pending, Sites \ {id})

Stopped(id, row) == Pump([sites EXCEPT ![id] = row], Stop(id), [running EXCEPT ![id] = 0], probes)

\* Start queues those requested that are not active, in the order of the request.
Start(ids) ==
    LET wanted == Kept(ids, {id \in Sites : sites[id].phase \notin Active})
    IN  /\ wanted # <<>>
        /\ Pump([id \in Sites |-> IF id \in ToSet(wanted) THEN Marked(sites[id], "Queued") ELSE sites[id]],
                pending \o wanted, running, probes)

TestAll == Start(SetToSeq(Shown))

Cancel(id) == Stopped(id, Marked(sites[id], "Cancelled"))

\* A site's own button.
Toggle(id) == id \in Shown /\ IF sites[id].phase \in Active THEN Cancel(id) ELSE Start(<<id>>)

CancelAll ==
    /\ \E id \in Shown : sites[id].phase \in Active
    /\ sites' = [id \in Sites |-> IF sites[id].phase \in Active THEN Marked(sites[id], "Cancelled")
                                  ELSE sites[id]]
    /\ pending' = <<>> /\ running' = [id \in Sites |-> 0]
    /\ UNCHANGED <<probes, launched>>

\* An added site has a new id.
Add(id) ==
    /\ sites[id] = Blank(0) /\ \A probe \in probes : probe.id # id
    /\ sites' = [sites EXCEPT ![id] = Blank(1)]
    /\ UNCHANGED <<pending, running, probes, launched>>

\* Another address: what was measured is about the old one. (A new name changes nothing here.)
Update(id) == id \in Shown /\ sites[id].url < MaxUrls /\ Stopped(id, Blank(sites[id].url + 1))

Delete(id) == id \in Shown /\ Stopped(id, Blank(0))

----------------------------------------------------------------------------
\* By the generation: the probe was not cancelled, nor the site tested again.
IsNewest(probe) == running[probe.id] = probe.generation

Answer(probe, phase) ==
    /\ probe \in probes
    /\ IF IsNewest(probe)
       THEN Pump(IF sites[probe.id].url = probe.url
                 THEN [sites EXCEPT ![probe.id] = [@ EXCEPT !.phase = phase, !.of = probe.generation]]
                 ELSE sites,
                 pending, [running EXCEPT ![probe.id] = 0], probes \ {probe})
       ELSE probes' = probes \ {probe} /\ UNCHANGED <<sites, pending, running, launched>>

Next ==
    \/ \E id \in Sites : Toggle(id) \/ Add(id) \/ Update(id) \/ Delete(id)
    \/ TestAll \/ CancelAll
    \/ \E probe \in probes, phase \in {"Responded", "Failed"} : Answer(probe, phase)

Spec == Init /\ [][Next]_vars

----------------------------------------------------------------------------
TypeOK ==
    /\ \A id \in Sites : /\ sites[id].url \in 0..MaxUrls /\ sites[id].of \in 0..MaxProbes
                         /\ sites[id].phase \in {"Idle", "Queued", "Running", "Responded", "Failed", "Cancelled"}
                         /\ running[id] \in 0..launched
    /\ \A probe \in probes : probe.id \in Sites /\ probe.generation \in 1..launched

\* What a card says is true: a waiting site is in the queue once, a running one has a
\* probe of its own address under way. Otherwise it would wait forever.
PhasesAreTrue ==
    /\ IsInjective(pending)
    /\ \A id \in Sites :
          /\ (sites[id].phase = "Queued") = (id \in ToSet(pending))
          /\ (sites[id].phase = "Running") = (running[id] # 0)
          /\ running[id] # 0 => [id |-> id, generation |-> running[id], url |-> sites[id].url] \in probes

\* Never more probes than slots, and no slot idle while a site waits.
SlotsAreUsed ==
    LET used == Cardinality({id \in Sites : running[id] # 0})
    IN  used <= Limit /\ (pending # <<>> => used = Limit)

\* A result is of the last test of its site: an answer that comes after the site was
\* cancelled, changed or tested again never shows.
ResultIsOfLastTest ==
    [][\A id \in Sites : sites'[id].of # sites[id].of /\ sites'[id].of # 0 =>
            /\ sites[id].phase = "Running" /\ sites'[id].of = running[id]
            /\ sites'[id].url = sites[id].url]_vars
==============================================================================
