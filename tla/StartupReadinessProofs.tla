----------------------- MODULE StartupReadinessProofs -----------------------
(***************************************************************************)
(* StartupReadiness for every setting of the environment, any number of    *)
(* pids and any number of changes of the system: when the gate opens on    *)
(* stability, a whole window of samples has seen the same two processes;   *)
(* when it opens on the deadline, the system was not quiet for a window.   *)
(***************************************************************************)
EXTENDS StartupReadiness, FiniteSetTheorems, WellFoundedInduction, TLAPS

Processes == [name : Names, state : {"S", "Z"}, start : Nat \ {0}, cpu : Nat]
Starts == [name : Names, pid : Pids, at : Nat]

Types ==
  /\ ready \in BOOLEAN
  /\ procs \in [Pids -> Seq(Processes)]
  /\ starts \in Seq(Starts)
  /\ samples \in Nat
  /\ lastEvent \in 0..samples
  /\ unready \in 0..samples
  /\ policy.poll \in Nat \ {0}
  /\ policy.stable \in Nat \ {0}
  /\ policy.permille \in Nat
  /\ stable \in Nat
  /\ cached \in [Roles -> Pids \cup {NoPid}]
  /\ cachedOk \in [Roles -> BOOLEAN]
  /\ draft \in Samples
  /\ previous \in Seq(Samples)

\* What was started, when and under which name is what runs; the process of
\* a pid is the last one that was given it.
ProcInv ==
  /\ \A i \in 1..Len(starts) : starts[i].at <= samples
  /\ \A p \in Pids : procs[p] # <<>> =>
       LET i == procs[p][1].start
       IN  /\ i \in 1..Len(starts)
           /\ starts[i].pid = p
           /\ starts[i].name = procs[p][1].name
           /\ \A j \in 1..Len(starts) : starts[j].pid = p => j <= i

\* Android runs one live process of each role.
LiveInv ==
  \A r \in Roles : \A p, q \in Pids :
    Named(p, r) /\ Named(q, r) /\ procs[p][1].state = "S" /\ procs[q][1].state = "S" => p = q

\* An observed process was started under its role's name, or has the pid of
\* one that was.
Known(log, r, o) ==
  ProcessAlive(o) =>
    /\ o.start \in 1..Len(log)
    /\ log[o.start].pid = o.pid
    /\ \/ log[o.start].name = r
       \/ \E j \in 1..(o.start - 1) : log[j].pid = log[o.start].pid /\ log[j].name = r

KnownInv ==
  \A r \in Roles :
    /\ cached[r] # NoPid => \E j \in 1..Len(starts) : starts[j].pid = cached[r] /\ starts[j].name = r
    /\ pc # "stable" => Known(starts, r, draft.proc[r])
    /\ previous # <<>> => Known(starts, r, previous[1].proc[r])

\* The last sample that was judged.
Judged == IF pc = "scan" THEN samples - 1 ELSE samples

\* The last k + 1 samples saw the same processes, and the last k of them
\* ready properties; k samples are at least what stable counts.
Span(k) ==
  /\ stable <= k * policy.poll
  /\ \A r \in Roles : ProcessAlive(previous[1].proc[r]) =>
       starts[previous[1].proc[r].start].at <= Judged - k
  /\ pc # "scan" \/ draft.ready => unready <= Judged - k

WindowInv ==
  /\ pc = "scan" => samples > 0
  /\ pc \notin {"stable"} => stable < policy.stable
  /\ previous = <<>> => stable = 0
  /\ pc \notin Ended /\ previous # <<>> => \E k \in 0..Judged : Span(k)

\* What is observed of role r while one process of that name lives.
Exact(o) ==
  /\ \A r \in Roles : \A p \in Pids : Named(p, r) => o.proc[r] = ReadObservation(p)
  /\ o.count = Cardinality({p \in Pids : procs[p] # <<>>})

\* While nothing changes, a sample that began sees the system as it is, and
\* each judged sample after the first adds to stable.
QuietInv ==
  /\ pc = "scan" /\ samples > lastEvent =>
       /\ draft.ready = ready
       /\ \A r \in Roles : cachedOk[r] => Named(cached[r], r) /\ cached[r] \in Pids
                                          /\ draft.proc[r] = ReadObservation(cached[r])
  /\ pc # "stable" /\ Settled /\ Judged > lastEvent =>
       /\ previous # <<>>
       /\ Exact(previous[1])
       /\ (Judged - lastEvent - 1) * policy.poll <= stable

IInv ==
  /\ Types /\ ProcInv /\ LiveInv /\ KnownInv /\ WindowInv /\ QuietInv
  /\ StableMeansWindow


-----------------------------------------------------------------------------
(* Numbers, sets and sequences.                                            *)

\* A set of natural numbers has a least element.
LEMMA LeastNatural ==
  ASSUME NEW S \in SUBSET Nat, S # {}
  PROVE  \E x \in S : \A y \in S : x <= y
<1> DEFINE R == OpToRel(<, Nat)
<1>1. IsWellFoundedOn(R, Nat)
  BY NatLessThanWellFounded
<1> HIDE DEF R
<1>2. PICK x \in S : \A y \in S : <<y, x>> \notin R
  BY <1>1, WFMin
<1>3. \A y \in S : ~(y < x)
  BY <1>2 DEF R, OpToRel
<1> QED BY <1>3

\* Some pids have a largest one among them, the one readdir comes to last.
LEMMA LargestPid ==
  ASSUME NEW S \in SUBSET Pids, S # {}
  PROVE  Max(S) \in S
<1> DEFINE T == {PidMax - p : p \in S}
<1>1. T \in SUBSET Nat /\ T # {}
  BY PidAssumption
<1>2. PICK x \in T : \A y \in T : x <= y
  BY <1>1, LeastNatural
<1>3. PICK p \in S : x = PidMax - p
  BY <1>2
<1>4. \A q \in S : PidMax - q \in T
  OBVIOUS
<1>5. \A q \in S : p >= q
  <2> SUFFICES ASSUME NEW q \in S PROVE p >= q
    OBVIOUS
  <2>1. x <= PidMax - q
    BY <1>2, <1>4
  <2>2. p \in Nat /\ q \in Nat
    BY PidAssumption
  <2> QED BY <1>3, <2>1, <2>2, PidAssumption
<1> HIDE DEF T
<1> QED BY <1>5 DEF Max

\* The smaller of two numbers.
LEMMA SmallerOfTwo ==
  ASSUME NEW a \in Nat, NEW b \in Nat
  PROVE  Min({a, b}) = IF a <= b THEN a ELSE b
<1> DEFINE m == IF a <= b THEN a ELSE b
<1>1. m \in {a, b} /\ \A y \in {a, b} : m <= y
  OBVIOUS
<1>2. \A x \in {a, b} : (\A y \in {a, b} : x <= y) => x = m
  OBVIOUS
<1> HIDE DEF m
<1>3. Min({a, b}) = m
  BY <1>1, <1>2 DEF Min
<1> QED BY <1>3 DEF m

\* As many polls as cover the window are at least Window, and fewer do not
\* cover it.
LEMMA WindowSamples ==
  ASSUME NEW s \in Nat \ {0}, NEW p \in Nat \ {0}, NEW k \in Nat
  PROVE  /\ (s + p - 1) \div p \in Nat
         /\ s <= k * p => (s + p - 1) \div p <= k
         /\ k * p < s => k < (s + p - 1) \div p
<1> DEFINE w == (s + p - 1) \div p
<1>1. w \in Nat
  OBVIOUS
<1>2. p * w <= s + p - 1 /\ s + p - 1 < p * w + p
  OBVIOUS
<1> HIDE DEF w
<1>3. ASSUME s <= k * p PROVE w <= k
  <2> SUFFICES ASSUME k + 1 <= w PROVE FALSE
    BY <1>1
  <2>1. p * (k + 1) <= p * w
    BY <1>1
  <2>2. p * (k + 1) = k * p + p
    OBVIOUS
  <2> QED BY <1>1, <1>2, <1>3, <2>1, <2>2
<1>4. ASSUME k * p < s PROVE k < w
  <2> SUFFICES ASSUME w <= k PROVE FALSE
    BY <1>1
  <2>1. p * w <= p * k
    BY <1>1
  <2>2. p * k = k * p
    OBVIOUS
  <2> QED BY <1>1, <1>2, <1>4, <2>1, <2>2
<1> QED BY <1>1, <1>3, <1>4 DEF w

\* One more poll.
LEMMA OneMore ==
  ASSUME NEW k \in Nat, NEW p \in Nat
  PROVE  (k + 1) * p = k * p + p /\ k * p \in Nat /\ 0 * p = 0
OBVIOUS

\* The process of a pid, and what is read of it.
LEMMA ProcessType ==
  ASSUME Types, NEW p \in Pids
  PROVE  /\ procs[p] # <<>> => procs[p][1] \in Processes
         /\ ReadObservation(p) \in Observations
         /\ ProcessAlive(ReadObservation(p)) => procs[p] # <<>>
         /\ procs[p] # <<>> => ReadObservation(p).start = procs[p][1].start /\ ReadObservation(p).pid = p
                               /\ (ProcessAlive(ReadObservation(p)) <=> procs[p][1].state = "S")
<1>1. procs[p] \in Seq(Processes)
  BY DEF Types
<1>2. procs[p] # <<>> => procs[p][1] \in Processes
  BY <1>1
<1>3. p \in Nat /\ p > 1 /\ NoPid \notin Pids
  BY PidAssumption DEF NoPid
<1>4. CASE procs[p] = <<>>
  <2>1. ReadObservation(p) = NoObservation
    BY <1>4 DEF ReadObservation
  <2> QED BY <1>4, <2>1 DEF NoObservation, Observations, ProcessAlive, NoPid
<1>5. CASE procs[p] # <<>>
  <2>1. ReadObservation(p) = [pid |-> p, state |-> procs[p][1].state,
                              start |-> procs[p][1].start, cpu |-> procs[p][1].cpu]
    BY <1>5 DEF ReadObservation
  <2>2. procs[p][1].state \in {"S", "Z"} /\ procs[p][1].start \in Nat \ {0} /\ procs[p][1].cpu \in Nat
    BY <1>2, <1>5 DEF Processes
  <2> QED BY <1>2, <1>3, <1>5, <2>1, <2>2 DEF Observations, ProcessAlive
<1> QED BY <1>4, <1>5

\* The log of started processes stays or gets one more entry.
Grown == starts' = starts \/ \E s \in Starts : starts' = Append(starts, s)

\* What the log said it goes on saying.
LEMMA GrownLog ==
  ASSUME Types, Grown
  PROVE  /\ Len(starts) \in Nat /\ Len(starts') \in Nat /\ Len(starts) <= Len(starts')
         /\ starts' \in Seq(Starts)
         /\ \A i \in 1..Len(starts) : i \in 1..Len(starts') /\ starts'[i] = starts[i]
<1>1. starts \in Seq(Starts) /\ Len(starts) \in Nat
  BY DEF Types
<1>2. CASE starts' = starts
  BY <1>1, <1>2
<1>3. CASE starts' # starts
  <2>1. PICK s \in Starts : starts' = Append(starts, s)
    BY <1>3 DEF Grown
  <2> QED BY <1>1, <2>1
<1> QED BY <1>2, <1>3

\* What is known of an observation stays known.
LEMMA KnownKept ==
  ASSUME Types, Grown, NEW r, NEW o, Known(starts, r, o), ProcessAlive(o) => o.start \in Nat
  PROVE  Known(starts', r, o)
<1>1. /\ Len(starts) \in Nat /\ \A i \in 1..Len(starts) : i \in 1..Len(starts') /\ starts'[i] = starts[i]
  BY GrownLog
<1> SUFFICES ASSUME ProcessAlive(o)
             PROVE  /\ o.start \in 1..Len(starts') /\ starts'[o.start].pid = o.pid
                    /\ \/ starts'[o.start].name = r
                       \/ \E j \in 1..(o.start - 1) : starts'[j].pid = starts'[o.start].pid /\ starts'[j].name = r
  BY DEF Known
<1>2. o.start \in 1..Len(starts) /\ starts[o.start].pid = o.pid
  BY DEF Known
<1>3. CASE starts[o.start].name = r
  BY <1>1, <1>2, <1>3
<1>4. CASE \E j \in 1..(o.start - 1) : starts[j].pid = starts[o.start].pid /\ starts[j].name = r
  <2>1. PICK j \in 1..(o.start - 1) : starts[j].pid = starts[o.start].pid /\ starts[j].name = r
    BY <1>4
  <2>2. j \in 1..Len(starts)
    BY <1>1, <1>2, <2>1
  <2>3. starts'[j].pid = starts'[o.start].pid /\ starts'[j].name = r
    BY <1>1, <1>2, <2>1, <2>2
  <2> QED BY <1>1, <1>2, <2>1, <2>3
<1> QED BY <1>3, <1>4 DEF Known

\* The process of a pid whose name the role had is known.
LEMMA ReadKnown ==
  ASSUME Types, ProcInv, NEW r, NEW p \in Pids,
         \E j \in 1..Len(starts) : starts[j].pid = p /\ starts[j].name = r
  PROVE  Known(starts, r, ReadObservation(p))
<1> SUFFICES ASSUME ProcessAlive(ReadObservation(p)) PROVE Known(starts, r, ReadObservation(p))
  BY DEF Known
<1> DEFINE i == procs[p][1].start
<1>1. procs[p] # <<>> /\ ReadObservation(p).start = i /\ ReadObservation(p).pid = p
  BY ProcessType
<1>2. i \in 1..Len(starts) /\ starts[i].pid = p /\ \A j \in 1..Len(starts) : starts[j].pid = p => j <= i
  BY <1>1 DEF ProcInv
<1>3. Len(starts) \in Nat
  BY DEF Types
<1>4. PICK j \in 1..Len(starts) : starts[j].pid = p /\ starts[j].name = r
  OBVIOUS
<1>5. j <= i
  BY <1>2, <1>4
<1> HIDE DEF i
<1>6. j = i \/ j \in 1..(i - 1)
  BY <1>2, <1>3, <1>5
<1> QED BY <1>1, <1>2, <1>4, <1>6 DEF Known

\* A running process of the role is known.
LEMMA NamedKnown ==
  ASSUME Types, ProcInv, NEW r, NEW p \in Pids, Named(p, r)
  PROVE  Known(starts, r, ReadObservation(p))
<1>1. procs[p] # <<>> /\ procs[p][1].name = r
  BY DEF Named
<1>2. procs[p][1].start \in 1..Len(starts) /\ starts[procs[p][1].start].pid = p
      /\ starts[procs[p][1].start].name = r
  BY <1>1 DEF ProcInv
<1> QED BY <1>2, ReadKnown

\* The processes that samples observed have numbers for their starts.
LEMMA SampleType ==
  ASSUME Types
  PROVE  /\ previous # <<>> => previous[1] \in Samples
         /\ \A o \in Samples : \A r \in Roles : o.proc[r] \in Observations /\ o.proc[r].start \in Nat
<1>1. previous # <<>> => previous[1] \in Samples
  BY DEF Types
<1>2. \A o \in Samples : \A r \in Roles : o.proc[r] \in Observations
  BY DEF Samples
<1> QED BY <1>1, <1>2 DEF Observations

-----------------------------------------------------------------------------
(* The system.                                                             *)

\* A change of the system leaves what the daemon knows true, and starts the
\* count of quiet samples anew.
LEMMA EventKeeps ==
  ASSUME IInv, Event, DaemonUnchanged, Grown
  PROVE  KnownInv' /\ WindowInv' /\ QuietInv' /\ StableMeansWindow'
<1>1. /\ pc \notin Ended /\ lastEvent' = samples
      /\ UNCHANGED <<pc, bootElapsed, policy, elapsed, stable, cached, cachedOk, draft, previous>>
      /\ samples' = samples /\ unready' = unready
  BY DEF Event, DaemonUnchanged, history
<1>2. Types
  BY DEF IInv
<1>3. Len(starts) \in Nat /\ \A i \in 1..Len(starts) : i \in 1..Len(starts') /\ starts'[i] = starts[i]
  BY <1>2, GrownLog
<1>4. KnownInv'
  <2> SUFFICES ASSUME NEW r \in Roles
               PROVE  /\ cached[r] # NoPid =>
                           \E j \in 1..Len(starts') : starts'[j].pid = cached[r] /\ starts'[j].name = r
                      /\ pc # "stable" => Known(starts', r, draft.proc[r])
                      /\ previous # <<>> => Known(starts', r, previous[1].proc[r])
    BY <1>1 DEF KnownInv
  <2>1. /\ cached[r] # NoPid => \E j \in 1..Len(starts) : starts[j].pid = cached[r] /\ starts[j].name = r
        /\ pc # "stable" => Known(starts, r, draft.proc[r])
        /\ previous # <<>> => Known(starts, r, previous[1].proc[r])
    BY DEF IInv, KnownInv
  <2>2. draft.proc[r].start \in Nat /\ (previous # <<>> => previous[1].proc[r].start \in Nat)
    BY <1>2, SampleType DEF Types
  <2>3. cached[r] # NoPid => \E j \in 1..Len(starts') : starts'[j].pid = cached[r] /\ starts'[j].name = r
    BY <1>3, <2>1
  <2> QED BY <1>2, <2>1, <2>2, <2>3, KnownKept
<1>5. Judged' = Judged
  BY <1>1 DEF Judged
<1>6. ASSUME NEW k, previous # <<>>, Span(k) PROVE Span(k)'
  <2>1. ASSUME NEW r \in Roles, ProcessAlive(previous[1].proc[r])
        PROVE  starts'[previous[1].proc[r].start].at <= Judged - k
    <3>1. previous[1].proc[r].start \in 1..Len(starts)
      BY <1>6, <2>1 DEF IInv, KnownInv, Known
    <3>2. starts[previous[1].proc[r].start].at <= Judged - k
      BY <1>6, <2>1 DEF Span
    <3> QED BY <1>3, <3>1, <3>2
  <2>2. stable <= k * policy.poll /\ (pc # "scan" \/ draft.ready => unready <= Judged - k)
    BY <1>6 DEF Span
  <2> QED BY <1>1, <1>5, <2>1, <2>2 DEF Span
<1>7. WindowInv'
  <2>1. /\ pc = "scan" => samples > 0
        /\ pc \notin {"stable"} => stable < policy.stable
        /\ previous = <<>> => stable = 0
        /\ previous # <<>> => \E k \in 0..Judged : Span(k)
    BY <1>1 DEF IInv, WindowInv
  <2>2. previous # <<>> => \E k \in 0..Judged : Span(k)'
    BY <1>6, <2>1
  <2> QED BY <1>1, <1>5, <2>1, <2>2 DEF WindowInv
<1>8. QuietInv'
  <2>1. samples \in Nat /\ Judged' <= samples
    BY <1>1, <1>2, <1>5 DEF Types, Judged
  <2>2. ~(samples' > lastEvent') /\ ~(Judged' > lastEvent')
    <3>1. Judged' \in Int
      BY <1>1, <1>2 DEF Judged, Types
    <3> QED BY <1>1, <2>1, <3>1
  <2> QED BY <2>2 DEF QuietInv
<1>9. StableMeansWindow'
  BY <1>1 DEF StableMeansWindow, Ended
<1> QED BY <1>4, <1>7, <1>8, <1>9

\* The types that a change of the system cannot disturb.
LEMMA EventTypes ==
  ASSUME Types, Event, DaemonUnchanged, Grown, ready' \in BOOLEAN, procs' \in [Pids -> Seq(Processes)]
  PROVE  Types'
<1>1. /\ lastEvent' = samples
      /\ UNCHANGED <<pc, bootElapsed, policy, elapsed, stable, cached, cachedOk, draft, previous>>
      /\ samples' = samples /\ unready' = unready
  BY DEF Event, DaemonUnchanged, history
<1>2. starts' \in Seq(Starts)
  BY GrownLog
<1> QED BY <1>1, <1>2 DEF Types

\* A process that ends or works stays the process it is.
LEMMA ChangeKeeps ==
  ASSUME Types, ProcInv, LiveInv, NEW p \in Pids, procs[p] # <<>>, NEW x \in Processes,
         x.name = procs[p][1].name, x.start = procs[p][1].start,
         x.state = "S" => procs[p][1].state = "S",
         procs' = [procs EXCEPT ![p] = <<x>>], starts' = starts, samples' = samples
  PROVE  procs' \in [Pids -> Seq(Processes)] /\ ProcInv' /\ LiveInv'
<1>1. procs'[p] = <<x>> /\ procs'[p][1] = x /\ \A q \in Pids : q # p => procs'[q] = procs[q]
  BY DEF Types
<1>2. procs' \in [Pids -> Seq(Processes)]
  <2>1. <<x>> \in Seq(Processes) /\ procs \in [Pids -> Seq(Processes)]
    BY DEF Types
  <2> QED BY <2>1
<1>3. ASSUME NEW q \in Pids, procs'[q] # <<>>
      PROVE  /\ procs[q] # <<>> /\ procs'[q][1].name = procs[q][1].name
             /\ procs'[q][1].start = procs[q][1].start
             /\ procs'[q][1].state = "S" => procs[q][1].state = "S"
  BY <1>1, <1>3
<1>4. ProcInv'
  BY <1>3 DEF ProcInv
<1>5. LiveInv'
  BY <1>3 DEF LiveInv, Named
<1> QED BY <1>2, <1>4, <1>5

\* Ending and working.
LEMMA EndsOrWorks ==
  ASSUME IInv, NEW p \in Pids, ProcessEnds(p) \/ \E ticks \in Bursts : ProcessWorks(p, ticks)
  PROVE  IInv'
<1>1. /\ procs[p] # <<>> /\ Event /\ DaemonUnchanged
      /\ ready' = ready /\ starts' = starts
  BY DEF ProcessEnds, ProcessWorks
<1>2. procs[p][1] \in Processes
  BY <1>1, ProcessType DEF IInv
<1>3. PICK x \in Processes : /\ x.name = procs[p][1].name /\ x.start = procs[p][1].start
                             /\ x.state = "S" => procs[p][1].state = "S"
                             /\ procs' = [procs EXCEPT ![p] = <<x>>]
  <2>1. CASE ProcessEnds(p)
    <3> DEFINE x == [procs[p][1] EXCEPT !.state = "Z"]
    <3>1. x \in Processes /\ x.name = procs[p][1].name /\ x.start = procs[p][1].start /\ x.state # "S"
      BY <1>2 DEF Processes
    <3>2. procs' = [procs EXCEPT ![p] = <<x>>]
      BY <2>1 DEF ProcessEnds
    <3> HIDE DEF x
    <3> QED BY <3>1, <3>2
  <2>2. ASSUME NEW ticks \in Bursts, ProcessWorks(p, ticks)
        PROVE  \E x \in Processes : /\ x.name = procs[p][1].name /\ x.start = procs[p][1].start
                                    /\ x.state = "S" => procs[p][1].state = "S"
                                    /\ procs' = [procs EXCEPT ![p] = <<x>>]
    <3> DEFINE x == [procs[p][1] EXCEPT !.cpu = @ + ticks]
    <3>1. x \in Processes /\ x.name = procs[p][1].name /\ x.start = procs[p][1].start
          /\ x.state = procs[p][1].state
      BY <1>2, BurstAssumption DEF Processes
    <3>2. procs' = [procs EXCEPT ![p] = <<x>>]
      BY <2>2 DEF ProcessWorks
    <3> HIDE DEF x
    <3> QED BY <3>1, <3>2
  <2> QED BY <2>1, <2>2
<1>4. samples' = samples /\ Grown
  BY <1>1 DEF DaemonUnchanged, history, Grown
<1>5. procs' \in [Pids -> Seq(Processes)] /\ ProcInv' /\ LiveInv'
  BY <1>1, <1>3, <1>4, ChangeKeeps DEF IInv
<1>6. Types'
  <2>1. ready' \in BOOLEAN
    BY <1>1 DEF IInv, Types
  <2> QED BY <1>1, <1>4, <1>5, <2>1, EventTypes DEF IInv
<1> QED BY <1>1, <1>4, <1>5, <1>6, EventKeeps DEF IInv

\* A zombie is reaped.
LEMMA Reaped ==
  ASSUME IInv, NEW p \in Pids, ProcessReaped(p)
  PROVE  IInv'
<1>1. Event /\ DaemonUnchanged /\ ready' = ready /\ starts' = starts /\ procs' = [procs EXCEPT ![p] = <<>>]
  BY DEF ProcessReaped
<1>2. samples' = samples /\ Grown
  BY <1>1 DEF DaemonUnchanged, history, Grown
<1>3. procs'[p] = <<>> /\ \A q \in Pids : q # p => procs'[q] = procs[q]
  BY <1>1 DEF IInv, Types
<1>4. procs' \in [Pids -> Seq(Processes)]
  <2>1. <<>> \in Seq(Processes) /\ procs \in [Pids -> Seq(Processes)]
    BY DEF IInv, Types
  <2> QED BY <1>1, <2>1
<1>5. \A q \in Pids : procs'[q] # <<>> => procs'[q] = procs[q]
  BY <1>3
<1>6. ProcInv'
  BY <1>1, <1>2, <1>5 DEF IInv, ProcInv
<1>7. LiveInv'
  BY <1>5 DEF IInv, LiveInv, Named
<1>8. Types'
  <2>1. ready' \in BOOLEAN
    BY <1>1 DEF IInv, Types
  <2> QED BY <1>1, <1>2, <1>4, <2>1, EventTypes DEF IInv
<1> QED BY <1>1, <1>2, <1>6, <1>7, <1>8, EventKeeps DEF IInv

\* A process starts under a free pid.
LEMMA Started ==
  ASSUME IInv, NEW p \in Pids, NEW name \in Names, ProcessStarts(p, name)
  PROVE  IInv'
<1> DEFINE n == Len(starts) + 1
           x == Process(name, n)
           s == [name |-> name, pid |-> p, at |-> samples]
<1>1. /\ Event /\ DaemonUnchanged /\ ready' = ready
      /\ name \in Roles => \A q \in Pids : Named(q, name) => procs[q][1].state = "Z"
      /\ procs' = [procs EXCEPT ![p] = <<x>>] /\ starts' = Append(starts, s)
  BY DEF ProcessStarts
<1>2. samples' = samples /\ samples \in Nat /\ starts \in Seq(Starts) /\ Len(starts) \in Nat
  BY <1>1 DEF DaemonUnchanged, history, IInv, Types
<1>3. n \in Nat \ {0} /\ x \in Processes /\ x.name = name /\ x.start = n /\ s \in Starts
      /\ s.pid = p /\ s.name = name /\ s.at = samples
  BY <1>2 DEF Process, Processes, Starts
<1>4. Grown
  BY <1>1, <1>3 DEF Grown
<1>5. /\ Len(starts') = n /\ starts'[n] = s
      /\ \A i \in 1..Len(starts) : starts'[i] = starts[i]
  BY <1>1, <1>2, <1>3
<1>6. procs'[p] = <<x>> /\ procs'[p][1] = x /\ \A q \in Pids : q # p => procs'[q] = procs[q]
  BY <1>1 DEF IInv, Types
<1>7. procs' \in [Pids -> Seq(Processes)]
  <2>1. <<x>> \in Seq(Processes) /\ procs \in [Pids -> Seq(Processes)]
    BY <1>3 DEF IInv, Types
  <2> QED BY <1>1, <2>1
<1> HIDE DEF n, x, s
<1>8. ProcInv'
  <2>1. ASSUME NEW i \in 1..Len(starts') PROVE starts'[i].at <= samples'
    <3>1. CASE i = n
      BY <1>2, <1>3, <1>5, <3>1
    <3>2. CASE i # n
      <4>1. i \in 1..Len(starts)
        BY <1>2, <1>5, <3>2 DEF n
      <4> QED BY <1>2, <1>5, <4>1 DEF IInv, ProcInv
    <3> QED BY <3>1, <3>2
  <2>2. ASSUME NEW q \in Pids, procs'[q] # <<>>
        PROVE  LET i == procs'[q][1].start
               IN  /\ i \in 1..Len(starts') /\ starts'[i].pid = q /\ starts'[i].name = procs'[q][1].name
                   /\ \A j \in 1..Len(starts') : starts'[j].pid = q => j <= i
    <3>1. CASE q = p
      BY <1>3, <1>5, <1>6, <3>1
    <3>2. CASE q # p
      <4> DEFINE i == procs[q][1].start
      <4>1. procs'[q] = procs[q]
        BY <1>6, <3>2
      <4>2. /\ i \in 1..Len(starts) /\ starts[i].pid = q /\ starts[i].name = procs[q][1].name
            /\ \A j \in 1..Len(starts) : starts[j].pid = q => j <= i
        BY <2>2, <4>1 DEF IInv, ProcInv
      <4>3. ASSUME NEW j \in 1..Len(starts'), starts'[j].pid = q PROVE j \in 1..Len(starts) /\ starts[j].pid = q
        <5>1. j # n
          BY <1>3, <1>5, <3>2, <4>3
        <5>2. j \in 1..Len(starts)
          BY <1>2, <1>5, <5>1 DEF n
        <5> QED BY <1>5, <4>3, <5>2
      <4>4. i \in 1..Len(starts') /\ starts'[i] = starts[i]
        BY <1>2, <1>5, <4>2 DEF n
      <4> HIDE DEF i
      <4>5. /\ i \in 1..Len(starts') /\ starts'[i].pid = q /\ starts'[i].name = procs[q][1].name
            /\ \A j \in 1..Len(starts') : starts'[j].pid = q => j <= i
        BY <4>2, <4>3, <4>4
      <4> QED BY <4>1, <4>5 DEF i
    <3> QED BY <3>1, <3>2
  <2> QED BY <2>1, <2>2 DEF ProcInv
<1>9. LiveInv'
  <2> SUFFICES ASSUME NEW r \in Roles, NEW a \in Pids, NEW b \in Pids, Named(a, r)', Named(b, r)',
                      procs'[a][1].state = "S", procs'[b][1].state = "S"
               PROVE  a = b
    BY DEF LiveInv
  <2>1. CASE a # p /\ b # p
    BY <1>6, <2>1 DEF IInv, LiveInv, Named
  <2>2. ASSUME NEW q \in Pids, q # p, Named(q, r)', procs'[q][1].state = "S" PROVE name # r
    <3>1. Named(q, r) /\ procs[q][1].state = "S"
      BY <1>6, <2>2 DEF Named
    <3> QED BY <1>1, <3>1
  <2>3. Named(p, r)' => name = r
    BY <1>3, <1>6 DEF Named
  <2> QED BY <2>1, <2>2, <2>3
<1>10. Types'
  <2>1. ready' \in BOOLEAN
    BY <1>1 DEF IInv, Types
  <2> QED BY <1>1, <1>4, <1>7, <2>1, EventTypes DEF IInv
<1> QED BY <1>1, <1>4, <1>8, <1>9, <1>10, EventKeeps DEF IInv

\* The properties change.
LEMMA PropertiesKeep ==
  ASSUME IInv, PropertiesChange
  PROVE  IInv'
<1>1. Event /\ DaemonUnchanged /\ ready' = ~ready /\ procs' = procs /\ starts' = starts
  BY DEF PropertiesChange
<1>2. samples' = samples /\ Grown
  BY <1>1 DEF DaemonUnchanged, history, Grown
<1>3. ProcInv' /\ LiveInv'
  BY <1>1, <1>2 DEF IInv, ProcInv, LiveInv, Named
<1>4. Types'
  <2>1. ready' \in BOOLEAN /\ procs' \in [Pids -> Seq(Processes)]
    BY <1>1 DEF IInv, Types
  <2> QED BY <1>1, <1>2, <2>1, EventTypes DEF IInv
<1> QED BY <1>1, <1>2, <1>3, <1>4, EventKeeps DEF IInv

-----------------------------------------------------------------------------
(* The daemon.                                                             *)

SeenUnchanged ==
  UNCHANGED <<ready, procs, starts, lastEvent, samples, unready, policy, stable, cached, cachedOk,
              draft, previous>>

\* Waiting, sleeping and giving up change neither what was seen nor the system.
LEMMA WaitKeeps ==
  ASSUME IInv, SeenUnchanged,
         pc' = pc \/ (pc \notin {"scan"} \cup Ended /\ pc' \notin {"scan", "stable"})
  PROVE  IInv'
<1> USE DEF SeenUnchanged
<1>1. Types' /\ ProcInv' /\ LiveInv'
  BY DEF IInv, Types, ProcInv, LiveInv, Named
<1>2. /\ pc = "scan" <=> pc' = "scan"
      /\ pc = "stable" <=> pc' = "stable"
      /\ pc' \notin Ended => pc \notin Ended
  BY DEF Ended
<1>3. Judged' = Judged
  BY <1>2 DEF Judged
<1>4. KnownInv'
  BY <1>2 DEF IInv, KnownInv
<1>5. \A k : Span(k) => Span(k)'
  BY <1>2, <1>3 DEF Span
<1>6. WindowInv'
  <2>1. /\ pc = "scan" => samples > 0
        /\ pc \notin {"stable"} => stable < policy.stable
        /\ previous = <<>> => stable = 0
        /\ pc \notin Ended /\ previous # <<>> => \E k \in 0..Judged : Span(k)
    BY DEF IInv, WindowInv
  <2>2. pc' \notin Ended /\ previous # <<>> => \E k \in 0..Judged : Span(k)'
    BY <1>2, <1>5, <2>1
  <2> QED BY <1>2, <1>3, <2>1, <2>2 DEF WindowInv
<1>7. Settled' = Settled /\ Exact(previous[1])' = Exact(previous[1])
  BY DEF Settled, Exact, Named, ReadObservation
<1>8. QuietInv'
  <2>1. pc = "scan" /\ samples > lastEvent =>
          /\ draft.ready = ready
          /\ \A r \in Roles : cachedOk[r] => Named(cached[r], r) /\ cached[r] \in Pids
                                             /\ draft.proc[r] = ReadObservation(cached[r])
    BY DEF IInv, QuietInv
  <2>2. pc # "stable" /\ Settled /\ Judged > lastEvent =>
          /\ previous # <<>> /\ Exact(previous[1])
          /\ (Judged - lastEvent - 1) * policy.poll <= stable
    BY DEF IInv, QuietInv
  <2>3. \A p : ReadObservation(p)' = ReadObservation(p) /\ \A r : Named(p, r)' = Named(p, r)
    BY DEF ReadObservation, Named
  <2>4. pc' = "scan" /\ samples' > lastEvent' =>
          /\ draft'.ready = ready'
          /\ \A r \in Roles : cachedOk'[r] => Named(cached[r], r)' /\ cached'[r] \in Pids
                                              /\ draft'.proc[r] = ReadObservation(cached[r])'
    BY <1>2, <2>1 DEF ReadObservation, Named
  <2> QED BY <1>2, <1>3, <1>7, <2>2, <2>4 DEF QuietInv
<1>9. StableMeansWindow'
  BY <1>2 DEF IInv, StableMeansWindow, Window, PidReused
<1> QED BY <1>1, <1>4, <1>6, <1>8, <1>9 DEF IInv

\* The first half of a sample.
LEMMA SampleKeeps ==
  ASSUME IInv, SampleCached
  PROVE  IInv'
<1>0. Types /\ ProcInv /\ KnownInv
  BY DEF IInv
<1>1. /\ pc = "sample" /\ pc' = "scan" /\ samples' = samples + 1
      /\ draft' = [EmptyDraft EXCEPT !.ready = ready,
                                     !.proc = [r \in Roles |-> ReadObservation(cached[r])]]
      /\ cachedOk' = [r \in Roles |-> /\ ProcessAlive(ReadObservation(cached[r]))
                                      /\ Named(cached[r], r)]
      /\ unready' = (IF ready THEN unready ELSE samples + 1)
      /\ UNCHANGED <<bootElapsed, policy, elapsed, stable, cached, previous>>
  BY DEF SampleCached
<1>2. UNCHANGED <<ready, procs, starts, lastEvent>>
  BY DEF SampleCached, SystemUnchanged, system
<1>3. samples \in Nat /\ lastEvent \in 0..samples /\ unready \in 0..samples
  BY DEF IInv, Types
<1>4. \A r \in Roles : ReadObservation(cached[r]) \in Observations
  <2> SUFFICES ASSUME NEW r \in Roles PROVE ReadObservation(cached[r]) \in Observations
    OBVIOUS
  <2>1. cached[r] \in Pids \/ cached[r] = NoPid
    BY DEF IInv, Types
  <2>2. NoObservation \in Observations
    BY DEF NoObservation, Observations, NoPid
  <2>3. cached[r] \notin Pids => ReadObservation(cached[r]) = NoObservation
    BY DEF ReadObservation
  <2> QED BY <1>0, <2>1, <2>2, <2>3, ProcessType
<1>5. draft' \in Samples /\ draft'.ready = ready
      /\ \A r \in Roles : draft'.proc[r] = ReadObservation(cached[r])
  BY <1>0, <1>1, <1>4 DEF EmptyDraft, Samples, Types
<1>6. Types'
  <2>1. cachedOk' \in [Roles -> BOOLEAN]
    BY <1>1 DEF ProcessAlive, Named
  <2>2. unready' \in 0..samples' /\ lastEvent' \in 0..samples' /\ samples' \in Nat
    BY <1>1, <1>2, <1>3
  <2> QED BY <1>0, <1>1, <1>2, <1>5, <2>1, <2>2 DEF Types
<1>7. ProcInv'
  <2>1. ASSUME NEW i \in 1..Len(starts) PROVE starts[i].at <= samples'
    <3>1. starts[i] \in Starts
      BY <1>0 DEF Types
    <3>2. starts[i].at <= samples /\ starts[i].at \in Nat
      BY <1>0, <3>1 DEF ProcInv, Starts
    <3> QED BY <1>1, <1>3, <3>2
  <2> QED BY <1>0, <1>2, <2>1 DEF ProcInv
<1>8. LiveInv'
  BY <1>2 DEF IInv, LiveInv, Named
<1>9. KnownInv'
  <2> SUFFICES ASSUME NEW r \in Roles
               PROVE  /\ cached[r] # NoPid =>
                           \E j \in 1..Len(starts) : starts[j].pid = cached[r] /\ starts[j].name = r
                      /\ Known(starts, r, draft'.proc[r])
                      /\ previous # <<>> => Known(starts, r, previous[1].proc[r])
    BY <1>1, <1>2 DEF KnownInv
  <2>1. CASE cached[r] = NoPid
    <3>1. ReadObservation(cached[r]) = NoObservation
      BY <2>1, PidAssumption DEF ReadObservation, NoPid
    <3>2. Known(starts, r, draft'.proc[r])
      BY <1>5, <3>1 DEF Known, ProcessAlive, NoObservation
    <3> QED BY <1>0, <2>1, <3>2 DEF KnownInv
  <2>2. CASE cached[r] # NoPid
    <3>1. cached[r] \in Pids /\ \E j \in 1..Len(starts) : starts[j].pid = cached[r] /\ starts[j].name = r
      BY <1>0, <2>2 DEF KnownInv, Types
    <3>2. Known(starts, r, ReadObservation(cached[r]))
      BY <1>0, <3>1, ReadKnown
    <3> QED BY <1>0, <1>5, <3>1, <3>2 DEF KnownInv
  <2> QED BY <2>1, <2>2
<1>10. Judged = samples /\ Judged' = samples
  BY <1>1, <1>3 DEF Judged
<1>11. WindowInv'
  <2>1. /\ stable < policy.stable /\ (previous = <<>> => stable = 0)
        /\ previous # <<>> => \E k \in 0..Judged : Span(k)
    BY <1>1 DEF IInv, WindowInv, Ended
  <2>2. ASSUME NEW k, Span(k) PROVE Span(k)'
    <3>1. /\ stable <= k * policy.poll /\ unready <= Judged - k
          /\ \A r \in Roles : ProcessAlive(previous[1].proc[r]) =>
               starts[previous[1].proc[r].start].at <= Judged - k
      BY <1>1, <2>2 DEF Span
    <3>2. draft'.ready => unready' <= Judged' - k
      BY <1>1, <1>5, <1>10, <3>1
    <3> QED BY <1>1, <1>2, <1>10, <3>1, <3>2 DEF Span
  <2>3. samples' > 0
    BY <1>1, <1>3
  <2>4. previous # <<>> => \E k \in 0..Judged' : Span(k)'
    BY <1>10, <2>1, <2>2
  <2> QED BY <1>1, <2>1, <2>3, <2>4 DEF WindowInv
<1>12. QuietInv'
  <2>1. \A r \in Roles : cachedOk'[r] => /\ Named(cached[r], r) /\ cached[r] \in Pids
                                         /\ draft'.proc[r] = ReadObservation(cached[r])
    <3> SUFFICES ASSUME NEW r \in Roles, cachedOk'[r]
                 PROVE  Named(cached[r], r) /\ cached[r] \in Pids
      BY <1>5
    <3>1. ProcessAlive(ReadObservation(cached[r])) /\ Named(cached[r], r)
      BY <1>1
    <3>2. cached[r] \in Pids
      BY <3>1 DEF ReadObservation, NoObservation, ProcessAlive
    <3> QED BY <3>1, <3>2
  <2>2. Settled /\ samples > lastEvent =>
          /\ previous # <<>> /\ Exact(previous[1])
          /\ (samples - lastEvent - 1) * policy.poll <= stable
    BY <1>1, <1>10 DEF IInv, QuietInv
  <2>3. Settled' = Settled /\ Exact(previous[1])' = Exact(previous[1])
    BY <1>1, <1>2 DEF Settled, Exact, Named, ReadObservation
  <2>4. \A r \in Roles : cachedOk'[r] => /\ Named(cached[r], r)' /\ cached'[r] \in Pids
                                         /\ draft'.proc[r] = ReadObservation(cached[r])'
    BY <1>1, <1>2, <2>1 DEF Named, ReadObservation
  <2> QED BY <1>1, <1>2, <1>5, <1>10, <2>2, <2>3, <2>4 DEF QuietInv
<1>13. StableMeansWindow'
  BY <1>1 DEF StableMeansWindow
<1> QED BY <1>6, <1>7, <1>8, <1>9, <1>11, <1>12, <1>13 DEF IInv

\* A sample that is judged: a quiet one widens the window by one sample, and
\* the gate opens when the window is full.
LEMMA JudgeEffect ==
  ASSUME IInv, pc = "scan", NEW o \in Samples, o.ready = draft.ready, Judge(o),
         \A r \in Roles : Known(starts, r, o.proc[r]),
         samples' = samples, unready' = unready, starts' = starts, policy' = policy
  PROVE  /\ stable' \in Nat /\ draft' = o /\ previous' \in Seq(Samples)
         /\ pc' \in {"stable", "sleep"}
         /\ pc' = "sleep" => previous' = <<o>>
         /\ previous' # <<>> => \A r \in Roles : Known(starts, r, previous'[1].proc[r])
         /\ WindowInv' /\ StableMeansWindow'
         /\ pc' = "sleep" /\ previous # <<>> /\ ObservationsQuiet(previous[1], o) =>
              stable' = stable + policy.poll
<1> DEFINE quiet == previous # <<>> /\ ObservationsQuiet(previous[1], o)
           window == IF quiet THEN Min({policy.stable, stable + policy.poll}) ELSE 0
<1>0. /\ samples \in Nat \ {0} /\ unready \in 0..samples /\ stable \in Nat
      /\ policy.poll \in Nat \ {0} /\ policy.stable \in Nat \ {0} /\ previous \in Seq(Samples)
      /\ Len(starts) \in Nat
  BY DEF IInv, Types, WindowInv
<1>1. /\ stable' = window /\ draft' = o
      /\ IF window >= policy.stable THEN pc' = "stable" /\ previous' = previous
                                    ELSE pc' = "sleep" /\ previous' = <<o>>
  BY DEF Judge
<1>2. window = IF quiet THEN (IF policy.stable <= stable + policy.poll THEN policy.stable
                                                                      ELSE stable + policy.poll)
               ELSE 0
  <2>1. stable + policy.poll \in Nat
    BY <1>0
  <2> QED BY <1>0, <2>1, SmallerOfTwo
<1> HIDE DEF window, quiet
<1>3. window \in Nat
  BY <1>0, <1>2
<1>4. previous' \in Seq(Samples) /\ pc' \in {"stable", "sleep"} /\ (pc' = "sleep" => previous' = <<o>>)
      /\ (pc' = "stable" <=> window >= policy.stable)
  <2>1. CASE window >= policy.stable
    BY <1>0, <1>1, <2>1
  <2>2. CASE ~(window >= policy.stable)
    <3>1. pc' = "sleep" /\ previous' = <<o>>
      BY <1>1, <2>2
    <3>2. <<o>> \in Seq(Samples)
      OBVIOUS
    <3> QED BY <2>2, <3>1, <3>2
  <2> QED BY <2>1, <2>2
<1>5. previous' # <<>> => \A r \in Roles : Known(starts, r, previous'[1].proc[r])
  <2>1. CASE pc' = "sleep"
    BY <1>4, <2>1
  <2>2. CASE pc' = "stable"
    BY <1>1, <1>4, <2>2 DEF IInv, KnownInv
  <2> QED BY <1>4, <2>1, <2>2
<1>6. \E k \in 0..samples :
        /\ window <= k * policy.poll
        /\ unready <= samples - k
        /\ \A r \in Roles : ProcessAlive(o.proc[r]) => starts[o.proc[r].start].at <= samples - k
  <2>1. CASE quiet
    <3>1. previous # <<>> /\ ObservationsQuiet(previous[1], o)
      BY <2>1 DEF quiet
    <3>2. Judged = samples - 1
      BY DEF Judged
    <3>3. PICK k \in 0..(samples - 1) : Span(k)
      BY <3>1, <3>2 DEF IInv, WindowInv, Ended
    <3>4. o.ready /\ \A r \in Roles : /\ ProcessAlive(o.proc[r]) /\ ProcessAlive(previous[1].proc[r])
                                      /\ previous[1].proc[r].start = o.proc[r].start
      BY <3>1 DEF ObservationsQuiet, BaseServicesReady
    <3>5. /\ stable <= k * policy.poll /\ unready <= samples - 1 - k
          /\ \A r \in Roles : starts[o.proc[r].start].at <= samples - 1 - k
      BY <3>2, <3>3, <3>4 DEF Span
    <3>6. (k + 1) * policy.poll = k * policy.poll + policy.poll /\ k * policy.poll \in Nat
      BY <1>0, OneMore
    <3>7. window <= (k + 1) * policy.poll
      BY <1>0, <1>2, <3>5, <3>6
    <3>8. k + 1 \in 0..samples /\ samples - 1 - k = samples - (k + 1)
      BY <1>0
    <3> QED BY <3>5, <3>7, <3>8
  <2>2. CASE ~quiet
    <3>1. window = 0 /\ 0 * policy.poll = 0
      BY <1>0, <1>2, <2>2, OneMore
    <3>2. \A r \in Roles : ProcessAlive(o.proc[r]) => starts[o.proc[r].start].at <= samples
      BY DEF Known, IInv, ProcInv
    <3>3. samples - 0 = samples /\ 0 \in 0..samples
      BY <1>0
    <3> QED BY <1>0, <3>1, <3>2, <3>3
  <2> QED BY <2>1, <2>2
<1>7. PICK k \in 0..samples :
        /\ window <= k * policy.poll
        /\ unready <= samples - k
        /\ \A r \in Roles : ProcessAlive(o.proc[r]) => starts[o.proc[r].start].at <= samples - k
  BY <1>6
<1>8. Judged' = samples
  BY <1>4 DEF Judged
<1>9. WindowInv'
  <2>1. CASE pc' = "sleep"
    <3>1. previous' = <<o>> /\ previous'[1] = o /\ previous' # <<>>
      BY <1>4, <2>1
    <3>2. Span(k)'
      BY <1>1, <1>7, <1>8, <2>1, <3>1 DEF Span
    <3>3. stable' < policy'.stable
      BY <1>0, <1>1, <1>3, <1>4, <2>1
    <3> QED BY <1>8, <2>1, <3>1, <3>2, <3>3 DEF WindowInv
  <2>2. CASE pc' = "stable"
    <3>1. quiet
      BY <1>0, <1>2, <1>4, <2>2
    <3>2. previous' # <<>>
      BY <1>1, <1>4, <2>2, <3>1 DEF quiet
    <3> QED BY <2>2, <3>2 DEF WindowInv, Ended
  <2> QED BY <1>4, <2>1, <2>2
<1>10. StableMeansWindow'
  <2> SUFFICES ASSUME pc' = "stable" PROVE StableMeansWindow'
    BY DEF StableMeansWindow
  <2>1. quiet
    BY <1>0, <1>2, <1>4
  <2>2. policy.stable <= k * policy.poll
    <3>1. k * policy.poll \in Nat
      BY <1>0, OneMore
    <3>2. policy.stable <= window /\ window <= k * policy.poll
      BY <1>0, <1>3, <1>4, <1>7
    <3> DEFINE polled == k * policy.poll
    <3> HIDE DEF polled
    <3>3. polled \in Nat /\ policy.stable <= window /\ window <= polled
      BY <3>1, <3>2 DEF polled
    <3>4. policy.stable <= polled
      BY <1>0, <1>3, <3>3
    <3> QED BY <3>4 DEF polled
  <2>3. Window \in Nat /\ Window <= k
    <3>1. k \in Nat
      BY <1>0
    <3>2. /\ (policy.stable + policy.poll - 1) \div policy.poll \in Nat
          /\ policy.stable <= k * policy.poll => (policy.stable + policy.poll - 1) \div policy.poll <= k
      BY <1>0, <3>1, WindowSamples
    <3> QED BY <2>2, <3>2 DEF Window
  <2>4. samples - k <= samples - Window
    BY <1>0, <2>3
  <2>5. \A r \in Roles : ProcessAlive(o.proc[r])
    BY <2>1 DEF quiet, ObservationsQuiet, BaseServicesReady
  <2>6. ASSUME NEW r \in Roles
        PROVE  /\ o.proc[r].start \in 1..Len(starts)
               /\ starts[o.proc[r].start].at <= samples - Window
               /\ \/ starts[o.proc[r].start].name = r
                  \/ \E j \in 1..(o.proc[r].start - 1) :
                       starts[j].pid = starts[o.proc[r].start].pid /\ starts[j].name = r
    <3>1. /\ o.proc[r].start \in 1..Len(starts)
          /\ \/ starts[o.proc[r].start].name = r
             \/ \E j \in 1..(o.proc[r].start - 1) :
                  starts[j].pid = starts[o.proc[r].start].pid /\ starts[j].name = r
      BY <2>5 DEF Known
    <3>2. starts[o.proc[r].start].at <= samples - k /\ starts[o.proc[r].start].at \in Nat
      <4>1. starts[o.proc[r].start] \in Starts
        BY <3>1 DEF IInv, Types
      <4> QED BY <1>7, <2>5, <4>1 DEF Starts
    <3> QED BY <1>0, <2>3, <2>4, <3>1, <3>2
  <2>7. unready <= samples - Window
    BY <1>0, <1>7, <2>3, <2>4
  <2>8. Window' = Window
    BY DEF Window
  <2> QED BY <1>1, <2>6, <2>7, <2>8 DEF StableMeansWindow, PidReused
<1>11. pc' = "sleep" /\ quiet => stable' = stable + policy.poll
  BY <1>0, <1>1, <1>2, <1>3, <1>4
<1> QED BY <1>1, <1>3, <1>4, <1>5, <1>9, <1>10, <1>11 DEF quiet

\* The CPU time that a quiet process may use.
LEMMA TicksAllowed ==
  ASSUME Types
  PROVE  0 \in 0..AllowedTicks
<1> DEFINE product == policy.permille * policy.poll * TicksPerSecond
<1>1. product \in Nat
  <2>1. policy.permille \in Nat /\ policy.poll \in Nat
    BY DEF Types
  <2>2. policy.permille * policy.poll \in Nat
    BY <2>1, OneMore
  <2>3. TicksPerSecond \in Nat
    BY DEF TicksPerSecond
  <2> QED BY <2>2, <2>3, OneMore
<1> HIDE DEF product
<1>2. product \div 1000000 + 1 \in Nat
  BY <1>1
<1> QED BY <1>2 DEF AllowedTicks, product

\* Processes can be counted.
LEMMA CountType ==
  ASSUME NEW S \in SUBSET Pids
  PROVE  Cardinality(S) \in Nat /\ (S # {} => Cardinality(S) # 0)
<1>1. IsFiniteSet(2..PidMax)
  BY PidAssumption, FS_Interval
<1>2. S \in SUBSET (2..PidMax)
  BY PidAssumption
<1>3. IsFiniteSet(S)
  BY <1>1, <1>2, FS_Subset
<1> QED BY <1>3, FS_CardinalityType, FS_EmptySet

\* The second half of a sample finds no directory of processes.
LEMMA ScanFailsKeeps ==
  ASSUME IInv, ScanFails
  PROVE  IInv'
<1> DEFINE o == [draft EXCEPT !.proc = EmptyDraft.proc, !.count = 0]
<1>0. Types
  BY DEF IInv
<1>1. /\ pc = "scan" /\ Event /\ Judge(o)
      /\ cachedOk' = [r \in Roles |-> FALSE]
      /\ UNCHANGED <<system, bootElapsed, policy, elapsed, cached, history>>
  BY DEF ScanFails
<1>2. UNCHANGED <<ready, procs, starts, policy, cached, samples, unready>> /\ lastEvent' = samples
  BY <1>1 DEF system, history, Event
<1>3. o \in Samples /\ o.ready = draft.ready /\ \A r \in Roles : o.proc[r] = NoObservation
  <2>1. NoObservation \in Observations
    BY DEF NoObservation, Observations, NoPid
  <2> QED BY <1>0, <2>1 DEF Types, Samples, EmptyDraft
<1>4. \A r \in Roles : Known(starts, r, o.proc[r])
  BY <1>3 DEF Known, ProcessAlive, NoObservation
<1> HIDE DEF o
<1>5. /\ stable' \in Nat /\ draft' = o /\ previous' \in Seq(Samples)
      /\ pc' \in {"stable", "sleep"}
      /\ previous' # <<>> => \A r \in Roles : Known(starts, r, previous'[1].proc[r])
      /\ WindowInv' /\ StableMeansWindow'
  BY <1>1, <1>2, <1>3, <1>4, JudgeEffect
<1>6. Types'
  <2>1. cachedOk' \in [Roles -> BOOLEAN]
    BY <1>1
  <2>2. lastEvent' \in 0..samples'
    BY <1>0, <1>2 DEF Types
  <2> QED BY <1>0, <1>2, <1>3, <1>5, <2>1, <2>2 DEF Types
<1>7. ProcInv' /\ LiveInv'
  BY <1>2 DEF IInv, ProcInv, LiveInv, Named
<1>8. KnownInv'
  BY <1>2, <1>4, <1>5 DEF IInv, KnownInv
<1>9. QuietInv'
  <2>1. Judged' = samples /\ ~(samples > samples)
    BY <1>0, <1>2, <1>5 DEF Judged, Types
  <2> QED BY <1>2, <1>5, <2>1 DEF QuietInv
<1> QED BY <1>5, <1>6, <1>7, <1>8, <1>9 DEF IInv

\* The second half of a sample: when nothing has changed since the sample
\* began, and the system is settled, the sample is what the system is, and
\* it is quiet against an earlier one like it.
LEMMA ScanKeeps ==
  ASSUME IInv, ScanProcesses
  PROVE  IInv'
<1> DEFINE holders(r) == {p \in Pids : Named(p, r)}
           proc == [r \in Roles |-> IF cachedOk[r] \/ holders(r) = {}
                                      THEN draft.proc[r]
                                      ELSE ReadObservation(Max(holders(r)))]
           alive == {p \in Pids : procs[p] # <<>>}
           o == [draft EXCEPT !.proc = proc, !.count = Cardinality(alive)]
<1>0. Types /\ ProcInv /\ KnownInv
  BY DEF IInv
<1>1. /\ pc = "scan" /\ Judge(o)
      /\ cached' = [r \in Roles |-> IF ProcessAlive(proc[r]) THEN proc[r].pid ELSE NoPid]
      /\ cachedOk' = [r \in Roles |-> FALSE]
      /\ UNCHANGED <<bootElapsed, policy, elapsed, history>>
  BY DEF ScanProcesses
<1>2. UNCHANGED <<ready, procs, starts, policy, samples, unready, lastEvent>>
  BY <1>1 DEF ScanProcesses, SystemUnchanged, system, history
<1>3. \A r \in Roles : holders(r) # {} => Max(holders(r)) \in holders(r)
  <2> SUFFICES ASSUME NEW r \in Roles, holders(r) # {} PROVE Max(holders(r)) \in holders(r)
    OBVIOUS
  <2>1. holders(r) \in SUBSET Pids
    OBVIOUS
  <2> HIDE DEF holders
  <2> QED BY <2>1, LargestPid
<1>4. \A r \in Roles : proc[r] \in Observations /\ Known(starts, r, proc[r])
  <2> SUFFICES ASSUME NEW r \in Roles PROVE proc[r] \in Observations /\ Known(starts, r, proc[r])
    OBVIOUS
  <2>1. CASE cachedOk[r] \/ holders(r) = {}
    <3>1. proc[r] = draft.proc[r]
      BY <2>1
    <3>2. draft.proc[r] \in Observations
      BY <1>0 DEF Types, Samples
    <3>3. Known(starts, r, draft.proc[r])
      BY <1>0, <1>1 DEF KnownInv
    <3> QED BY <3>1, <3>2, <3>3
  <2>2. CASE ~(cachedOk[r] \/ holders(r) = {})
    <3>1. PICK p \in holders(r) : p = Max(holders(r))
      BY <1>3, <2>2
    <3>2. proc[r] = ReadObservation(p)
      BY <2>2, <3>1
    <3>3. p \in Pids /\ Named(p, r)
      BY <3>1
    <3> QED BY <1>0, <3>2, <3>3, ProcessType, NamedKnown
  <2> QED BY <2>1, <2>2
<1>5. Cardinality(alive) \in Nat /\ (alive # {} => Cardinality(alive) # 0)
  <2>1. alive \in SUBSET Pids
    OBVIOUS
  <2> HIDE DEF alive
  <2> QED BY <2>1, CountType
<1>6. o \in Samples /\ o.ready = draft.ready /\ o.count = Cardinality(alive)
      /\ \A r \in Roles : o.proc[r] = proc[r]
  <2>1. proc \in [Roles -> Observations]
    BY <1>4
  <2> HIDE DEF proc, alive
  <2> QED BY <1>0, <1>5, <2>1 DEF Types, Samples
<1>7. \A r \in Roles : Known(starts, r, o.proc[r])
  BY <1>4, <1>6
<1>8. ASSUME Settled, samples > lastEvent
      PROVE  /\ Exact(o) /\ o.ready
             /\ \A r \in Roles : ProcessAlive(o.proc[r])
             /\ o.count # 0
             /\ \A r \in Roles : \E h \in Pids : Named(h, r) /\ o.proc[r] = ReadObservation(h)
  <2>1. /\ ready
        /\ \A r \in Roles : /\ \E p \in Pids : Named(p, r)
                            /\ \A p \in Pids : Named(p, r) => procs[p][1].state = "S"
    BY <1>8 DEF Settled
  <2>2. /\ draft.ready = ready
        /\ \A r \in Roles : cachedOk[r] => Named(cached[r], r) /\ cached[r] \in Pids
                                           /\ draft.proc[r] = ReadObservation(cached[r])
    BY <1>1, <1>8 DEF IInv, QuietInv
  <2>3. ASSUME NEW r \in Roles
        PROVE  \E h \in Pids : /\ Named(h, r) /\ proc[r] = ReadObservation(h)
                               /\ \A p \in Pids : Named(p, r) => p = h
    <3>1. holders(r) # {}
      BY <2>1
    <3>2. \E h \in Pids : Named(h, r) /\ proc[r] = ReadObservation(h)
      <4>1. CASE cachedOk[r]
        BY <2>2, <4>1
      <4>2. CASE ~cachedOk[r]
        <5>1. PICK h \in holders(r) : h = Max(holders(r))
          BY <1>3, <3>1
        <5>2. proc[r] = ReadObservation(h)
          BY <3>1, <4>2, <5>1
        <5> QED BY <5>1, <5>2
      <4> QED BY <4>1, <4>2
    <3>3. PICK h \in Pids : Named(h, r) /\ proc[r] = ReadObservation(h)
      BY <3>2
    <3>4. \A p \in Pids : Named(p, r) => p = h
      BY <2>1, <3>3 DEF IInv, LiveInv
    <3> QED BY <3>3, <3>4
  <2>4. ASSUME NEW r \in Roles PROVE ProcessAlive(proc[r])
    <3>1. PICK h \in Pids : Named(h, r) /\ proc[r] = ReadObservation(h)
      BY <2>3
    <3>2. procs[h] # <<>> /\ procs[h][1].state = "S"
      BY <2>1, <3>1 DEF Named
    <3> HIDE DEF proc
    <3> QED BY <1>0, <3>1, <3>2, ProcessType
  <2>5. alive # {}
    <3>1. PICK h \in Pids : Named(h, "system_server")
      BY <2>1 DEF Roles
    <3> QED BY <3>1 DEF Named
  <2> HIDE DEF proc, alive, o
  <2>6. Exact(o)
    <3>1. ASSUME NEW r \in Roles, NEW p \in Pids, Named(p, r) PROVE o.proc[r] = ReadObservation(p)
      BY <1>6, <2>3, <3>1
    <3> QED BY <1>6, <3>1 DEF Exact, alive
  <2>7. \A r \in Roles : \E h \in Pids : Named(h, r) /\ o.proc[r] = ReadObservation(h)
    BY <1>6, <2>3
  <2> QED BY <1>5, <1>6, <2>1, <2>2, <2>4, <2>5, <2>6, <2>7
<1>9. \A r \in Roles : cached'[r] = (IF ProcessAlive(o.proc[r]) THEN o.proc[r].pid ELSE NoPid)
  <2>1. \A r \in Roles : cached'[r] = (IF ProcessAlive(proc[r]) THEN proc[r].pid ELSE NoPid)
    BY <1>1
  <2> HIDE DEF proc, o
  <2> QED BY <1>6, <2>1
<1>10. cached' = [r \in Roles |-> cached'[r]]
  BY <1>1
<1> HIDE DEF holders, proc, alive, o
<1>11. /\ stable' \in Nat /\ draft' = o /\ previous' \in Seq(Samples)
       /\ pc' \in {"stable", "sleep"}
       /\ pc' = "sleep" => previous' = <<o>>
       /\ previous' # <<>> => \A r \in Roles : Known(starts, r, previous'[1].proc[r])
       /\ WindowInv' /\ StableMeansWindow'
       /\ pc' = "sleep" /\ previous # <<>> /\ ObservationsQuiet(previous[1], o) =>
            stable' = stable + policy.poll
  <2>1. samples' = samples /\ unready' = unready /\ starts' = starts /\ policy' = policy
    BY <1>2
  <2> QED BY <1>1, <1>6, <1>7, <2>1, JudgeEffect
<1>12. Types'
  <2>1. cachedOk' \in [Roles -> BOOLEAN]
    BY <1>1
  <2>2. \A r \in Roles : cached'[r] \in Pids \cup {NoPid}
    <3>1. \A r \in Roles : o.proc[r].pid \in Pids \cup {NoPid}
      BY <1>4, <1>6 DEF Observations
    <3> QED BY <1>9, <3>1
  <2>3. cached' \in [Roles -> Pids \cup {NoPid}]
    BY <1>10, <2>2
  <2> QED BY <1>0, <1>2, <1>6, <1>11, <2>1, <2>3 DEF Types
<1>13. ProcInv' /\ LiveInv'
  BY <1>2 DEF IInv, ProcInv, LiveInv, Named
<1>14. KnownInv'
  <2>1. ASSUME NEW r \in Roles, cached'[r] # NoPid
        PROVE  \E j \in 1..Len(starts) : starts[j].pid = cached'[r] /\ starts[j].name = r
    <3>1. ProcessAlive(o.proc[r]) /\ cached'[r] = o.proc[r].pid
      BY <1>9, <2>1
    <3>2. /\ o.proc[r].start \in 1..Len(starts) /\ starts[o.proc[r].start].pid = o.proc[r].pid
          /\ \/ starts[o.proc[r].start].name = r
             \/ \E j \in 1..(o.proc[r].start - 1) :
                  starts[j].pid = starts[o.proc[r].start].pid /\ starts[j].name = r
      BY <1>7, <3>1 DEF Known
    <3>3. Len(starts) \in Nat
      BY <1>0 DEF Types
    <3>4. \A j \in 1..(o.proc[r].start - 1) : j \in 1..Len(starts)
      BY <3>2, <3>3
    <3> QED BY <3>1, <3>2, <3>4
  <2> QED BY <1>2, <1>7, <1>11, <2>1 DEF KnownInv
<1>15. QuietInv'
  <2>1. Judged' = samples /\ pc' # "scan"
    BY <1>2, <1>11 DEF Judged
  <2> SUFFICES ASSUME pc' = "sleep", Settled, samples > lastEvent
               PROVE  /\ previous' # <<>> /\ Exact(previous[1])'
                      /\ (samples - lastEvent - 1) * policy.poll <= stable'
    <3>1. Settled' = Settled
      BY <1>2 DEF Settled, Named
    <3> QED BY <1>2, <1>11, <2>1, <3>1 DEF QuietInv
  <2>2. previous' = <<o>> /\ previous'[1] = o /\ previous' # <<>>
    BY <1>11
  <2>3. Exact(o) /\ o.ready /\ o.count # 0 /\ \A r \in Roles : ProcessAlive(o.proc[r])
    BY <1>8
  <2>4. Exact(previous[1])'
    BY <1>2, <2>2, <2>3 DEF Exact, Named, ReadObservation
  <2>5. /\ samples \in Nat /\ lastEvent \in Nat /\ policy.poll \in Nat /\ stable' \in Nat /\ stable \in Nat
    BY <1>0, <1>11 DEF Types
  <2>6. CASE samples - 1 > lastEvent
    <3>1. Judged = samples - 1
      BY <1>1 DEF Judged
    <3>2. /\ previous # <<>> /\ Exact(previous[1])
          /\ (samples - 1 - lastEvent - 1) * policy.poll <= stable
      BY <1>1, <2>6, <3>1 DEF IInv, QuietInv
    <3>3. previous[1].count = o.count
      BY <2>3, <3>2 DEF Exact
    <3>4. \A r \in Roles : previous[1].proc[r] = o.proc[r] /\ o.proc[r].cpu \in Nat
      <4> SUFFICES ASSUME NEW r \in Roles PROVE previous[1].proc[r] = o.proc[r] /\ o.proc[r].cpu \in Nat
        OBVIOUS
      <4>1. PICK h \in Pids : Named(h, r) /\ o.proc[r] = ReadObservation(h)
        BY <1>8
      <4>2. previous[1].proc[r] = ReadObservation(h)
        BY <3>2, <4>1 DEF Exact
      <4>3. o.proc[r] \in Observations
        BY <1>4, <1>6
      <4> QED BY <4>1, <4>2, <4>3 DEF Observations
    <3>5. \A r \in Roles : o.proc[r].cpu - previous[1].proc[r].cpu = 0
      BY <3>4
    <3>6. ObservationsQuiet(previous[1], o)
      <4>1. BaseServicesReady(o)
        BY <2>3 DEF BaseServicesReady
      <4>2. 0 \in 0..AllowedTicks
        BY <1>0, TicksAllowed
      <4>3. \A r \in Roles : o.proc[r].cpu - previous[1].proc[r].cpu \in 0..AllowedTicks
        BY <3>5, <4>2
      <4> QED BY <2>3, <3>3, <3>4, <4>1, <4>3 DEF ObservationsQuiet
    <3>7. stable' = stable + policy.poll
      BY <1>11, <3>2, <3>6
    <3> DEFINE k == samples - 1 - lastEvent - 1
    <3>8. k \in Nat /\ samples - lastEvent - 1 = k + 1
      BY <2>5, <2>6
    <3>9. k * policy.poll <= stable
      BY <3>2
    <3> HIDE DEF k
    <3>10. (k + 1) * policy.poll = k * policy.poll + policy.poll /\ k * policy.poll \in Nat
      BY <2>5, <3>8, OneMore
    <3>11. (k + 1) * policy.poll <= stable'
      BY <2>5, <3>7, <3>9, <3>10
    <3> QED BY <2>2, <2>4, <3>8, <3>11
  <2>7. CASE ~(samples - 1 > lastEvent)
    <3>1. samples - lastEvent - 1 = 0
      BY <2>5, <2>7
    <3>2. 0 * policy.poll = 0
      BY <2>5, OneMore
    <3> QED BY <2>2, <2>4, <2>5, <3>1, <3>2
  <2> QED BY <2>6, <2>7
<1> QED BY <1>11, <1>12, <1>13, <1>14, <1>15 DEF IInv

-----------------------------------------------------------------------------
(* The theorems.                                                           *)

\* bounded_environment_u32 gives a positive number, whatever it is given.
LEMMA Bounded ==
  ASSUME NEW v, NEW fallback \in Nat \ {0}, NEW lo \in Nat \ {0}, NEW hi \in Nat
  PROVE  BoundedEnvironment(v, fallback, lo, hi) \in Nat \ {0}
BY DEF BoundedEnvironment

\* The policy has numbers to compute with, whatever the environment holds.
LEMMA PolicyType ==
  ASSUME NEW e
  PROVE  /\ PolicyFromEnvironment(e).poll \in Nat \ {0}
         /\ PolicyFromEnvironment(e).stable \in Nat \ {0}
         /\ PolicyFromEnvironment(e).permille \in Nat
<1>1. /\ PolicyFromEnvironment(e).poll = BoundedEnvironment(e.poll, 250, 100, 1000)
      /\ PolicyFromEnvironment(e).stable = BoundedEnvironment(e.stable, 3000, 1000, 15000)
      /\ PolicyFromEnvironment(e).permille = BoundedEnvironment(e.permille, 500, 50, 4000)
  BY DEF PolicyFromEnvironment
<1> QED BY <1>1, Bounded

\* The initial states satisfy the invariant.
LEMMA Initially ==
  ASSUME Init
  PROVE  IInv
<1>1. /\ ready \in BOOLEAN /\ lastEvent = 0 /\ pc = "boot" /\ stable = 0
      /\ cached = [r \in Roles |-> NoPid] /\ cachedOk = [r \in Roles |-> FALSE]
      /\ draft = EmptyDraft /\ previous = <<>> /\ samples = 0 /\ unready = 0
  BY DEF Init
<1>2. PICK e \in Environments : policy = PolicyFromEnvironment(e)
  BY DEF Init
<1>3. PICK f \in [Roles -> Pids] :
        /\ f["surfaceflinger"] < f["system_server"]
        /\ starts = <<[name |-> "surfaceflinger", pid |-> f["surfaceflinger"], at |-> 0],
                      [name |-> "system_server", pid |-> f["system_server"], at |-> 0]>>
        /\ procs = [p \in Pids |-> IF p = f["surfaceflinger"] THEN <<Process("surfaceflinger", 1)>>
                                   ELSE IF p = f["system_server"] THEN <<Process("system_server", 2)>>
                                   ELSE <<>>]
  BY DEF Init
<1> DEFINE a == f["surfaceflinger"]
           b == f["system_server"]
<1>4. a \in Pids /\ b \in Pids /\ a # b
  BY <1>3, PidAssumption DEF Roles
<1>5. /\ Process("surfaceflinger", 1) \in Processes /\ Process("system_server", 2) \in Processes
      /\ Process("surfaceflinger", 1).start = 1 /\ Process("system_server", 2).start = 2
      /\ Process("surfaceflinger", 1).name = "surfaceflinger" /\ Process("system_server", 2).name = "system_server"
  BY DEF Process, Processes, Names, Roles
<1>6. /\ starts \in Seq(Starts) /\ Len(starts) = 2
      /\ starts[1].pid = a /\ starts[1].name = "surfaceflinger" /\ starts[1].at = 0
      /\ starts[2].pid = b /\ starts[2].name = "system_server" /\ starts[2].at = 0
  BY <1>3, <1>4 DEF Starts, Names, Roles
<1> HIDE DEF a, b
<1>7. /\ procs[a] = <<Process("surfaceflinger", 1)>> /\ procs[b] = <<Process("system_server", 2)>>
      /\ \A p \in Pids : p # a /\ p # b => procs[p] = <<>>
  BY <1>3, <1>4 DEF a, b
<1>8. procs \in [Pids -> Seq(Processes)]
  BY <1>3, <1>5 DEF a, b
<1>9. EmptyDraft \in Samples
  BY DEF EmptyDraft, Samples, NoObservation, Observations, NoPid
<1>10. Types
  <2>1. cached \in [Roles -> Pids \cup {NoPid}] /\ cachedOk \in [Roles -> BOOLEAN]
    BY <1>1
  <2>2. policy.poll \in Nat \ {0} /\ policy.stable \in Nat \ {0} /\ policy.permille \in Nat
    BY <1>2, PolicyType
  <2> QED BY <1>1, <1>6, <1>8, <1>9, <2>1, <2>2 DEF Types
<1>11. ProcInv
  <2>1. \A i \in 1..Len(starts) : starts[i].at <= samples
    BY <1>1, <1>6
  <2>2. ASSUME NEW p \in Pids, procs[p] # <<>>
        PROVE  LET i == procs[p][1].start
               IN  /\ i \in 1..Len(starts) /\ starts[i].pid = p /\ starts[i].name = procs[p][1].name
                   /\ \A j \in 1..Len(starts) : starts[j].pid = p => j <= i
    <3>1. CASE p = a
      BY <1>4, <1>5, <1>6, <1>7, <3>1
    <3>2. CASE p = b
      BY <1>4, <1>5, <1>6, <1>7, <3>2
    <3> QED BY <1>7, <2>2, <3>1, <3>2
  <2> QED BY <2>1, <2>2 DEF ProcInv
<1>12. LiveInv
  <2>1. \A p \in Pids, r \in Roles : Named(p, r) => (p = a /\ r = "surfaceflinger") \/ (p = b /\ r = "system_server")
    BY <1>5, <1>7 DEF Named
  <2> QED BY <2>1 DEF LiveInv
<1>13. KnownInv
  <2>1. \A r \in Roles : Known(starts, r, draft.proc[r]) /\ cached[r] = NoPid
    BY <1>1 DEF Known, ProcessAlive, EmptyDraft, NoObservation
  <2> QED BY <1>1, <2>1 DEF KnownInv
<1>14. WindowInv
  BY <1>1, <1>10 DEF WindowInv, Types, Ended
<1>15. QuietInv
  <2>1. ~(Judged > lastEvent)
    BY <1>1 DEF Judged
  <2> QED BY <1>1, <2>1 DEF QuietInv
<1>16. StableMeansWindow
  BY <1>1 DEF StableMeansWindow
<1> QED BY <1>10, <1>11, <1>12, <1>13, <1>14, <1>15, <1>16 DEF IInv

\* The invariant is inductive: it holds initially and every step keeps it.
THEOREM Inductive == Spec => []IInv
<1>1. Init => IInv
  BY Initially
<1>2. IInv /\ [Next]_vars => IInv'
  <2> SUFFICES ASSUME IInv, [Next]_vars PROVE IInv'
    OBVIOUS
  <2>1. CASE WaitForBoot \/ BeginReadiness \/ Sleep \/ DeadlineFallback
    <3>1. SeenUnchanged
      BY <2>1 DEF WaitForBoot, BeginReadiness, Sleep, DeadlineFallback, SystemUnchanged, system, history,
                  SeenUnchanged
    <3>2. pc \notin {"scan"} \cup Ended
      BY <2>1 DEF WaitForBoot, BeginReadiness, Sleep, DeadlineFallback, Ended
    <3>3. pc' = pc \/ pc' \notin {"scan", "stable"}
      BY <2>1 DEF WaitForBoot, BeginReadiness, Sleep, DeadlineFallback
    <3> QED BY <3>1, <3>2, <3>3, WaitKeeps
  <2>2. CASE BootCompletes
    <3>1. SeenUnchanged /\ pc' = pc
      BY <2>2 DEF BootCompletes, DaemonUnchanged, history, SeenUnchanged
    <3> QED BY <3>1, WaitKeeps
  <2>3. CASE UNCHANGED vars
    <3>1. SeenUnchanged /\ pc' = pc
      BY <2>3 DEF vars, system, history, SeenUnchanged
    <3> QED BY <3>1, WaitKeeps
  <2>4. CASE SampleCached
    BY <2>4, SampleKeeps
  <2>5. CASE ScanProcesses
    BY <2>5, ScanKeeps
  <2>6. CASE ScanFails
    BY <2>6, ScanFailsKeeps
  <2>7. CASE PropertiesChange
    BY <2>7, PropertiesKeep
  <2>8. ASSUME NEW p \in Pids, NEW name \in Names, ProcessStarts(p, name) PROVE IInv'
    BY <2>8, Started
  <2>9. ASSUME NEW p \in Pids, ProcessReaped(p) PROVE IInv'
    BY <2>9, Reaped
  <2>10. ASSUME NEW p \in Pids, ProcessEnds(p) \/ \E ticks \in Bursts : ProcessWorks(p, ticks) PROVE IInv'
    BY <2>10, EndsOrWorks
  <2> QED BY <2>1, <2>2, <2>3, <2>4, <2>5, <2>6, <2>7, <2>8, <2>9, <2>10 DEF Next, Daemon, Android
<1> QED BY <1>1, <1>2, PTL DEF Spec

\* When wait_for_adaptive_startup_readiness returns with a stable system, the
\* same two processes were seen for a whole window, for every setting of the
\* environment.
THEOREM StableWindow == Spec => []StableMeansWindow
BY Inductive, PTL DEF IInv

\* The deadline ends the wait on a settled system only if the system changed
\* less than a window of samples before.
THEOREM FallbackUnsettled == Spec => []FallbackMeansUnsettled
<1>1. IInv => FallbackMeansUnsettled
  <2> SUFFICES ASSUME IInv, pc = "fallback", Settled PROVE samples <= lastEvent + Window
    BY DEF FallbackMeansUnsettled
  <2>1. /\ samples \in Nat /\ lastEvent \in 0..samples /\ stable \in Nat
        /\ policy.poll \in Nat \ {0} /\ policy.stable \in Nat \ {0}
    BY DEF IInv, Types
  <2>2. Judged = samples /\ stable < policy.stable
    BY DEF IInv, WindowInv, Judged
  <2>3. Window \in Nat
    <3>1. 0 \in Nat
      OBVIOUS
    <3> QED BY <2>1, <3>1, WindowSamples DEF Window
  <2>4. CASE samples > lastEvent
    <3> DEFINE k == samples - lastEvent - 1
    <3>1. k * policy.poll <= stable
      BY <2>2, <2>4 DEF IInv, QuietInv
    <3>2. k \in Nat /\ samples = lastEvent + k + 1
      BY <2>1, <2>4
    <3> HIDE DEF k
    <3>3. k * policy.poll < policy.stable
      <4>1. k * policy.poll \in Nat
        BY <2>1, <3>2, OneMore
      <4> QED BY <2>1, <2>2, <3>1, <4>1
    <3>4. k * policy.poll < policy.stable => k < (policy.stable + policy.poll - 1) \div policy.poll
      BY <2>1, <3>2, WindowSamples
    <3>5. k < Window
      BY <3>3, <3>4 DEF Window
    <3> QED BY <2>1, <2>3, <3>2, <3>5
  <2>5. CASE ~(samples > lastEvent)
    BY <2>1, <2>3, <2>5
  <2> QED BY <2>4, <2>5
<1> QED BY <1>1, Inductive, PTL

=============================================================================
