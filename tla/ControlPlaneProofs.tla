------------------------- MODULE ControlPlaneProofs -------------------------
(***************************************************************************)
(* ControlPlane for any number of WebUI processes that run one after the   *)
(* other, any set of IDs and every bound: the control file is never behind *)
(* the hook, a restart brings back what runs unless an apply request was   *)
(* left half done, and a request answered with success has taken effect.   *)
(* The last section is about WebSession, the other half of web_ui.cpp.     *)
(***************************************************************************)
EXTENDS ControlPlane, SequenceTheorems, TLAPS

Running(u) == pc[u] \notin {"off", "dead"}

\* The manager runs one WebUI process at a time.
OneInv == \A u, v \in Uis : Running(u) /\ Running(v) => u = v

\* The backlog holds requests of processes that ended, and behind them the
\* one that the running process waits for.
QueueInv ==
  /\ ~Up => queue = <<>>
  /\ \A i \in 1..Len(queue) :
       \/ pc[queue[i][1]] = "dead"
       \/ i = Len(queue) /\ pc[queue[i][1]] = queue[i][2]
  /\ \A u \in Uis :
       /\ pc[u] \in {"read", "write", "persisted"} => queue = <<>>
       /\ pc[u] = "status" => queue # <<>> /\ queue[Len(queue)] = <<u, "status">>
       /\ pc[u] = "apply" => Len(queue) = 1 /\ queue[1] = <<u, "apply">>

\* Nobody writes the file between the two halves of an apply request.
LoadedInv ==
  loaded # NoConfig => queue # <<>> /\ Head(queue)[2] = "apply" /\ loaded = file

\* There is a file once a daemon was up; it is at most one configuration
\* ahead of the hook, and only where an apply request is not through.
FileInv ==
  /\ file = NoConfig => ~Up /\ \A u \in Uis : pc[u] \in {"off", "idle", "dead"}
  /\ Up => kernel.gen <= file.gen /\ file.gen <= kernel.gen + 1
  /\ Up /\ ~split => \/ file = kernel
                     \/ /\ file.gen = kernel.gen + 1
                        /\ \E u \in Uis : pc[u] \in {"persisted", "apply"}

\* c is what form f asks for.
Fulfils(c, f) ==
  /\ c.mode = f.mode
  /\ f.action = "derive" => c.id = Derived
  /\ f.action = "choose" => c.id = f.id

\* What a request read and drafted is still one step behind or equal when it
\* is persisted; it is what runs, or what the daemon will come back with.
DraftInv(u) ==
  /\ pc[u] \in {"read", "write"} =>
       /\ current[u] \in Configs
       /\ file.gen \in {current[u].gen, current[u].gen + 1}
       /\ Up => kernel.gen >= current[u].gen
       /\ ~split => file.gen = current[u].gen
       /\ ~restarted[u] => (Up => kernel = current[u]) /\ (~Up => file = current[u])
  /\ pc[u] = "write" =>
       draft[u] \in Configs /\ draft[u].gen = current[u].gen + 1 /\ Fulfils(draft[u], form[u])
  /\ pc[u] \in {"persisted", "apply"} =>
       /\ Fulfils(file, form[u])
       /\ ~restarted[u] /\ Up => kernel = file \/ file.gen = kernel.gen + 1

IInv ==
  /\ TypeOK /\ OneInv /\ QueueInv /\ LoadedInv /\ FileInv
  /\ \A u \in Uis : DraftInv(u)
  /\ SuccessTakesEffect

Entries == Uis \X {"status", "apply"}
Places == {"off", "idle", "status", "read", "write", "persisted", "apply", "dead"}

-----------------------------------------------------------------------------
(* The backlog.                                                            *)

\* What an entry of the backlog looks like.
LEMMA EntryType ==
  ASSUME TypeOK, NEW i \in 1..Len(queue)
  PROVE  queue[i][1] \in Uis /\ queue[i][2] \in {"status", "apply"} /\ queue[i] = <<queue[i][1], queue[i][2]>>
<1>1. queue \in Seq(Entries)
  BY DEF TypeOK, Entries
<1>2. queue[i] \in Entries
  BY <1>1, ElementOfSeq
<1> QED BY <1>2 DEF Entries

\* The entry that is served next.
LEMMA FirstEntry ==
  ASSUME TypeOK, queue # <<>>
  PROVE  /\ Len(queue) \in Nat \ {0} /\ 1 \in 1..Len(queue) /\ Head(queue) = queue[1]
         /\ Tail(queue) \in Seq(Entries) /\ Len(Tail(queue)) = Len(queue) - 1
         /\ \A i \in 1..Len(Tail(queue)) : Tail(queue)[i] = queue[i + 1]
<1>1. queue \in Seq(Entries)
  BY DEF TypeOK, Entries
<1>2. Len(queue) \in Nat \ {0}
  BY <1>1, EmptySeq
<1>3. Head(queue) = queue[1]
  BY <1>1, <1>2
<1> QED BY <1>1, <1>2, <1>3, HeadTailProperties

\* What holds while the daemon handles an apply request: nobody prepares one,
\* and its sender waits or has ended.
LEMMA Applying ==
  ASSUME TypeOK, QueueInv, LoadedInv, FileInv, NEW u \in Uis, loaded # NoConfig, Head(queue)[1] = u
  PROVE  /\ Up /\ queue # <<>> /\ queue[1] = <<u, "apply">>
         /\ pc[u] \in {"dead", "apply"}
         /\ \A v \in Uis : pc[v] \notin {"read", "write", "persisted"} /\ (pc[v] = "apply" => v = u)
         /\ loaded = file /\ file \in Configs /\ kernel \in Configs
<1>1. queue # <<>> /\ Head(queue)[2] = "apply" /\ loaded = file
  BY DEF LoadedInv
<1>2. Head(queue) = queue[1] /\ 1 \in 1..Len(queue)
  BY <1>1, FirstEntry
<1>3. queue[1] = <<u, "apply">>
  BY <1>1, <1>2, EntryType
<1>4. pc[u] \in {"dead", "apply"}
  BY <1>2, <1>3 DEF QueueInv
<1>5. \A v \in Uis : pc[v] \notin {"read", "write", "persisted"} /\ (pc[v] = "apply" => v = u)
  BY <1>1, <1>3 DEF QueueInv
<1>6. Up
  BY <1>1 DEF QueueInv
<1> QED BY <1>1, <1>3, <1>4, <1>5, <1>6 DEF Up, TypeOK

\* An answer of the daemon takes the request off the backlog.
LEMMA RespondEffect ==
  ASSUME TypeOK, NEW u \in Uis, NEW code, Respond(u, code)
  PROVE  /\ queue' = Tail(queue) /\ loaded' = NoConfig
         /\ \/ /\ pc[u] = "apply" /\ pc' = [pc EXCEPT ![u] = "idle"]
               /\ answer' = [answer EXCEPT ![u] = [code |-> code, config |-> kernel']]
            \/ pc[u] # "apply" /\ pc' = pc /\ answer' = answer
BY DEF Respond, Goto

\* The answer to an apply request: success means that the file runs, or a
\* configuration of its generation.
Answered(u, code) ==
  /\ code = 200 => kernel' = file \/ (kernel' = kernel /\ kernel.gen = file.gen)
  /\ \/ /\ pc[u] = "apply" /\ pc' = [pc EXCEPT ![u] = "idle"]
        /\ answer' = [answer EXCEPT ![u] = [code |-> code, config |-> kernel']]
     \/ pc[u] # "apply" /\ pc' = pc /\ answer' = answer

\* An apply request is answered by one of these steps.
Answering(u) ==
  AlreadyActive(u) \/ RejectLoaded(u) \/ \E reported \in BOOLEAN : PublishLoaded(u, reported)

\* Each of them publishes the file or leaves the hook alone.
LEMMA AnswerEffect ==
  ASSUME TypeOK, QueueInv, LoadedInv, FileInv, NEW u \in Uis, Answering(u)
  PROVE  /\ loaded # NoConfig /\ Head(queue)[1] = u
         /\ queue' = Tail(queue) /\ loaded' = NoConfig
         /\ UNCHANGED <<file, form, current, draft, stops, restarted>>
         /\ \/ kernel' = kernel /\ kernel.gen = file.gen /\ split' = split /\ faults' = faults
            \/ kernel' = file /\ split' = FALSE /\ faults' \in 0..MaxFaults
            \/ kernel' = kernel /\ split' = TRUE /\ faults' \in 0..MaxFaults
         /\ \E code \in {200, 409} : Answered(u, code)
<1> USE DEF request, history
<1>0. faults \in 0..MaxFaults /\ (Fault => faults' \in 0..MaxFaults)
  BY BoundAssumption DEF TypeOK, Fault
<1>1. CASE AlreadyActive(u)
  <2>1. loaded # NoConfig /\ Head(queue)[1] = u /\ loaded.gen = kernel.gen /\ kernel' = kernel
        /\ Respond(u, 200)
    BY <1>1 DEF AlreadyActive
  <2>2. UNCHANGED <<file, form, current, draft, faults, stops, restarted, split>>
    BY <1>1 DEF AlreadyActive
  <2>3. kernel.gen = file.gen
    BY <2>1, Applying
  <2>4. /\ queue' = Tail(queue) /\ loaded' = NoConfig
        /\ \/ /\ pc[u] = "apply" /\ pc' = [pc EXCEPT ![u] = "idle"]
              /\ answer' = [answer EXCEPT ![u] = [code |-> 200, config |-> kernel']]
           \/ pc[u] # "apply" /\ pc' = pc /\ answer' = answer
    BY <2>1, RespondEffect
  <2>5. Answered(u, 200)
    BY <2>1, <2>3, <2>4 DEF Answered
  <2> QED BY <2>1, <2>2, <2>3, <2>4, <2>5
<1>2. CASE RejectLoaded(u)
  <2>1. loaded # NoConfig /\ Head(queue)[1] = u /\ kernel' = kernel /\ split' = TRUE
        /\ Respond(u, 409) /\ faults' \in 0..MaxFaults
    BY <1>0, <1>2 DEF RejectLoaded
  <2>2. UNCHANGED <<file, form, current, draft, stops, restarted>>
    BY <1>2 DEF RejectLoaded
  <2>3. /\ queue' = Tail(queue) /\ loaded' = NoConfig
        /\ \/ /\ pc[u] = "apply" /\ pc' = [pc EXCEPT ![u] = "idle"]
              /\ answer' = [answer EXCEPT ![u] = [code |-> 409, config |-> kernel']]
           \/ pc[u] # "apply" /\ pc' = pc /\ answer' = answer
    BY <2>1, RespondEffect
  <2>4. Answered(u, 409)
    BY <2>3 DEF Answered
  <2> QED BY <2>1, <2>2, <2>3, <2>4
<1>3. CASE \E reported \in BOOLEAN : PublishLoaded(u, reported)
  <2>1. loaded # NoConfig /\ Head(queue)[1] = u /\ kernel' = loaded /\ split' = FALSE
        /\ faults' \in 0..MaxFaults
    BY <1>0, <1>3 DEF PublishLoaded
  <2>2. UNCHANGED <<file, form, current, draft, stops, restarted>>
    BY <1>3 DEF PublishLoaded
  <2>3. Respond(u, 200) \/ Respond(u, 409)
    BY <1>3 DEF PublishLoaded
  <2>4. kernel' = file
    BY <2>1, Applying
  <2>5. queue' = Tail(queue) /\ loaded' = NoConfig
    BY <2>3, RespondEffect
  <2>6. Answered(u, 200) \/ Answered(u, 409)
    BY <2>3, <2>4, RespondEffect DEF Answered
  <2> QED BY <2>1, <2>2, <2>4, <2>5, <2>6
<1> QED BY <1>1, <1>2, <1>3 DEF Answering

\* A status request that is served belongs to a process that ended, or is
\* the only one in the backlog.
LEMMA StatusEffect ==
  ASSUME TypeOK, QueueInv, LoadedInv, NEW u \in Uis, NEW readable \in BOOLEAN, ServeStatus(u, readable)
  PROVE  /\ Up /\ queue # <<>> /\ queue[1] = <<u, "status">> /\ queue' = Tail(queue)
         /\ loaded = NoConfig
         /\ UNCHANGED <<file, kernel, loaded, form, draft, faults, stops, restarted, split>>
         /\ \/ pc[u] = "dead" /\ UNCHANGED <<pc, current, answer>>
            \/ /\ pc[u] = "status" /\ Len(queue) = 1
               /\ \/ /\ pc' = [pc EXCEPT ![u] = "read"]
                     /\ current' = [current EXCEPT ![u] = kernel]
                     /\ answer' = answer
                  \/ /\ pc' = [pc EXCEPT ![u] = "idle"]
                     /\ answer' = [answer EXCEPT ![u] = [code |-> 503, config |-> NoConfig]]
                     /\ current' = current
<1>1. queue # <<>> /\ Head(queue) = <<u, "status">> /\ queue' = Tail(queue)
  BY DEF ServeStatus
<1>2. UNCHANGED <<file, kernel, loaded, form, draft, faults, stops, restarted, split>>
  <2>1. UNCHANGED <<store, loaded, form, draft, faults, stops, history>>
    BY DEF ServeStatus
  <2> QED BY <2>1 DEF store, history
<1>3. queue[1] = <<u, "status">> /\ 1 \in 1..Len(queue)
  <2>1. Head(queue) = queue[1] /\ 1 \in 1..Len(queue)
    BY <1>1, FirstEntry
  <2> QED BY <1>1, <2>1
<1>4. pc[u] = "dead" \/ (pc[u] = "status" /\ Len(queue) = 1)
  <2>1. pc[queue[1][1]] = "dead" \/ (1 = Len(queue) /\ pc[queue[1][1]] = queue[1][2])
    BY <1>3 DEF QueueInv
  <2> QED BY <1>3, <2>1
<1>5. Up /\ loaded = NoConfig
  BY <1>1 DEF QueueInv, LoadedInv
<1>6. CASE pc[u] = "dead"
  <2>1. UNCHANGED <<pc, current, answer>>
    BY <1>6 DEF ServeStatus
  <2> QED BY <1>1, <1>2, <1>3, <1>5, <1>6, <2>1
<1>7. CASE pc[u] = "status" /\ Len(queue) = 1
  <2>1. \/ Goto(u, "status", "read") /\ current' = [current EXCEPT ![u] = kernel] /\ UNCHANGED answer
        \/ Fail(u, 503) /\ UNCHANGED current
    BY <1>7 DEF ServeStatus
  <2> QED BY <1>1, <1>2, <1>3, <1>5, <1>7, <2>1 DEF Goto, Fail
<1> QED BY <1>4, <1>6, <1>7

\* The other steps of a WebUI process.
LEMMA SubmitEffect ==
  ASSUME TypeOK, NEW u \in Uis, NEW f \in Forms, Submit(u, f)
  PROVE  /\ pc[u] = "idle"
         /\ form' = [form EXCEPT ![u] = f] /\ restarted' = [restarted EXCEPT ![u] = FALSE]
         /\ current' = [current EXCEPT ![u] = NoConfig] /\ draft' = [draft EXCEPT ![u] = NoConfig]
         /\ UNCHANGED <<file, kernel, loaded, faults, stops, split>>
         /\ \/ /\ Up /\ pc' = [pc EXCEPT ![u] = "status"] /\ queue' = Append(queue, <<u, "status">>)
               /\ answer' = [answer EXCEPT ![u] = None]
            \/ /\ pc' = [pc EXCEPT ![u] = "idle"] /\ queue' = queue
               /\ answer' = [answer EXCEPT ![u] = [code |-> 503, config |-> NoConfig]]
<1>1. /\ pc[u] = "idle"
      /\ form' = [form EXCEPT ![u] = f] /\ restarted' = [restarted EXCEPT ![u] = FALSE]
      /\ current' = [current EXCEPT ![u] = NoConfig] /\ draft' = [draft EXCEPT ![u] = NoConfig]
      /\ UNCHANGED <<file, kernel, loaded, faults, stops, split>>
  BY DEF Submit, store
<1>2. CASE Up
  BY <1>1, <1>2 DEF Submit, Goto
<1>3. CASE ~Up
  BY <1>1, <1>3 DEF Submit, Fail
<1> QED BY <1>2, <1>3

\* handle_apply answers at once, refuses a generation past the last, or drafts.
LEMMA PrepareEffect ==
  ASSUME TypeOK, NEW u \in Uis, Prepare(u)
  PROVE  /\ pc[u] = "read"
         /\ UNCHANGED <<file, kernel, queue, loaded, form, current, faults, stops, restarted, split>>
         /\ \/ /\ SameSetting(Setting(form[u], file), current[u])
               /\ pc' = [pc EXCEPT ![u] = "idle"] /\ draft' = draft
               /\ answer' = [answer EXCEPT ![u] = [code |-> 200, config |-> current[u]]]
            \/ /\ pc' = [pc EXCEPT ![u] = "idle"] /\ draft' = draft
               /\ answer' = [answer EXCEPT ![u] = [code |-> 409, config |-> NoConfig]]
            \/ /\ current[u].gen # MaxGeneration
               /\ pc' = [pc EXCEPT ![u] = "write"] /\ answer' = answer
               /\ draft' = [draft EXCEPT ![u] = [gen  |-> current[u].gen + 1,
                                                 mode |-> Setting(form[u], file).mode,
                                                 id   |-> Setting(form[u], file).id]]
<1>1. pc[u] = "read" /\ UNCHANGED <<file, kernel, queue, loaded, form, current, faults, stops, restarted, split>>
  BY DEF Prepare, store, daemon, history
<1>2. CASE SameSetting(Setting(form[u], file), current[u])
  BY <1>1, <1>2 DEF Prepare, Goto
<1>3. CASE ~SameSetting(Setting(form[u], file), current[u]) /\ current[u].gen = MaxGeneration
  BY <1>1, <1>3 DEF Prepare, Fail
<1>4. CASE ~SameSetting(Setting(form[u], file), current[u]) /\ current[u].gen # MaxGeneration
  BY <1>1, <1>4 DEF Prepare, Goto
<1> QED BY <1>2, <1>3, <1>4

\* After the file is written the daemon is asked, or the request ends as split.
LEMMA RequestEffect ==
  ASSUME TypeOK, NEW u \in Uis, RequestApply(u)
  PROVE  /\ pc[u] = "persisted"
         /\ UNCHANGED <<file, kernel, loaded, form, current, draft, faults, stops, restarted>>
         /\ \/ /\ Up /\ pc' = [pc EXCEPT ![u] = "apply"] /\ queue' = Append(queue, <<u, "apply">>)
               /\ UNCHANGED <<answer, split>>
            \/ /\ pc' = [pc EXCEPT ![u] = "idle"] /\ queue' = queue /\ split' = TRUE
               /\ answer' = [answer EXCEPT ![u] = [code |-> 503, config |-> NoConfig]]
<1>1. UNCHANGED <<file, kernel, loaded, form, current, draft, faults, stops, restarted>>
  BY DEF RequestApply, store, request
<1>2. CASE Up
  BY <1>1, <1>2 DEF RequestApply, Goto
<1>3. CASE ~Up
  BY <1>1, <1>3 DEF RequestApply, Fail
<1> QED BY <1>2, <1>3

-----------------------------------------------------------------------------
(* Types.                                                                  *)

\* What a form makes of a configuration is what the form asks for.
LEMMA SettingFulfils ==
  ASSUME NEW f \in Forms, NEW c \in Configs
  PROVE  /\ Setting(f, c).mode \in Modes /\ Setting(f, c).id \in Ids
         /\ Fulfils(Setting(f, c), f)
<1>1. f.mode \in Modes /\ f.id \in Ids /\ f.action \in {"keep", "derive", "choose"} /\ c.id \in Ids
  BY DerivedAssumption DEF Forms, Configs
<1>2. Setting(f, c).mode = f.mode
  BY DEF Setting
<1>3. CASE f.action = "keep"
  <2>1. Setting(f, c).id = c.id
    BY <1>3 DEF Setting
  <2> QED BY <1>1, <1>2, <1>3, <2>1 DEF Fulfils
<1>4. CASE f.action = "derive"
  <2>1. Setting(f, c).id = Derived
    BY <1>4 DEF Setting
  <2> QED BY <1>1, <1>2, <1>4, <2>1, DerivedAssumption DEF Fulfils
<1>5. CASE f.action = "choose"
  <2>1. Setting(f, c).id = f.id
    BY <1>5 DEF Setting
  <2> QED BY <1>1, <1>2, <1>5, <2>1 DEF Fulfils
<1> QED BY <1>1, <1>3, <1>4, <1>5

\* The configuration that a request drafts.
LEMMA DraftType ==
  ASSUME NEW f \in Forms, NEW c \in Configs, NEW running \in Configs, running.gen # MaxGeneration
  PROVE  LET d == [gen |-> running.gen + 1, mode |-> Setting(f, c).mode, id |-> Setting(f, c).id]
         IN  d \in Configs /\ d.gen = running.gen + 1 /\ Fulfils(d, f)
<1>1. running.gen + 1 \in 1..MaxGeneration
  BY GenerationAssumption DEF Configs
<1>2. Setting(f, c).mode \in Modes /\ Setting(f, c).id \in Ids /\ Fulfils(Setting(f, c), f)
  BY SettingFulfils
<1> QED BY <1>1, <1>2 DEF Configs, Fulfils

\* The configuration of a first start.
LEMMA FirstType ==
  ASSUME NEW mode \in Modes
  PROVE  [gen |-> 1, mode |-> mode, id |-> Derived] \in Configs
BY GenerationAssumption, DerivedAssumption DEF Configs

\* Answers have their type.
LEMMA AnswerType ==
  ASSUME NEW code \in {0, 200, 409, 500, 503}, NEW c \in Configs \cup {NoConfig}
  PROVE  [code |-> code, config |-> c] \in Answers
BY DEF Answers

\* A process moves or is answered, and the tables keep their types.
LEMMA Updates ==
  ASSUME TypeOK, NEW u \in Uis
  PROVE  /\ \A p \in Places : [pc EXCEPT ![u] = p] \in [Uis -> Places]
         /\ \A a \in Answers : [answer EXCEPT ![u] = a] \in [Uis -> Answers]
         /\ \A f \in Forms : [form EXCEPT ![u] = f] \in [Uis -> Forms]
         /\ pc \in [Uis -> Places] /\ answer \in [Uis -> Answers]
<1>1. pc \in [Uis -> Places] /\ answer \in [Uis -> Answers] /\ form \in [Uis -> Forms]
  BY DEF TypeOK, Places
<1> QED BY <1>1

\* Every step keeps the types.
LEMMA TypeStep ==
  ASSUME IInv, [Next]_vars
  PROVE  TypeOK'
<1> USE DEF IInv, store, daemon, request, history, Goto
<1>0. queue \in Seq(Entries) /\ NoForm \in Forms /\ None \in Answers
  BY DEF TypeOK, Entries, NoForm, Forms, Modes, None, Answers
<1>1. ASSUME NEW mode \in Modes, StartDaemon(mode) PROVE TypeOK'
  BY <1>1, FirstType DEF StartDaemon, TypeOK
<1>2. CASE StopDaemon
  <2>1. [code |-> 503, config |-> NoConfig] \in Answers
    BY AnswerType
  <2>2. answer' \in [Uis -> Answers]
    BY <1>2, <2>1 DEF StopDaemon, TypeOK
  <2>3. stops' \in 0..MaxStops
    BY <1>2, BoundAssumption DEF StopDaemon, TypeOK
  <2>4. queue' \in Seq(Uis \X {"status", "apply"})
    BY <1>2 DEF StopDaemon
  <2>5. pc' \in [Uis -> {"off", "idle", "status", "read", "write", "persisted", "apply", "dead"}]
    BY <1>2 DEF StopDaemon, TypeOK
  <2>6. restarted' \in [Uis -> BOOLEAN] /\ split' \in BOOLEAN
    BY <1>2 DEF StopDaemon, TypeOK
  <2> QED BY <1>2, <2>2, <2>3, <2>4, <2>5, <2>6 DEF StopDaemon, TypeOK
<1>3. ASSUME NEW u \in Uis, StartUi(u) PROVE TypeOK'
  BY <1>3 DEF StartUi, TypeOK
<1>4. ASSUME NEW u \in Uis, EndUi(u) PROVE TypeOK'
  BY <1>0, <1>4 DEF EndUi, TypeOK
<1>5. ASSUME NEW u \in Uis, NEW readable \in BOOLEAN, ServeStatus(u, readable) PROVE TypeOK'
  <2>1. queue' \in Seq(Entries)
    BY <1>5, StatusEffect, FirstEntry
  <2>2. UNCHANGED <<file, kernel, loaded, form, draft, faults, stops, restarted, split>>
    BY <1>5, StatusEffect
  <2>3. [code |-> 503, config |-> NoConfig] \in Answers
    BY AnswerType
  <2>4. \/ UNCHANGED <<pc, current, answer>>
        \/ /\ pc' = [pc EXCEPT ![u] = "read"] /\ current' = [current EXCEPT ![u] = kernel]
           /\ answer' = answer
        \/ /\ pc' = [pc EXCEPT ![u] = "idle"]
           /\ answer' = [answer EXCEPT ![u] = [code |-> 503, config |-> NoConfig]] /\ current' = current
    BY <1>5, StatusEffect
  <2>5. pc' \in [Uis -> Places]
    BY <2>4 DEF TypeOK, Places
  <2>6. current' \in [Uis -> Configs \cup {NoConfig}]
    BY <2>4 DEF TypeOK
  <2>7. answer' \in [Uis -> Answers]
    BY <2>3, <2>4 DEF TypeOK
  <2> QED BY <2>1, <2>2, <2>5, <2>6, <2>7 DEF TypeOK, Entries, Places
<1>6. ASSUME NEW u \in Uis, LoadFile(u) PROVE TypeOK'
  BY <1>6 DEF LoadFile, TypeOK
<1>7. ASSUME NEW u \in Uis, Answering(u) PROVE TypeOK'
  <2>1. loaded # NoConfig /\ Head(queue)[1] = u /\ queue' = Tail(queue) /\ loaded' = NoConfig
    BY <1>7, AnswerEffect
  <2>2. queue # <<>>
    BY <2>1, Applying
  <2>3. queue' \in Seq(Entries)
    BY <2>1, <2>2, FirstEntry
  <2>4. kernel' \in {file, kernel} /\ split' \in {split, TRUE, FALSE} /\ faults' \in 0..MaxFaults
    <3>1. faults \in 0..MaxFaults
      BY DEF TypeOK
    <3> QED BY <1>7, <3>1, AnswerEffect
  <2>5. UNCHANGED <<file, form, current, draft, stops, restarted>>
    BY <1>7, AnswerEffect
  <2>6. PICK code \in {200, 409} : Answered(u, code)
    BY <1>7, AnswerEffect
  <2>7. kernel' \in Configs \cup {NoConfig} /\ split' \in BOOLEAN
    <3>1. split \in BOOLEAN
      BY DEF TypeOK
    <3>2. split' \in BOOLEAN
      BY <2>4, <3>1, Zenon
    <3> QED BY <2>4, <3>2 DEF TypeOK
  <2>8. [code |-> code, config |-> kernel'] \in Answers
    BY <2>7, AnswerType
  <2>9. answer' \in [Uis -> Answers] /\ pc' \in [Uis -> Places]
    <3>1. "idle" \in Places
      BY DEF Places
    <3> QED BY <2>6, <2>8, <3>1, Updates DEF Answered
  <2> QED BY <2>1, <2>3, <2>4, <2>5, <2>7, <2>9 DEF TypeOK, Entries, Places
<1>8. ASSUME NEW u \in Uis, Prepare(u) PROVE TypeOK'
  <2>1. pc[u] = "read"
        /\ UNCHANGED <<file, kernel, queue, loaded, form, current, faults, stops, restarted, split>>
    BY <1>8, PrepareEffect
  <2>2. current[u] \in Configs /\ file \in Configs /\ form[u] \in Forms
    BY <2>1 DEF DraftInv, FileInv, TypeOK
  <2>3. [code |-> 200, config |-> current[u]] \in Answers /\ [code |-> 409, config |-> NoConfig] \in Answers
    BY <2>2, AnswerType
  <2>4. CASE pc' = [pc EXCEPT ![u] = "idle"] /\ draft' = draft /\ answer' \in [Uis -> Answers]
    BY <2>1, <2>4 DEF TypeOK
  <2>5. CASE /\ current[u].gen # MaxGeneration
             /\ pc' = [pc EXCEPT ![u] = "write"] /\ answer' = answer
             /\ draft' = [draft EXCEPT ![u] = [gen  |-> current[u].gen + 1,
                                               mode |-> Setting(form[u], file).mode,
                                               id   |-> Setting(form[u], file).id]]
    <3>1. draft' \in [Uis -> Configs \cup {NoConfig}]
      BY <2>2, <2>5, DraftType DEF TypeOK
    <3> QED BY <2>1, <2>5, <3>1 DEF TypeOK
  <2>6. \A a \in Answers : [answer EXCEPT ![u] = a] \in [Uis -> Answers]
    BY DEF TypeOK
  <2> QED BY <1>8, <2>3, <2>4, <2>5, <2>6, PrepareEffect
<1>9. ASSUME NEW u \in Uis, NEW code \in {409, 500}, PrepareFails(u, code) PROVE TypeOK'
  <2>1. [code |-> code, config |-> NoConfig] \in Answers
    BY AnswerType
  <2> QED BY <1>9, <2>1 DEF PrepareFails, Fail, TypeOK
<1>10. ASSUME NEW u \in Uis, Persist(u) PROVE TypeOK'
  BY <1>10 DEF Persist, TypeOK
<1>11. ASSUME NEW u \in Uis, RequestApply(u) PROVE TypeOK'
  <2>1. [code |-> 503, config |-> NoConfig] \in Answers
    BY AnswerType
  <2>2. Append(queue, <<u, "apply">>) \in Seq(Entries)
    BY <1>0, AppendProperties DEF Entries
  <2>3. pc' \in [Uis -> Places] /\ answer' \in [Uis -> Answers]
    <3>1. "idle" \in Places /\ "apply" \in Places
      BY DEF Places
    <3>2. CASE pc' = [pc EXCEPT ![u] = "apply"] /\ answer' = answer
      BY <3>1, <3>2, Updates
    <3>3. CASE /\ pc' = [pc EXCEPT ![u] = "idle"]
               /\ answer' = [answer EXCEPT ![u] = [code |-> 503, config |-> NoConfig]]
      BY <2>1, <3>1, <3>3, Updates
    <3>4. TypeOK
      OBVIOUS
    <3> HIDE DEF IInv
    <3> QED BY <1>11, <3>2, <3>3, <3>4, RequestEffect
  <2>4. split' \in BOOLEAN
    <3>1. split \in BOOLEAN
      BY DEF TypeOK
    <3> QED BY <1>11, <3>1, RequestEffect
  <2>5. queue' \in Seq(Entries) /\ UNCHANGED <<file, kernel, loaded, form, current, draft, faults, stops, restarted>>
    BY <1>0, <1>11, <2>2, RequestEffect
  <2> QED BY <2>3, <2>4, <2>5 DEF TypeOK, Entries, Places
<1>12. ASSUME NEW u \in Uis, NEW f \in Forms, Submit(u, f) PROVE TypeOK'
  <2>1. [code |-> 503, config |-> NoConfig] \in Answers
    BY AnswerType
  <2>2. Append(queue, <<u, "status">>) \in Seq(Entries)
    BY <1>0, AppendProperties DEF Entries
  <2>3. pc' \in [Uis -> Places] /\ form' \in [Uis -> Forms] /\ answer' \in [Uis -> Answers]
    <3>1. "idle" \in Places /\ "status" \in Places
      BY DEF Places
    <3>2. TypeOK
      OBVIOUS
    <3> HIDE DEF IInv
    <3> QED BY <1>0, <1>12, <2>1, <3>1, <3>2, SubmitEffect, Updates
  <2>4. current' \in [Uis -> Configs \cup {NoConfig}] /\ draft' \in [Uis -> Configs \cup {NoConfig}]
        /\ restarted' \in [Uis -> BOOLEAN]
    <3>1. current' = [current EXCEPT ![u] = NoConfig] /\ draft' = [draft EXCEPT ![u] = NoConfig]
          /\ restarted' = [restarted EXCEPT ![u] = FALSE]
      BY <1>12, SubmitEffect
    <3> QED BY <3>1 DEF TypeOK
  <2>5. queue' \in Seq(Entries) /\ UNCHANGED <<file, kernel, loaded, faults, stops, split>>
    BY <1>0, <1>12, <2>2, SubmitEffect
  <2> QED BY <2>3, <2>4, <2>5 DEF TypeOK, Entries, Places
<1>13. CASE UNCHANGED vars
  BY <1>13 DEF vars, TypeOK
<1> QED BY <1>1, <1>2, <1>3, <1>4, <1>5, <1>6, <1>7, <1>8, <1>9, <1>10, <1>11, <1>12, <1>13
        DEF Next, Serve, Handle, Answering

-----------------------------------------------------------------------------
(* What the steps have in common.                                          *)

\* A request answered with success has taken effect.
Succeeded(u) == answer[u].code = 200 /\ ~restarted[u] => Fulfils(answer[u].config, form[u])

\* All but the types: what the lemmas below show one action at a time.
Rest ==
  /\ OneInv /\ QueueInv /\ LoadedInv /\ FileInv
  /\ \A u \in Uis : DraftInv(u)
  /\ \A u \in Uis : Succeeded(u)

\* The property of the specification, in terms of Fulfils.
LEMMA SuccessMeans == SuccessTakesEffect <=> \A u \in Uis : Succeeded(u)
BY DEF SuccessTakesEffect, Succeeded, Fulfils

\* While one process moves, the others are not running.
LEMMA Move ==
  ASSUME TypeOK, OneInv, NEW u \in Uis, Running(u), NEW p, pc' = [pc EXCEPT ![u] = p]
  PROVE  /\ pc'[u] = p
         /\ \A v \in Uis : v # u => pc'[v] = pc[v] /\ pc[v] \in {"off", "dead"}
         /\ OneInv'
<1>1. pc'[u] = p /\ \A v \in Uis : v # u => pc'[v] = pc[v]
  BY DEF TypeOK
<1>2. \A v \in Uis : v # u => pc[v] \in {"off", "dead"}
  BY DEF OneInv, Running
<1>3. \A v \in Uis : Running(v)' => v = u
  BY <1>1, <1>2 DEF Running
<1> QED BY <1>1, <1>2, <1>3 DEF OneInv

\* Nothing is being applied while the backlog is empty.
LEMMA NothingLoaded ==
  ASSUME LoadedInv, queue = <<>>
  PROVE  loaded = NoConfig
BY DEF LoadedInv

\* The backlog is empty and nobody waits.
LEMMA EmptyBacklog ==
  ASSUME queue' = <<>>, \A v \in Uis : pc'[v] \notin {"status", "apply"}
  PROVE  QueueInv'
<1>1. Len(queue') = 0 /\ 1..Len(queue') = {}
  OBVIOUS
<1> QED BY <1>1 DEF QueueInv

\* The request of a process that ended leaves the backlog.
LEMMA DropDead ==
  ASSUME TypeOK, QueueInv, queue # <<>>, queue' = Tail(queue), pc' = pc, Up, Up', pc[queue[1][1]] = "dead"
  PROVE  QueueInv'
<1>1. /\ Len(queue) \in Nat \ {0} /\ Len(queue') = Len(queue) - 1
      /\ \A i \in 1..Len(queue') : queue'[i] = queue[i + 1]
  BY FirstEntry
<1>2. ASSUME NEW i \in 1..Len(queue')
      PROVE  pc'[queue'[i][1]] = "dead" \/ (i = Len(queue') /\ pc'[queue'[i][1]] = queue'[i][2])
  <2>1. i + 1 \in 1..Len(queue) /\ (i + 1 = Len(queue) => i = Len(queue'))
    BY <1>1
  <2>2. pc[queue[i + 1][1]] = "dead" \/ (i + 1 = Len(queue) /\ pc[queue[i + 1][1]] = queue[i + 1][2])
    BY <2>1 DEF QueueInv
  <2> QED BY <1>1, <2>1, <2>2
<1>3. ASSUME NEW v \in Uis PROVE pc'[v] \notin {"read", "write", "persisted", "apply"}
  <2>1. pc[v] \notin {"read", "write", "persisted"}
    BY DEF QueueInv
  <2>2. pc[v] # "apply"
    <3> SUFFICES ASSUME pc[v] = "apply" PROVE FALSE
      OBVIOUS
    <3>1. queue[1] = <<v, "apply">>
      BY DEF QueueInv
    <3> QED BY <3>1
  <2> QED BY <2>1, <2>2
<1>4. ASSUME NEW v \in Uis, pc'[v] = "status" PROVE queue' # <<>> /\ queue'[Len(queue')] = <<v, "status">>
  <2>1. queue[Len(queue)] = <<v, "status">>
    BY <1>4 DEF QueueInv
  <2>2. Len(queue) # 1
    BY <1>4, <2>1
  <2>3. Len(queue') \in 1..Len(queue') /\ Len(queue') + 1 = Len(queue)
    BY <1>1, <2>2
  <2>4. queue' # <<>>
    <3>1. Len(queue') # 0
      BY <1>1, <2>2
    <3>2. Len(<<>>) = 0
      OBVIOUS
    <3> QED BY <3>1, <3>2, Zenon
  <2> QED BY <1>1, <2>1, <2>3, <2>4
<1> QED BY <1>2, <1>3, <1>4 DEF QueueInv

\* A running process that was not waiting sends a request.
LEMMA Send ==
  ASSUME TypeOK, OneInv, QueueInv, NEW u \in Uis, pc[u] \in {"idle", "persisted"},
         NEW what \in {"status", "apply"}, what = "apply" => queue = <<>>,
         pc' = [pc EXCEPT ![u] = what], queue' = Append(queue, <<u, what>>), Up'
  PROVE  QueueInv'
<1>0. Running(u)
  BY DEF Running
<1>1. pc'[u] = what /\ \A v \in Uis : v # u => pc'[v] = pc[v] /\ pc[v] \in {"off", "dead"}
  BY <1>0, Move
<1>2. \A i \in 1..Len(queue) : queue[i][1] # u /\ queue[i][1] \in Uis /\ pc[queue[i][1]] = "dead"
  <2> SUFFICES ASSUME NEW i \in 1..Len(queue)
               PROVE  queue[i][1] # u /\ queue[i][1] \in Uis /\ pc[queue[i][1]] = "dead"
    OBVIOUS
  <2>1. queue[i][1] \in Uis /\ queue[i][2] \in {"status", "apply"}
    BY EntryType
  <2>2. pc[queue[i][1]] = "dead" \/ pc[queue[i][1]] = queue[i][2]
    BY DEF QueueInv
  <2> QED BY <1>1, <2>1, <2>2
<1>3. /\ Len(queue) \in Nat /\ Len(queue') = Len(queue) + 1 /\ queue'[Len(queue')] = <<u, what>>
      /\ \A i \in 1..Len(queue) : queue'[i] = queue[i]
  <2>1. queue \in Seq(Entries) /\ <<u, what>> \in Entries
    BY DEF TypeOK, Entries
  <2> QED BY <2>1, AppendProperties, LenProperties
<1>4. ASSUME NEW i \in 1..Len(queue')
      PROVE  pc'[queue'[i][1]] = "dead" \/ (i = Len(queue') /\ pc'[queue'[i][1]] = queue'[i][2])
  <2>1. CASE i = Len(queue')
    BY <1>1, <1>3, <2>1
  <2>2. CASE i # Len(queue')
    <3>1. i \in 1..Len(queue) /\ queue'[i] = queue[i]
      BY <1>3, <2>2
    <3> QED BY <1>1, <1>2, <3>1
  <2> QED BY <2>1, <2>2
<1>5. what = "apply" => Len(queue') = 1
  BY <1>3
<1>6. queue' # <<>>
  BY <1>3
<1>7. \A v \in Uis : /\ pc'[v] \notin {"read", "write", "persisted"}
                     /\ pc'[v] \in {"status", "apply"} => v = u /\ pc'[v] = what
  BY <1>1
<1> QED BY <1>3, <1>4, <1>5, <1>6, <1>7 DEF QueueInv

-----------------------------------------------------------------------------
(* The daemon.                                                             *)

\* A start of the daemon installs what the file holds: what a request that is
\* being prepared was told, or what it persisted.
LEMMA StartDaemonKeeps ==
  ASSUME TypeOK, Rest, NEW mode \in Modes, StartDaemon(mode)
  PROVE  Rest'
<1>1. /\ ~Up /\ UNCHANGED <<queue, loaded, pc, form, current, draft, answer, restarted, split>>
      /\ file' = kernel' /\ file' \in Configs /\ (file # NoConfig => file' = file)
  <2>1. ~Up /\ UNCHANGED <<queue, loaded, pc, form, current, draft, answer, restarted, split>>
    BY DEF StartDaemon, daemon, request
  <2>2. CASE file = NoConfig
    BY <2>1, <2>2, FirstType DEF StartDaemon
  <2>3. CASE file # NoConfig
    BY <2>1, <2>3 DEF StartDaemon, TypeOK
  <2> QED BY <2>2, <2>3
<1>2. queue = <<>> /\ loaded = NoConfig
  BY <1>1, NothingLoaded DEF Rest, QueueInv
<1>3. OneInv'
  BY <1>1 DEF Rest, OneInv, Running
<1>4. QueueInv'
  BY <1>1, <1>2, EmptyBacklog DEF Rest, QueueInv
<1>5. LoadedInv'
  BY <1>1, <1>2 DEF LoadedInv
<1>6. file' # NoConfig /\ file'.gen \in Nat
  BY <1>1, NoConfigAssumption DEF Configs
<1>7. FileInv'
  BY <1>1, <1>6 DEF FileInv
<1>8. ASSUME NEW u \in Uis PROVE DraftInv(u)'
  <2>1. CASE pc[u] \in {"read", "write"}
    <3>1. file' = file
      BY <1>1, <2>1 DEF Rest, FileInv
    <3>2. ~restarted[u] => kernel' = current[u]
      BY <1>1, <2>1, <3>1 DEF Rest, DraftInv
    <3>3. current[u] \in Configs /\ file.gen \in {current[u].gen, current[u].gen + 1}
          /\ (~split => file.gen = current[u].gen)
      BY <2>1 DEF Rest, DraftInv
    <3>4. kernel'.gen >= current[u].gen
      BY <1>1, <3>1, <3>3 DEF Configs
    <3>5. pc[u] = "write" =>
            draft[u] \in Configs /\ draft[u].gen = current[u].gen + 1 /\ Fulfils(draft[u], form[u])
      BY DEF Rest, DraftInv
    <3>6. Up'
      BY <1>1, NoConfigAssumption DEF Up
    <3> QED BY <1>1, <2>1, <3>1, <3>2, <3>3, <3>4, <3>5, <3>6 DEF DraftInv, Fulfils
  <2>2. CASE pc[u] \in {"persisted", "apply"}
    <3>1. file' = file
      BY <1>1, <2>2 DEF Rest, FileInv
    <3>2. Fulfils(file, form[u])
      BY <1>1, <2>2 DEF Rest, DraftInv
    <3> QED BY <1>1, <2>2, <3>1, <3>2 DEF DraftInv, Fulfils
  <2>3. CASE pc[u] \notin {"read", "write", "persisted", "apply"}
    BY <1>1, <2>3 DEF DraftInv
  <2> QED BY <2>1, <2>2, <2>3
<1>9. \A u \in Uis : Succeeded(u)'
  BY <1>1 DEF Rest, Succeeded, Fulfils
<1> QED BY <1>3, <1>4, <1>5, <1>7, <1>8, <1>9 DEF Rest

\* When the daemon stops, whoever waits for it fails, and whoever prepares a
\* request is marked unless the file holds what ran.
LEMMA StopDaemonKeeps ==
  ASSUME TypeOK, Rest, StopDaemon
  PROVE  Rest'
<1>1. kernel' = NoConfig /\ queue' = <<>> /\ loaded' = NoConfig
      /\ UNCHANGED <<file, form, current, draft>> /\ (~split' => ~split)
  BY DEF StopDaemon, request
<1>2. \A u \in Uis : /\ pc[u] \in {"status", "apply"} =>
                          pc'[u] = "idle" /\ answer'[u] = [code |-> 503, config |-> NoConfig]
                     /\ pc[u] \notin {"status", "apply"} => pc'[u] = pc[u] /\ answer'[u] = answer[u]
  BY DEF StopDaemon
<1>3. \A u \in Uis : ~restarted'[u] => ~restarted[u] /\ (pc[u] \in {"read", "write"} => file = kernel)
  BY DEF StopDaemon
<1>4. ~Up'
  BY <1>1 DEF Up
<1>5. OneInv'
  BY <1>2 DEF Rest, OneInv, Running
<1>6. QueueInv'
  BY <1>1, <1>2, EmptyBacklog
<1>7. LoadedInv'
  BY <1>1 DEF LoadedInv
<1>8. FileInv'
  BY <1>1, <1>2, <1>4 DEF Rest, FileInv
<1>9. ASSUME NEW u \in Uis PROVE DraftInv(u)'
  <2>1. pc'[u] # "apply" /\ (pc'[u] \in {"read", "write", "persisted"} => pc'[u] = pc[u])
    BY <1>2
  <2>2. CASE pc'[u] \in {"read", "write"}
    <3>1. DraftInv(u) /\ pc'[u] = pc[u]
      BY <2>1, <2>2 DEF Rest
    <3>2. /\ current[u] \in Configs /\ file.gen \in {current[u].gen, current[u].gen + 1}
          /\ ~split => file.gen = current[u].gen
          /\ pc[u] = "write" =>
               draft[u] \in Configs /\ draft[u].gen = current[u].gen + 1 /\ Fulfils(draft[u], form[u])
      BY <2>2, <3>1 DEF DraftInv
    <3>3. Up
      BY DEF StopDaemon
    <3>4. ~restarted'[u] => file = current[u]
      BY <1>3, <2>2, <3>1, <3>3 DEF DraftInv
    <3> QED BY <1>1, <1>4, <2>2, <3>1, <3>2, <3>4 DEF DraftInv, Fulfils
  <2>3. CASE pc'[u] = "persisted"
    BY <1>1, <1>4, <2>1, <2>3 DEF Rest, DraftInv, Fulfils
  <2> QED BY <2>1, <2>2, <2>3 DEF DraftInv
<1>10. ASSUME NEW u \in Uis PROVE Succeeded(u)'
  <2>1. Succeeded(u) /\ form'[u] = form[u]
    BY <1>1 DEF Rest
  <2>2. answer'[u] = answer[u] \/ answer'[u].code # 200
    BY <1>2
  <2> QED BY <1>3, <2>1, <2>2 DEF Succeeded, Fulfils
<1> QED BY <1>5, <1>6, <1>7, <1>8, <1>9, <1>10 DEF Rest

\* The file is read for an apply request.
LEMMA LoadFileKeeps ==
  ASSUME TypeOK, Rest, NEW u \in Uis, LoadFile(u)
  PROVE  Rest'
<1>1. queue # <<>> /\ Head(queue) = <<u, "apply">> /\ loaded' = file
      /\ UNCHANGED <<file, kernel, queue, pc, form, current, draft, answer, restarted, split>>
  BY DEF LoadFile, store, request, history
<1>2. LoadedInv'
  BY <1>1 DEF LoadedInv
<1>3. OneInv' /\ FileInv' /\ QueueInv'
  BY <1>1 DEF Rest, OneInv, Running, FileInv, QueueInv, Up
<1>4. \A v \in Uis : DraftInv(v)' /\ Succeeded(v)'
  BY <1>1 DEF Rest, DraftInv, Succeeded, Fulfils, Up
<1> QED BY <1>2, <1>3, <1>4 DEF Rest

\* A status request is answered with what runs.
LEMMA StatusKeeps ==
  ASSUME TypeOK, Rest, NEW u \in Uis, NEW readable \in BOOLEAN, ServeStatus(u, readable)
  PROVE  Rest'
<1>0. QueueInv /\ LoadedInv /\ FileInv /\ OneInv
  BY DEF Rest
<1>1. /\ Up /\ queue # <<>> /\ queue[1] = <<u, "status">> /\ queue' = Tail(queue) /\ loaded' = NoConfig
      /\ UNCHANGED <<file, kernel, form, draft, restarted, split>>
  BY <1>0, StatusEffect
<1>2. Up' /\ LoadedInv' /\ kernel \in Configs /\ file \in Configs
  BY <1>0, <1>1 DEF Up, LoadedInv, FileInv, TypeOK
<1>3. CASE pc[u] = "dead" /\ UNCHANGED <<pc, current, answer>>
  <2>1. QueueInv'
    BY <1>0, <1>1, <1>2, <1>3, DropDead
  <2>2. OneInv' /\ FileInv'
    BY <1>0, <1>1, <1>3 DEF OneInv, Running, FileInv, Up
  <2>3. \A v \in Uis : DraftInv(v)' /\ Succeeded(v)'
    BY <1>1, <1>3 DEF Rest, DraftInv, Succeeded, Fulfils, Up
  <2> QED BY <1>2, <2>1, <2>2, <2>3 DEF Rest
<1>4. CASE pc[u] = "status" /\ Len(queue) = 1
  <2>0. Running(u)
    BY <1>4 DEF Running
  <2>1. queue' = <<>>
    <3>1. queue' \in Seq(Entries) /\ Len(queue') = 0
      BY <1>1, <1>4, FirstEntry
    <3> QED BY <3>1, EmptySeq
  <2>2. \/ /\ pc' = [pc EXCEPT ![u] = "read"] /\ current' = [current EXCEPT ![u] = kernel]
           /\ answer' = answer
        \/ /\ pc' = [pc EXCEPT ![u] = "idle"]
           /\ answer' = [answer EXCEPT ![u] = [code |-> 503, config |-> NoConfig]] /\ current' = current
    BY <1>0, <1>4, StatusEffect
  <2>3. /\ OneInv' /\ pc'[u] \in {"read", "idle"}
        /\ \A v \in Uis : v # u => pc'[v] = pc[v] /\ pc[v] \in {"off", "dead"}
    BY <1>0, <2>0, <2>2, Move
  <2>4. QueueInv'
    <3>1. \A v \in Uis : pc'[v] \notin {"status", "apply"}
      BY <2>3
    <3> QED BY <2>1, <3>1, EmptyBacklog
  <2>5. split \/ file = kernel
    <3>1. \A v \in Uis : pc[v] \notin {"persisted", "apply"}
      BY <1>4, <2>3
    <3> QED BY <1>0, <1>1, <3>1 DEF FileInv
  <2>6. FileInv'
    BY <1>0, <1>1, <1>2, <2>5, NoConfigAssumption DEF FileInv, Up
  <2>7. DraftInv(u)'
    <3>1. CASE pc'[u] = "idle"
      BY <3>1 DEF DraftInv
    <3>2. CASE pc'[u] = "read"
      <4>1. current'[u] = kernel
        BY <2>2, <3>2 DEF TypeOK
      <4>2. file.gen \in {kernel.gen, kernel.gen + 1} /\ kernel.gen >= kernel.gen
        BY <1>0, <1>1, <1>2 DEF FileInv, Configs
      <4> QED BY <1>1, <1>2, <2>5, <3>2, <4>1, <4>2 DEF DraftInv
    <3> QED BY <2>3, <3>1, <3>2
  <2>8. \A v \in Uis : DraftInv(v)'
    <3>1. \A v \in Uis : v # u => pc'[v] \in {"off", "dead"}
      BY <2>3
    <3> QED BY <2>7, <3>1 DEF DraftInv
  <2>9. ASSUME NEW v \in Uis PROVE Succeeded(v)'
    <3>1. answer'[v] = answer[v] \/ answer'[v].code # 200
      BY <2>2 DEF TypeOK
    <3> QED BY <1>1, <3>1 DEF Rest, Succeeded, Fulfils
  <2> QED BY <1>2, <2>3, <2>4, <2>6, <2>8, <2>9 DEF Rest
<1> QED BY <1>0, <1>3, <1>4, StatusEffect

\* An apply request is answered: success means that what the file holds runs.
\* A generation that is active already is the one the sender wrote only if the
\* daemon came back with it.
LEMMA AnswerKeeps ==
  ASSUME TypeOK, Rest, NEW u \in Uis, Answering(u)
  PROVE  Rest'
<1>0. QueueInv /\ LoadedInv /\ FileInv /\ OneInv
  BY DEF Rest
<1>1. /\ loaded # NoConfig /\ Head(queue)[1] = u /\ queue' = Tail(queue) /\ loaded' = NoConfig
      /\ UNCHANGED <<file, form, current, draft, stops, restarted>>
  BY <1>0, AnswerEffect
<1>2. \/ kernel' = kernel /\ kernel.gen = file.gen /\ split' = split
      \/ kernel' = file /\ split' = FALSE
      \/ kernel' = kernel /\ split' = TRUE
  <2>1. \/ kernel' = kernel /\ kernel.gen = file.gen /\ split' = split /\ faults' = faults
        \/ kernel' = file /\ split' = FALSE /\ faults' \in 0..MaxFaults
        \/ kernel' = kernel /\ split' = TRUE /\ faults' \in 0..MaxFaults
    BY <1>0, AnswerEffect
  <2> QED BY <2>1
<1>3. PICK code \in {200, 409} : Answered(u, code)
  BY <1>0, AnswerEffect
<1>4. /\ Up /\ queue # <<>> /\ queue[1] = <<u, "apply">> /\ pc[u] \in {"dead", "apply"}
      /\ \A v \in Uis : pc[v] \notin {"read", "write", "persisted"} /\ (pc[v] = "apply" => v = u)
      /\ file \in Configs /\ kernel \in Configs
  BY <1>0, <1>1, Applying
<1>5. kernel' \in Configs /\ Up' /\ LoadedInv'
  BY <1>1, <1>2, <1>4, NoConfigAssumption DEF Up, LoadedInv
<1>6. FileInv'
  <2>1. file' = file /\ file # NoConfig /\ file.gen \in Nat /\ kernel.gen \in Nat
    BY <1>1, <1>4, NoConfigAssumption DEF Configs
  <2>2. kernel.gen <= file.gen /\ file.gen <= kernel.gen + 1
        /\ (~split => file = kernel \/ file.gen = kernel.gen + 1)
    BY <1>0, <1>4 DEF FileInv
  <2>3. kernel'.gen <= file.gen /\ file.gen <= kernel'.gen + 1
    BY <1>2, <2>1, <2>2
  <2>4. split' \/ file = kernel'
    BY <1>2, <2>1, <2>2
  <2> QED BY <2>1, <2>3, <2>4 DEF FileInv
<1>7. CASE pc[u] = "apply"
  <2>1. pc' = [pc EXCEPT ![u] = "idle"]
        /\ answer' = [answer EXCEPT ![u] = [code |-> code, config |-> kernel']]
    BY <1>3, <1>7 DEF Answered
  <2>2. Running(u)
    BY <1>7 DEF Running
  <2>3. /\ pc'[u] = "idle"
        /\ \A v \in Uis : v # u => pc'[v] = pc[v] /\ pc[v] \in {"off", "dead"}
        /\ OneInv'
    BY <1>0, <2>1, <2>2, Move
  <2>4. \A v \in Uis : pc'[v] \in {"off", "dead", "idle"}
    BY <2>3
  <2>5. queue' = <<>>
    <3>1. Len(queue) = 1
      BY <1>0, <1>7 DEF QueueInv
    <3>2. queue' \in Seq(Entries) /\ Len(queue') = 0
      BY <1>1, <1>4, <3>1, FirstEntry
    <3> QED BY <3>2, EmptySeq
  <2>6. QueueInv'
    BY <2>4, <2>5, EmptyBacklog
  <2>7. \A v \in Uis : DraftInv(v)'
    BY <2>4 DEF DraftInv
  <2>8. Succeeded(u)'
    <3> SUFFICES ASSUME answer'[u].code = 200, ~restarted'[u] PROVE Fulfils(answer'[u].config, form'[u])
      BY DEF Succeeded
    <3>1. answer'[u] = [code |-> code, config |-> kernel']
      BY <2>1 DEF TypeOK
    <3>2. code = 200 /\ answer'[u].config = kernel'
      BY <3>1
    <3>3. Fulfils(file, form[u]) /\ (kernel = file \/ file.gen = kernel.gen + 1)
      BY <1>1, <1>4, <1>7 DEF Rest, DraftInv
    <3>4. kernel = file \/ kernel.gen # file.gen
      BY <1>4, <3>3 DEF Configs
    <3>5. kernel' = file
      BY <1>2, <1>3, <3>2, <3>4 DEF Answered
    <3> QED BY <1>1, <3>2, <3>3, <3>5 DEF Fulfils
  <2>9. ASSUME NEW v \in Uis, v # u PROVE Succeeded(v)'
    <3>1. answer'[v] = answer[v]
      BY <2>1, <2>9 DEF TypeOK
    <3> QED BY <1>1, <3>1 DEF Rest, Succeeded, Fulfils
  <2> QED BY <1>5, <1>6, <2>3, <2>6, <2>7, <2>8, <2>9 DEF Rest
<1>8. CASE pc[u] = "dead"
  <2>1. pc' = pc /\ answer' = answer
    BY <1>3, <1>8 DEF Answered
  <2>2. QueueInv'
    BY <1>0, <1>1, <1>4, <1>5, <1>8, <2>1, DropDead
  <2>3. \A v \in Uis : pc'[v] \notin {"read", "write", "persisted", "apply"}
    BY <1>4, <1>8, <2>1
  <2>4. \A v \in Uis : DraftInv(v)'
    BY <2>3 DEF DraftInv
  <2>5. OneInv' /\ \A v \in Uis : Succeeded(v)'
    BY <1>1, <2>1 DEF Rest, OneInv, Running, Succeeded, Fulfils
  <2> QED BY <1>5, <1>6, <2>2, <2>4, <2>5 DEF Rest
<1> QED BY <1>4, <1>7, <1>8

-----------------------------------------------------------------------------
(* The WebUI processes.                                                    *)

\* The manager starts a WebUI process only when none runs.
LEMMA StartUiKeeps ==
  ASSUME TypeOK, Rest, OneUi, NEW u \in Uis, StartUi(u)
  PROVE  Rest'
<1>1. pc[u] = "off" /\ pc' = [pc EXCEPT ![u] = "idle"] /\ \A v \in Uis : pc[v] \in {"off", "dead"}
  BY DEF StartUi, Goto
<1>2. UNCHANGED <<file, kernel, queue, loaded, form, current, draft, answer, restarted, split>>
  BY DEF StartUi, store, daemon, request, history
<1>3. pc'[u] = "idle" /\ \A v \in Uis : v # u => pc'[v] = pc[v]
  BY <1>1 DEF TypeOK
<1>4. \A v \in Uis : pc'[v] \in {"off", "dead", "idle"} /\ (Running(v)' => v = u)
  BY <1>1, <1>3 DEF Running
<1>5. OneInv'
  BY <1>4 DEF OneInv
<1>6. QueueInv'
  <2>1. ASSUME NEW i \in 1..Len(queue) PROVE pc'[queue[i][1]] = "dead"
    <3>1. queue[i][1] \in Uis /\ queue[i][2] \in {"status", "apply"}
      BY EntryType
    <3>2. pc[queue[i][1]] = "dead" \/ pc[queue[i][1]] = queue[i][2]
      BY DEF Rest, QueueInv
    <3>3. pc[queue[i][1]] = "dead"
      BY <1>1, <3>1, <3>2
    <3> QED BY <1>1, <1>3, <3>1, <3>3
  <2>2. ~Up' => queue' = <<>>
    BY <1>2 DEF Rest, QueueInv, Up
  <2> QED BY <1>2, <1>4, <2>1, <2>2 DEF QueueInv
<1>7. LoadedInv' /\ FileInv'
  <2>1. Up /\ ~split => file = kernel
    BY <1>1 DEF Rest, FileInv
  <2> QED BY <1>2, <1>4, <2>1 DEF Rest, LoadedInv, FileInv, Up
<1>8. \A v \in Uis : DraftInv(v)' /\ Succeeded(v)'
  BY <1>2, <1>4 DEF Rest, DraftInv, Succeeded, Fulfils
<1> QED BY <1>5, <1>6, <1>7, <1>8 DEF Rest

\* A WebUI process ends: its requests stay in the backlog, and what it had
\* persisted without an answer is a split.
LEMMA EndUiKeeps ==
  ASSUME TypeOK, Rest, NEW u \in Uis, EndUi(u)
  PROVE  Rest'
<1>1. /\ Running(u) /\ pc' = [pc EXCEPT ![u] = "dead"]
      /\ answer' = [answer EXCEPT ![u] = None] /\ form' = [form EXCEPT ![u] = NoForm]
      /\ restarted' = [restarted EXCEPT ![u] = FALSE]
  BY DEF EndUi, Running
<1>2. UNCHANGED <<file, kernel, queue, loaded>> /\ (~split' => ~split /\ pc[u] \notin {"persisted", "apply"})
  BY DEF EndUi, store, daemon
<1>3. /\ OneInv' /\ pc'[u] = "dead"
      /\ \A v \in Uis : v # u => pc'[v] = pc[v] /\ pc[v] \in {"off", "dead"}
  BY <1>1, Move DEF Rest
<1>4. \A v \in Uis : pc'[v] \in {"off", "dead"}
  BY <1>3
<1>5. QueueInv'
  <2>1. ASSUME NEW i \in 1..Len(queue) PROVE pc'[queue[i][1]] = "dead"
    <3>1. queue[i][1] \in Uis /\ queue[i][2] \in {"status", "apply"}
      BY EntryType
    <3>2. pc[queue[i][1]] = "dead" \/ pc[queue[i][1]] = queue[i][2]
      BY DEF Rest, QueueInv
    <3> QED BY <1>3, <3>1, <3>2
  <2>2. ~Up' => queue' = <<>>
    BY <1>2 DEF Rest, QueueInv, Up
  <2> QED BY <1>2, <1>4, <2>1, <2>2 DEF QueueInv
<1>6. LoadedInv' /\ FileInv'
  <2>1. Up /\ ~split' => file = kernel
    BY <1>2, <1>3 DEF Rest, FileInv
  <2> QED BY <1>2, <1>4, <2>1 DEF Rest, LoadedInv, FileInv, Up
<1>7. ASSUME NEW v \in Uis PROVE DraftInv(v)' /\ Succeeded(v)'
  <2>1. DraftInv(v)'
    BY <1>4 DEF DraftInv
  <2>2. CASE v = u
    <3>1. answer'[v].code = 0
      BY <1>1, <2>2 DEF TypeOK, None
    <3> QED BY <2>1, <3>1 DEF Succeeded
  <2>3. CASE v # u
    <3>1. answer'[v] = answer[v] /\ form'[v] = form[v] /\ restarted'[v] = restarted[v]
      BY <1>1, <2>3 DEF TypeOK
    <3> QED BY <2>1, <3>1 DEF Rest, Succeeded, Fulfils
  <2> QED BY <2>2, <2>3
<1> QED BY <1>3, <1>5, <1>6, <1>7 DEF Rest

\* Where a process is between two of its requests, nobody else runs, the
\* backlog is empty and there is a file.
LEMMA Between ==
  ASSUME TypeOK, Rest, NEW u \in Uis, pc[u] \in {"read", "write", "persisted"}
  PROVE  Running(u) /\ OneInv /\ queue = <<>> /\ loaded = NoConfig /\ file \in Configs
<1>1. queue = <<>> /\ Running(u) /\ OneInv
  BY DEF Rest, QueueInv, Running
<1>2. file \in Configs
  BY DEF Rest, FileInv, TypeOK
<1> QED BY <1>1, <1>2, NothingLoaded DEF Rest

\* A process that is not between two requests has no draft to account for.
LEMMA OthersDraft ==
  ASSUME NEW u \in Uis, DraftInv(u)', \A v \in Uis : v # u => pc'[v] \in {"off", "dead"}
  PROVE  \A v \in Uis : DraftInv(v)'
<1>1. \A v \in Uis : v # u => DraftInv(v)'
  BY DEF DraftInv
<1> QED BY <1>1

\* Only the answer of the process that is answered changes.
LEMMA OthersAnswer ==
  ASSUME TypeOK, Rest, NEW u \in Uis, NEW a, answer' = [answer EXCEPT ![u] = a],
         \A v \in Uis : v # u => form'[v] = form[v] /\ restarted'[v] = restarted[v],
         a.code = 200 => Succeeded(u)'
  PROVE  \A v \in Uis : Succeeded(v)'
<1>1. answer'[u] = a /\ \A v \in Uis : v # u => answer'[v] = answer[v]
  BY DEF TypeOK
<1>2. Succeeded(u)'
  BY <1>1 DEF Succeeded
<1>3. \A v \in Uis : v # u => Succeeded(v)'
  BY <1>1 DEF Rest, Succeeded, Fulfils
<1> QED BY <1>2, <1>3

\* A request that fails is not answered with success.
LEMMA Refused ==
  ASSUME Rest, NEW u \in Uis, form' = form, restarted' = restarted,
         answer'[u].code # 200, \A v \in Uis : v # u => answer'[v] = answer[v]
  PROVE  \A v \in Uis : Succeeded(v)'
<1>1. Succeeded(u)'
  BY DEF Succeeded
<1>2. \A v \in Uis : v # u => Succeeded(v)'
  BY DEF Rest, Succeeded, Fulfils
<1> QED BY <1>1, <1>2

\* The request is compared with what runs and refused, found done, or turned
\* into the next configuration.
LEMMA PrepareKeeps ==
  ASSUME TypeOK, Rest, NEW u \in Uis, Prepare(u)
  PROVE  Rest'
<1>1. pc[u] = "read"
      /\ UNCHANGED <<file, kernel, queue, loaded, form, current, faults, stops, restarted, split>>
  BY PrepareEffect
<1>2. Running(u) /\ OneInv /\ queue = <<>> /\ loaded = NoConfig /\ file \in Configs
  BY <1>1, Between
<1>3. /\ current[u] \in Configs /\ form[u] \in Forms
      /\ file.gen \in {current[u].gen, current[u].gen + 1}
      /\ Up => kernel.gen >= current[u].gen
      /\ ~split => file.gen = current[u].gen
      /\ ~restarted[u] => (Up => kernel = current[u]) /\ (~Up => file = current[u])
  BY <1>1 DEF Rest, DraftInv, TypeOK
<1>4. LoadedInv'
  BY <1>1, <1>2 DEF LoadedInv
<1>5. ASSUME NEW p \in {"idle", "write"}, pc' = [pc EXCEPT ![u] = p]
      PROVE  /\ OneInv' /\ QueueInv' /\ FileInv' /\ pc'[u] = p
             /\ \A v \in Uis : v # u => pc'[v] \in {"off", "dead"}
  <2>1. /\ pc'[u] = p
        /\ \A v \in Uis : v # u => pc'[v] = pc[v] /\ pc[v] \in {"off", "dead"}
        /\ OneInv'
    BY <1>2, <1>5, Move
  <2>2. QueueInv'
    <3>1. \A v \in Uis : pc'[v] \notin {"status", "apply"}
      BY <2>1
    <3>2. queue' = <<>>
      BY <1>1, <1>2
    <3> QED BY <3>1, <3>2, EmptyBacklog
  <2>3. Up /\ ~split => file = kernel
    <3>1. \A v \in Uis : pc[v] \notin {"persisted", "apply"}
      BY <1>1, <2>1
    <3> QED BY <3>1 DEF Rest, FileInv
  <2>4. FileInv'
    BY <1>1, <1>2, <2>3, NoConfigAssumption DEF Rest, FileInv, Up
  <2> QED BY <2>1, <2>2, <2>4
<1>6. CASE /\ SameSetting(Setting(form[u], file), current[u])
           /\ pc' = [pc EXCEPT ![u] = "idle"] /\ draft' = draft
           /\ answer' = [answer EXCEPT ![u] = [code |-> 200, config |-> current[u]]]
  <2>1. Fulfils(current[u], form[u])
    <3>1. Fulfils(Setting(form[u], file), form[u])
      BY <1>2, <1>3, SettingFulfils
    <3> QED BY <1>6, <3>1 DEF SameSetting, Fulfils
  <2>2. Succeeded(u)'
    <3>1. answer'[u].config = current[u]
      BY <1>6 DEF TypeOK
    <3> QED BY <1>1, <2>1, <3>1 DEF Succeeded, Fulfils
  <2>3. \A v \in Uis : Succeeded(v)'
    BY <1>1, <1>6, <2>2, OthersAnswer
  <2>4. DraftInv(u)'
    BY <1>5, <1>6 DEF DraftInv
  <2> QED BY <1>4, <1>5, <1>6, <2>3, <2>4, OthersDraft DEF Rest
<1>7. CASE /\ pc' = [pc EXCEPT ![u] = "idle"] /\ draft' = draft
           /\ answer' = [answer EXCEPT ![u] = [code |-> 409, config |-> NoConfig]]
  <2>1. \A v \in Uis : Succeeded(v)'
    <3>1. answer'[u].code # 200 /\ \A v \in Uis : v # u => answer'[v] = answer[v]
      BY <1>7 DEF TypeOK
    <3> QED BY <1>1, <3>1, Refused
  <2>2. DraftInv(u)'
    BY <1>5, <1>7 DEF DraftInv
  <2> QED BY <1>4, <1>5, <1>7, <2>1, <2>2, OthersDraft DEF Rest
<1>8. CASE /\ current[u].gen # MaxGeneration
           /\ pc' = [pc EXCEPT ![u] = "write"] /\ answer' = answer
           /\ draft' = [draft EXCEPT ![u] = [gen  |-> current[u].gen + 1,
                                             mode |-> Setting(form[u], file).mode,
                                             id   |-> Setting(form[u], file).id]]
  <2>1. draft'[u] \in Configs /\ draft'[u].gen = current[u].gen + 1 /\ Fulfils(draft'[u], form[u])
    <3>1. draft'[u] = [gen |-> current[u].gen + 1, mode |-> Setting(form[u], file).mode,
                       id |-> Setting(form[u], file).id]
      BY <1>8 DEF TypeOK
    <3> QED BY <1>2, <1>3, <1>8, <3>1, DraftType
  <2>2. pc'[u] = "write"
    BY <1>5, <1>8
  <2>3. Up' = Up
    BY <1>1 DEF Up
  <2>4. DraftInv(u)'
    BY <1>1, <1>3, <2>1, <2>2, <2>3 DEF DraftInv, Fulfils
  <2>5. \A v \in Uis : Succeeded(v)'
    BY <1>1, <1>8 DEF Rest, Succeeded, Fulfils
  <2> QED BY <1>4, <1>5, <1>8, <2>4, <2>5, OthersDraft DEF Rest
<1> QED BY <1>6, <1>7, <1>8, PrepareEffect

\* The request fails before anything is written.
LEMMA PrepareFailsKeeps ==
  ASSUME TypeOK, Rest, NEW u \in Uis, NEW code \in {409, 500}, PrepareFails(u, code)
  PROVE  Rest'
<1>1. /\ pc[u] \in {"read", "write"} /\ pc' = [pc EXCEPT ![u] = "idle"]
      /\ answer' = [answer EXCEPT ![u] = [code |-> code, config |-> NoConfig]]
  BY DEF PrepareFails, Fail
<1>2. UNCHANGED <<file, kernel, queue, loaded, form, current, draft, restarted, split>>
  BY DEF PrepareFails, store, daemon, request, history
<1>3. Running(u) /\ OneInv /\ queue = <<>> /\ loaded = NoConfig /\ file \in Configs
  BY <1>1, Between
<1>4. /\ pc'[u] = "idle"
      /\ \A v \in Uis : v # u => pc'[v] = pc[v] /\ pc[v] \in {"off", "dead"}
      /\ OneInv'
  <2>1. pc' = [pc EXCEPT ![u] = "idle"]
    BY <1>1
  <2> QED BY <1>3, <2>1, Move
<1>5. QueueInv' /\ LoadedInv'
  <2>1. \A v \in Uis : pc'[v] \notin {"status", "apply"}
    BY <1>4
  <2>2. queue' = <<>> /\ loaded' = NoConfig
    BY <1>2, <1>3
  <2> QED BY <2>1, <2>2, EmptyBacklog DEF LoadedInv
<1>6. FileInv'
  <2>1. \A v \in Uis : pc[v] \notin {"persisted", "apply"}
    BY <1>1, <1>4
  <2>2. Up /\ ~split => file = kernel
    BY <2>1 DEF Rest, FileInv
  <2> QED BY <1>2, <1>3, <2>2, NoConfigAssumption DEF Rest, FileInv, Up
<1>7. DraftInv(u)'
  BY <1>4 DEF DraftInv
<1>8. \A v \in Uis : Succeeded(v)'
  <2>1. form' = form /\ restarted' = restarted
    BY <1>2
  <2>2. answer'[u].code # 200 /\ \A v \in Uis : v # u => answer'[v] = answer[v]
    BY <1>1 DEF TypeOK
  <2> QED BY <2>1, <2>2, Refused
<1> QED BY <1>4, <1>5, <1>6, <1>7, <1>8, OthersDraft DEF Rest

\* The next configuration is written: its generation is one above the one
\* the request read, and what runs cannot have come further meanwhile.
LEMMA PersistKeeps ==
  ASSUME TypeOK, Rest, NEW u \in Uis, Persist(u)
  PROVE  Rest'
<1>1. /\ pc[u] = "write" /\ pc' = [pc EXCEPT ![u] = "persisted"] /\ file' = draft[u]
      /\ UNCHANGED <<kernel, queue, loaded, form, current, answer, restarted, split>>
  BY DEF Persist, Goto, daemon, history
<1>2. Running(u) /\ OneInv /\ queue = <<>> /\ loaded = NoConfig /\ file \in Configs
  BY <1>1, Between
<1>3. /\ pc'[u] = "persisted"
      /\ \A v \in Uis : v # u => pc'[v] = pc[v] /\ pc[v] \in {"off", "dead"}
      /\ OneInv'
  BY <1>1, <1>2, Move
<1>4. QueueInv' /\ LoadedInv'
  <2>1. \A v \in Uis : pc'[v] \notin {"status", "apply"}
    BY <1>3
  <2>2. queue' = <<>> /\ loaded' = NoConfig
    BY <1>1, <1>2
  <2> QED BY <2>1, <2>2, EmptyBacklog DEF LoadedInv
<1>5. /\ current[u] \in Configs /\ draft[u] \in Configs /\ draft[u].gen = current[u].gen + 1
      /\ file.gen \in {current[u].gen, current[u].gen + 1} /\ Fulfils(draft[u], form[u])
      /\ Up => kernel.gen >= current[u].gen
      /\ ~split => file.gen = current[u].gen
      /\ ~restarted[u] /\ Up => kernel = current[u]
  BY <1>1 DEF Rest, DraftInv
<1>6. current[u].gen \in Nat /\ (Up => kernel.gen \in Nat) /\ Up' = Up
  BY <1>1, <1>5 DEF TypeOK, Up, Configs
<1>7. FileInv'
  <2>1. file' # NoConfig /\ file'.gen = current[u].gen + 1
    BY <1>1, <1>5, NoConfigAssumption
  <2>2. Up => kernel.gen <= file.gen
    BY DEF Rest, FileInv
  <2>3. Up' => kernel'.gen <= file'.gen /\ file'.gen <= kernel'.gen + 1
    BY <1>1, <1>5, <1>6, <2>1, <2>2
  <2>4. Up' /\ ~split' => file'.gen = kernel'.gen + 1
    BY <1>1, <1>5, <1>6, <2>1, <2>2
  <2>5. pc'[u] \in {"persisted", "apply"}
    BY <1>3
  <2> QED BY <2>1, <2>3, <2>4, <2>5 DEF FileInv
<1>8. DraftInv(u)'
  <2>1. ~restarted'[u] /\ Up' => file'.gen = kernel'.gen + 1
    BY <1>1, <1>5, <1>6
  <2> QED BY <1>1, <1>3, <1>5, <2>1 DEF DraftInv, Fulfils
<1>9. \A v \in Uis : Succeeded(v)'
  BY <1>1 DEF Rest, Succeeded, Fulfils
<1> QED BY <1>3, <1>4, <1>7, <1>8, <1>9, OthersDraft DEF Rest

\* The daemon is asked to load the file, or is not there to be asked.
LEMMA RequestKeeps ==
  ASSUME TypeOK, Rest, NEW u \in Uis, RequestApply(u)
  PROVE  Rest'
<1>1. pc[u] = "persisted" /\ UNCHANGED <<file, kernel, loaded, form, current, draft, faults, stops, restarted>>
  BY RequestEffect
<1>2. Running(u) /\ OneInv /\ queue = <<>> /\ loaded = NoConfig /\ file \in Configs
  BY <1>1, Between
<1>3. LoadedInv' /\ Up' = Up /\ QueueInv /\ FileInv
  BY <1>1, <1>2 DEF LoadedInv, Up, Rest
<1>4. CASE /\ Up /\ pc' = [pc EXCEPT ![u] = "apply"] /\ queue' = Append(queue, <<u, "apply">>)
           /\ UNCHANGED <<answer, split>>
  <2>1. /\ pc'[u] = "apply"
        /\ \A v \in Uis : v # u => pc'[v] = pc[v] /\ pc[v] \in {"off", "dead"}
        /\ OneInv'
    BY <1>2, <1>4, Move
  <2>2. QueueInv'
    BY <1>1, <1>2, <1>3, <1>4, Send
  <2>3. FileInv'
    <3>1. pc'[u] \in {"persisted", "apply"}
      BY <2>1
    <3> QED BY <1>1, <1>2, <1>3, <1>4, <3>1, NoConfigAssumption DEF FileInv
  <2>4. DraftInv(u)'
    <3>1. Fulfils(file, form[u]) /\ (~restarted[u] /\ Up => kernel = file \/ file.gen = kernel.gen + 1)
      BY <1>1 DEF Rest, DraftInv
    <3> QED BY <1>1, <1>3, <2>1, <3>1 DEF DraftInv, Fulfils
  <2>5. \A v \in Uis : Succeeded(v)'
    BY <1>1, <1>4 DEF Rest, Succeeded, Fulfils
  <2> QED BY <1>3, <2>1, <2>2, <2>3, <2>4, <2>5, OthersDraft DEF Rest
<1>5. CASE /\ pc' = [pc EXCEPT ![u] = "idle"] /\ queue' = queue /\ split' = TRUE
           /\ answer' = [answer EXCEPT ![u] = [code |-> 503, config |-> NoConfig]]
  <2>1. /\ pc'[u] = "idle"
        /\ \A v \in Uis : v # u => pc'[v] = pc[v] /\ pc[v] \in {"off", "dead"}
        /\ OneInv'
    BY <1>2, <1>5, Move
  <2>2. QueueInv'
    <3>1. \A v \in Uis : pc'[v] \notin {"status", "apply"}
      BY <2>1
    <3>2. queue' = <<>>
      BY <1>2, <1>5
    <3> QED BY <3>1, <3>2, EmptyBacklog
  <2>3. FileInv'
    BY <1>1, <1>2, <1>3, <1>5, NoConfigAssumption DEF FileInv
  <2>4. DraftInv(u)'
    BY <2>1 DEF DraftInv
  <2>5. \A v \in Uis : Succeeded(v)'
    <3>1. form' = form /\ restarted' = restarted
      BY <1>1
    <3>2. answer'[u].code # 200 /\ \A v \in Uis : v # u => answer'[v] = answer[v]
      BY <1>5 DEF TypeOK
    <3> QED BY <3>1, <3>2, Refused
  <2>6. \A v \in Uis : DraftInv(v)'
    BY <2>1, <2>4, OthersDraft
  <2> QED BY <1>3, <2>1, <2>2, <2>3, <2>5, <2>6 DEF Rest
<1>6. \/ /\ Up /\ pc' = [pc EXCEPT ![u] = "apply"] /\ queue' = Append(queue, <<u, "apply">>)
         /\ UNCHANGED <<answer, split>>
      \/ /\ pc' = [pc EXCEPT ![u] = "idle"] /\ queue' = queue /\ split' = TRUE
         /\ answer' = [answer EXCEPT ![u] = [code |-> 503, config |-> NoConfig]]
  BY RequestEffect
<1> QED BY <1>4, <1>5, <1>6

\* A request of the page begins.
LEMMA SubmitKeeps ==
  ASSUME TypeOK, Rest, NEW u \in Uis, NEW f \in Forms, Submit(u, f)
  PROVE  Rest'
<1>1. /\ pc[u] = "idle" /\ form' = [form EXCEPT ![u] = f] /\ restarted' = [restarted EXCEPT ![u] = FALSE]
      /\ UNCHANGED <<file, kernel, loaded, faults, stops, split>>
  BY SubmitEffect
<1>2. Running(u) /\ OneInv /\ QueueInv /\ LoadedInv /\ FileInv
  BY <1>1 DEF Rest, Running
<1>3. Up' = Up
  BY <1>1 DEF Up
<1>4. \A v \in Uis : v # u => form'[v] = form[v] /\ restarted'[v] = restarted[v]
  BY <1>1 DEF TypeOK
<1>5. PICK p \in {"status", "idle"}, a \in {None, [code |-> 503, config |-> NoConfig]} :
        /\ pc' = [pc EXCEPT ![u] = p] /\ answer' = [answer EXCEPT ![u] = a]
        /\ \/ p = "status" /\ Up /\ queue' = Append(queue, <<u, "status">>)
           \/ p = "idle" /\ queue' = queue
  <2>1. CASE /\ Up /\ pc' = [pc EXCEPT ![u] = "status"] /\ queue' = Append(queue, <<u, "status">>)
             /\ answer' = [answer EXCEPT ![u] = None]
    BY <2>1
  <2>2. CASE /\ pc' = [pc EXCEPT ![u] = "idle"] /\ queue' = queue
             /\ answer' = [answer EXCEPT ![u] = [code |-> 503, config |-> NoConfig]]
    BY <2>2
  <2> QED BY <2>1, <2>2, SubmitEffect
<1>6. /\ pc'[u] = p
      /\ \A v \in Uis : v # u => pc'[v] = pc[v] /\ pc[v] \in {"off", "dead"}
      /\ OneInv'
  BY <1>2, <1>5, Move
<1>7. \A v \in Uis : Succeeded(v)'
  <2>1. a.code # 200
    BY DEF None
  <2> QED BY <1>4, <1>5, <2>1, OthersAnswer
<1>8. DraftInv(u)'
  BY <1>6 DEF DraftInv
<1>9. FileInv'
  <2>1. \A v \in Uis : pc[v] \notin {"persisted", "apply"}
    BY <1>1, <1>6
  <2>2. Up /\ ~split => file = kernel
    BY <1>2, <2>1 DEF FileInv
  <2>3. file = NoConfig => p = "idle"
    BY <1>2, <1>5 DEF FileInv
  <2>4. file = NoConfig => \A v \in Uis : pc'[v] \in {"off", "idle", "dead"}
    BY <1>6, <2>3
  <2> QED BY <1>1, <1>2, <1>3, <2>2, <2>4 DEF FileInv
<1>10. CASE p = "status" /\ Up /\ queue' = Append(queue, <<u, "status">>)
  <2>1. pc' = [pc EXCEPT ![u] = "status"]
    BY <1>5, <1>10
  <2>2. QueueInv'
    BY <1>1, <1>2, <1>3, <1>10, <2>1, Send
  <2>3. LoadedInv'
    <3> SUFFICES ASSUME loaded # NoConfig
                 PROVE  queue' # <<>> /\ Head(queue')[2] = "apply" /\ loaded' = file'
      BY <1>1 DEF LoadedInv
    <3>1. queue # <<>> /\ Head(queue)[2] = "apply" /\ loaded = file
      BY <1>2 DEF LoadedInv
    <3>2. queue' # <<>> /\ Head(queue') = Head(queue)
      <4>1. queue \in Seq(Entries) /\ <<u, "status">> \in Entries
        BY DEF TypeOK, Entries
      <4> QED BY <1>10, <3>1, <4>1
    <3> QED BY <1>1, <3>1, <3>2
  <2> QED BY <1>6, <1>7, <1>8, <1>9, <2>2, <2>3, OthersDraft DEF Rest
<1>11. CASE p = "idle" /\ queue' = queue
  <2>1. pc' = pc
    BY <1>1, <1>5, <1>11 DEF TypeOK
  <2>2. QueueInv' /\ LoadedInv'
    BY <1>1, <1>2, <1>3, <1>11, <2>1 DEF QueueInv, LoadedInv
  <2> QED BY <1>6, <1>7, <1>8, <1>9, <2>2, OthersDraft DEF Rest
<1> QED BY <1>5, <1>10, <1>11

-----------------------------------------------------------------------------
(* The theorems.                                                           *)

\* No step breaks what relates the file, the hook, the backlog and the
\* requests, as long as the manager runs one WebUI process at a time.
LEMMA RestStep ==
  ASSUME OneUi, TypeOK, Rest, [Next]_vars
  PROVE  Rest'
<1>1. ASSUME NEW mode \in Modes, StartDaemon(mode) PROVE Rest'
  BY <1>1, StartDaemonKeeps
<1>2. CASE StopDaemon
  BY <1>2, StopDaemonKeeps
<1>3. ASSUME NEW u \in Uis, StartUi(u) PROVE Rest'
  BY <1>3, StartUiKeeps
<1>4. ASSUME NEW u \in Uis, EndUi(u) PROVE Rest'
  BY <1>4, EndUiKeeps
<1>5. ASSUME NEW u \in Uis, NEW readable \in BOOLEAN, ServeStatus(u, readable) PROVE Rest'
  BY <1>5, StatusKeeps
<1>6. ASSUME NEW u \in Uis, LoadFile(u) PROVE Rest'
  BY <1>6, LoadFileKeeps
<1>7. ASSUME NEW u \in Uis, Answering(u) PROVE Rest'
  BY <1>7, AnswerKeeps
<1>8. ASSUME NEW u \in Uis, Prepare(u) PROVE Rest'
  BY <1>8, PrepareKeeps
<1>9. ASSUME NEW u \in Uis, NEW code \in {409, 500}, PrepareFails(u, code) PROVE Rest'
  BY <1>9, PrepareFailsKeeps
<1>10. ASSUME NEW u \in Uis, Persist(u) PROVE Rest'
  BY <1>10, PersistKeeps
<1>11. ASSUME NEW u \in Uis, RequestApply(u) PROVE Rest'
  BY <1>11, RequestKeeps
<1>12. ASSUME NEW u \in Uis, NEW f \in Forms, Submit(u, f) PROVE Rest'
  BY <1>12, SubmitKeeps
<1>13. CASE UNCHANGED vars
  <2>1. UNCHANGED <<file, kernel, queue, loaded, pc, form, current, draft, answer, restarted, split>>
    BY <1>13 DEF vars, store, daemon, request, history
  <2>2. OneInv' /\ QueueInv' /\ LoadedInv' /\ FileInv'
    BY <2>1 DEF Rest, OneInv, Running, QueueInv, LoadedInv, FileInv, Up
  <2>3. \A u \in Uis : DraftInv(u)' /\ Succeeded(u)'
    BY <2>1 DEF Rest, DraftInv, Succeeded, Fulfils, Up
  <2> QED BY <2>2, <2>3 DEF Rest
<1> QED BY <1>1, <1>2, <1>3, <1>4, <1>5, <1>6, <1>7, <1>8, <1>9, <1>10, <1>11, <1>12, <1>13
        DEF Next, Serve, Handle, Answering

\* The initial state satisfies the invariant.
LEMMA Initially ==
  ASSUME Init
  PROVE  IInv
<1>1. TypeOK
  <2>1. NoForm \in Forms /\ None \in Answers
    BY DEF NoForm, Forms, Modes, None, Answers
  <2>2. queue \in Seq(Uis \X {"status", "apply"}) /\ faults \in 0..MaxFaults /\ stops \in 0..MaxStops
    BY BoundAssumption DEF Init
  <2> QED BY <2>1, <2>2 DEF Init, TypeOK
<1>2. \A u \in Uis : pc[u] = "off" /\ answer[u].code = 0
  BY DEF Init, None
<1>3. queue = <<>> /\ loaded = NoConfig /\ ~Up /\ Len(<<>>) = 0
  BY DEF Init, Up
<1>4. OneInv /\ LoadedInv /\ FileInv
  BY <1>2, <1>3 DEF OneInv, Running, LoadedInv, FileInv
<1>5. QueueInv
  BY <1>2, <1>3 DEF QueueInv
<1>6. \A u \in Uis : DraftInv(u)
  BY <1>2 DEF DraftInv
<1>7. SuccessTakesEffect
  BY <1>2 DEF SuccessTakesEffect
<1> QED BY <1>1, <1>4, <1>5, <1>6, <1>7 DEF IInv

\* The invariant is inductive: it holds initially and every step keeps it.
THEOREM Inductive ==
  ASSUME OneUi
  PROVE  Spec => []IInv
<1>1. Init => IInv
  BY Initially
<1>2. IInv /\ [Next]_vars => IInv'
  <2> SUFFICES ASSUME IInv, [Next]_vars PROVE IInv'
    OBVIOUS
  <2>1. TypeOK'
    BY TypeStep
  <2>2. TypeOK /\ Rest
    BY SuccessMeans DEF IInv, Rest
  <2>3. Rest'
    BY <2>2, RestStep
  <2>4. SuccessTakesEffect'
    BY <2>3 DEF Rest, Succeeded, SuccessTakesEffect, Fulfils
  <2> QED BY <2>1, <2>3, <2>4 DEF IInv, Rest
<1> QED BY <1>1, <1>2, PTL DEF Spec

\* All variables keep their types: no configuration is persisted or published
\* whose generation exceeds UINT64_MAX.
THEOREM TypeCorrect ==
  ASSUME OneUi
  PROVE  Spec => []TypeOK
BY Inductive, PTL DEF IInv

\* handle_apply and the daemon's kApply keep the control file at the
\* generation of the hook or ahead of it, whatever stops in between.
THEOREM FileCurrent ==
  ASSUME OneUi
  PROVE  Spec => []FileNotBehind
<1>1. IInv => FileNotBehind
  <2> SUFFICES ASSUME IInv, Up PROVE file.gen >= kernel.gen
    BY DEF FileNotBehind
  <2>1. kernel.gen <= file.gen /\ file \in Configs /\ kernel \in Configs
    BY DEF IInv, FileInv, TypeOK, Up
  <2> QED BY <2>1 DEF Configs
<1> QED BY <1>1, Inductive, PTL

\* A restart of the daemon brings back the configuration that runs, unless an
\* apply request persisted one and did not succeed.
THEOREM RestartSame ==
  ASSUME OneUi
  PROVE  Spec => []RestartKeepsRunning
<1>1. IInv => RestartKeepsRunning
  BY DEF IInv, FileInv, RestartKeepsRunning
<1> QED BY <1>1, Inductive, PTL

\* An apply request that handle_apply answers with success has taken effect,
\* over any number of stops of the daemon, unless it stopped before the request
\* was persisted while the file was not what ran (restarted): it then comes back
\* with another configuration than the request was told, perhaps of the very
\* generation the request takes, and the theorem says nothing of that request.
THEOREM SuccessReal ==
  ASSUME OneUi
  PROVE  Spec => []SuccessTakesEffect
BY Inductive, PTL DEF IInv

-----------------------------------------------------------------------------
(***************************************************************************)
(* The other half of web_ui.cpp: the sessions of the pages whose requests  *)
(* handle_apply answers, for any number of pages and all limits.           *)
(***************************************************************************)

CONSTANTS Pages, NoPage, IdleTimeout, OpenGrace

VARIABLES server, token, open, idle, requested, closers, holder, page, due,
          flight, held, latest, reopened, crossed, slow, cut

Web == INSTANCE WebSession WITH None <- NoPage

\* What SessionInv needs of the types.
PageType ==
  /\ page \in [Pages -> {"unborn", "opening", "hidden", "active", "ended"}]
  /\ closers \in Nat /\ idle \in Nat /\ held \in Nat
  /\ latest \in Pages \cup {NoPage}

\* A page opens one session, and closes it when it has ended.
PageInv ==
  /\ \A q \in Pages : <<q, "open">> \in flight => page[q] \in {"opening", "hidden", "ended"}
  /\ \A q \in Pages : <<q, "close">> \in flight \/ <<q, "checkedClose">> \in flight => page[q] = "ended"

\* None of the three exceptions of ActivePageKept.
Calm == ~reopened /\ ~crossed /\ ~slow

\* A page uses the server.
Used == server = "up" /\ latest # NoPage /\ page[latest] = "active"

\* The session of the page that was given the last token stays open: nothing
\* closes it, and it is idle only for as long as lock_ was held.
KeptInv ==
  Calm /\ Used =>
    /\ open /\ token \in {latest, NoPage}
    /\ closers = 0
    /\ \A q \in Pages : <<q, "checkedClose">> \notin flight
    /\ idle <= held + 1
    /\ latest \notin due /\ <<latest, "ping">> \notin flight => idle = 0

\* slow tells when lock_ was held for one heartbeat less than a session may be
\* idle.
SlowInv == ~slow => held + 1 < IdleTimeout

SessionInv == PageType /\ PageInv /\ KeptInv /\ SlowInv /\ Web!ActivePageKept

\* The part of LimitAssumption and NoneAssumption of WebSession that is needed.
SessionAssumption ==
  /\ IdleTimeout \in Nat /\ OpenGrace \in Nat /\ 1 < IdleTimeout /\ NoPage \notin Pages

\* A new server satisfies the invariant.
LEMMA SessionInit ==
  ASSUME SessionAssumption, Web!Init
  PROVE  SessionInv
<1>1. PageType /\ PageInv /\ Web!ActivePageKept
  BY DEF Web!Init, PageType, PageInv, Web!ActivePageKept
<1>2. KeptInv
  BY DEF Web!Init, KeptInv, Used
<1>3. SlowInv
  BY DEF Web!Init, SlowInv, SessionAssumption
<1> QED BY <1>1, <1>2, <1>3 DEF SessionInv

\* Every step keeps the types.
LEMMA PageTypeStep ==
  ASSUME SessionAssumption, PageType, [Web!Next]_(Web!vars)
  PROVE  PageType'
<1> USE DEF PageType, SessionAssumption, Web!session, Web!pages, Web!history
<1>1. ASSUME NEW p \in Pages, Web!LoadPage(p) \/ Web!Heartbeat(p) \/ Web!Call(p)
                              \/ Web!Hide(p) \/ Web!Vanish(p)
      PROVE  PageType'
  BY <1>1 DEF Web!LoadPage, Web!Heartbeat, Web!Call, Web!Hide, Web!Vanish
<1>2. ASSUME NEW p \in Pages, Web!Open(p) \/ Web!OpenFails(p) \/ Web!Ping(p) PROVE PageType'
  BY <1>2 DEF Web!Open, Web!OpenFails, Web!Ping, Web!Refresh
<1>3. ASSUME NEW p \in Pages, Web!CheckCall(p) \/ Web!CheckClose(p) \/ Web!AskDaemon(p)
      PROVE  PageType'
  BY <1>3 DEF Web!CheckCall, Web!CheckClose, Web!Check, Web!AskDaemon, Web!Refresh
<1>4. ASSUME NEW p \in Pages, Web!Close(p) PROVE PageType'
  BY <1>4 DEF Web!Close, Web!RequestClose
<1>5. CASE Web!DaemonAnswers \/ Web!ServerClosed \/ Web!ExitServer
  BY <1>5 DEF Web!DaemonAnswers, Web!ServerClosed, Web!ExitServer
<1>6. CASE Web!Watchdog \/ Web!CloseServer
  BY <1>6 DEF Web!Watchdog, Web!RequestClose, Web!CloseServer
<1>7. CASE Web!Tick
  BY <1>7 DEF Web!Tick
<1>8. CASE UNCHANGED Web!vars
  BY <1>8 DEF Web!vars
<1> QED BY <1>1, <1>2, <1>3, <1>4, <1>5, <1>6, <1>7, <1>8 DEF Web!Next, Web!Handling

\* Every step keeps PageInv.
LEMMA PageStep ==
  ASSUME SessionAssumption, PageType, PageInv, [Web!Next]_(Web!vars)
  PROVE  PageInv'
<1> USE DEF PageType, PageInv, Web!session, Web!pages, Web!history
<1>1. ASSUME NEW p \in Pages, Web!LoadPage(p) PROVE PageInv'
  BY <1>1 DEF Web!LoadPage, Web!Send
<1>2. ASSUME NEW p \in Pages, Web!Heartbeat(p) \/ Web!Call(p) PROVE PageInv'
  BY <1>2 DEF Web!Heartbeat, Web!Call, Web!Send
<1>3. ASSUME NEW p \in Pages, Web!Hide(p) PROVE PageInv'
  BY <1>3 DEF Web!Hide, Web!Send
<1>4. ASSUME NEW p \in Pages, Web!Vanish(p) PROVE PageInv'
  BY <1>4 DEF Web!Vanish, Web!Done
<1>5. ASSUME NEW p \in Pages, Web!Open(p) PROVE PageInv'
  BY <1>5 DEF Web!Open, Web!Handle
<1>6. ASSUME NEW p \in Pages, Web!OpenFails(p) PROVE PageInv'
  BY <1>6 DEF Web!OpenFails, Web!Handle, Web!Done
<1>7. ASSUME NEW p \in Pages, Web!Ping(p) PROVE PageInv'
  BY <1>7 DEF Web!Ping, Web!Handle, Web!Done
<1>8. ASSUME NEW p \in Pages, Web!CheckCall(p) \/ Web!CheckClose(p) PROVE PageInv'
  BY <1>8 DEF Web!CheckCall, Web!CheckClose, Web!Check, Web!Handle, Web!Done
<1>9. ASSUME NEW p \in Pages, Web!AskDaemon(p) \/ Web!Close(p) PROVE PageInv'
  BY <1>9 DEF Web!AskDaemon, Web!Close, Web!Handle, Web!Done
<1>10. CASE Web!DaemonAnswers \/ Web!ServerClosed \/ Web!ExitServer \/ Web!Watchdog
            \/ Web!CloseServer \/ Web!Tick
  BY <1>10 DEF Web!DaemonAnswers, Web!ServerClosed, Web!ExitServer, Web!Watchdog,
        Web!CloseServer, Web!Tick
<1>11. CASE UNCHANGED Web!vars
  BY <1>11 DEF Web!vars
<1> QED BY <1>1, <1>2, <1>3, <1>4, <1>5, <1>6, <1>7, <1>8, <1>9, <1>10, <1>11 DEF Web!Next,
      Web!Handling

\* Every step keeps SlowInv: slow tells that lock_ was held for too long.
LEMMA SlowStep ==
  ASSUME SessionAssumption, PageType, SlowInv, [Web!Next]_(Web!vars)
  PROVE  SlowInv'
<1> USE DEF SlowInv, PageType, SessionAssumption, Web!session, Web!pages, Web!history
<1>1. CASE Web!Tick
  <2>1. held' \in Nat /\ IdleTimeout \in Nat
    BY <1>1 DEF Web!Tick
  <2>2. ~slow' => ~(held' + 1 >= IdleTimeout)
    <3> HIDE DEF SlowInv, PageType, SessionAssumption
    <3>1. slow' = (slow \/ held' + 1 >= IdleTimeout)
      BY <1>1 DEF Web!Tick
    <3> QED BY <3>1, Zenon
  <2>3. ~(held' + 1 >= IdleTimeout) => held' + 1 < IdleTimeout
    <3> HIDE DEF SlowInv, PageType, SessionAssumption, Web!session, Web!pages, Web!history
    <3>1. \A a, b \in Nat : ~(a + 1 >= b) => a + 1 < b
      OBVIOUS
    <3> QED BY <2>1, <3>1
  <2> HIDE DEF PageType, SessionAssumption
  <2> QED BY <2>2, <2>3, Zenon
<1>2. ASSUME NEW p \in Pages, Web!LoadPage(p) \/ Web!Heartbeat(p) \/ Web!Call(p)
                              \/ Web!Hide(p) \/ Web!Vanish(p) \/ Web!Handling(p)
      PROVE  UNCHANGED <<held, slow>>
  BY <1>2 DEF Web!LoadPage, Web!Heartbeat, Web!Call, Web!Hide, Web!Vanish, Web!Handling,
        Web!Open, Web!OpenFails, Web!Ping, Web!CheckCall,
       Web!CheckClose, Web!Check, Web!AskDaemon, Web!Close
<1>3. CASE Web!DaemonAnswers \/ Web!Watchdog \/ Web!CloseServer \/ Web!ServerClosed
           \/ Web!ExitServer \/ UNCHANGED Web!vars
  BY <1>3 DEF Web!DaemonAnswers, Web!Watchdog, Web!CloseServer, Web!ServerClosed, Web!ExitServer,
        Web!vars
<1> QED BY <1>1, <1>2, <1>3 DEF Web!Next

\* Every step keeps KeptInv.
LEMMA KeptStep ==
  ASSUME SessionAssumption, PageType, PageInv, KeptInv, SlowInv, [Web!Next]_(Web!vars)
  PROVE  KeptInv'
<1> USE DEF PageType, Web!session, Web!pages, Web!history
<1>1. ASSUME NEW p \in Pages, Web!Open(p) PROVE KeptInv'
  <2> SUFFICES ASSUME Calm', Used'
               PROVE  /\ open' /\ token' \in {latest', NoPage}
                      /\ closers' = 0
                      /\ \A q \in Pages : <<q, "checkedClose">> \notin flight'
                      /\ idle' <= held' + 1
                      /\ latest' \notin due' /\ <<latest', "ping">> \notin flight' => idle' = 0
    BY DEF KeptInv
  <2>1. closers' = closers /\ closers = 0
    <3>1. ~reopened' /\ reopened' = (reopened \/ closers > 0 \/ server # "up") /\ closers' = closers
      BY <1>1 DEF Web!Open, Calm
    <3>2. ~(closers > 0)
      BY <3>1, Zenon
    <3> QED BY <3>1, <3>2
  <2>2. \A q \in Pages : <<q, "checkedClose">> \notin flight'
    BY <1>1 DEF Web!Open, Calm
  <2>3. token' = p /\ latest' = p /\ open' = TRUE /\ idle' = 0 /\ held' = held
    BY <1>1 DEF Web!Open, Web!Refresh
  <2> QED BY <2>1, <2>2, <2>3
<1>2. ASSUME UNCHANGED <<server, latest, reopened, crossed, slow>>,
             \A q \in Pages : page'[q] = "active" => page[q] = "active", Used'
      PROVE  Used /\ latest \in Pages /\ (Calm' => Calm)
  BY <1>2 DEF Used, Calm
<1>3. ASSUME NEW p \in Pages, Web!LoadPage(p) \/ Web!Call(p) PROVE KeptInv'
  <2>1. /\ UNCHANGED <<Web!session, server, latest, reopened, crossed, slow, due, held>>
        /\ \A q \in Pages : page'[q] = "active" => page[q] = "active"
        /\ \A q \in Pages : <<q, "checkedClose">> \in flight' => <<q, "checkedClose">> \in flight
        /\ \A q \in Pages : <<q, "ping">> \in flight => <<q, "ping">> \in flight'
    BY <1>3 DEF Web!LoadPage, Web!Call, Web!Send
  <2> QED BY <1>2, <2>1 DEF KeptInv
<1>4. ASSUME NEW p \in Pages, Web!Heartbeat(p) PROVE KeptInv'
  <2>1. /\ UNCHANGED <<Web!session, server, latest, reopened, crossed, slow, held>>
        /\ \A q \in Pages : page'[q] = "active" => page[q] = "active"
        /\ \A q \in Pages : <<q, "checkedClose">> \in flight' => <<q, "checkedClose">> \in flight
        /\ \A q \in Pages : <<q, "ping">> \in flight => <<q, "ping">> \in flight'
        /\ due' = due \ {p} /\ (server = "up" => <<p, "ping">> \in flight')
    BY <1>4 DEF Web!Heartbeat, Web!Send
  <2>2. ASSUME Used' PROVE server = "up"
    BY <2>1, <2>2 DEF Used
  <2> QED BY <1>2, <2>1, <2>2 DEF KeptInv
<1>5. ASSUME NEW p \in Pages, Web!Hide(p) \/ Web!Vanish(p) PROVE KeptInv'
  <2>1. /\ UNCHANGED <<Web!session, server, latest, reopened, crossed, slow, held>>
        /\ \A q \in Pages : page'[q] = "active" => page[q] = "active" /\ q # p
        /\ \A q \in Pages : <<q, "checkedClose">> \in flight' => <<q, "checkedClose">> \in flight
        /\ \A q \in Pages : <<q, "ping">> \in flight => <<q, "ping">> \in flight'
        /\ due' = due \ {p}
    BY <1>5 DEF Web!Hide, Web!Vanish, Web!Send, Web!Done
  <2>2. ASSUME Used' PROVE latest \in Pages /\ latest # p
    BY <2>1, <2>2 DEF Used
  <2> QED BY <1>2, <2>1, <2>2 DEF KeptInv
<1>6. ASSUME NEW p \in Pages, Web!OpenFails(p) PROVE KeptInv'
  <2>1. /\ UNCHANGED <<open, idle, closers, server, latest, reopened, crossed, slow, held, due>>
        /\ \A q \in Pages : page'[q] = "active" => page[q] = "active"
        /\ \A q \in Pages : <<q, "checkedClose">> \in flight' => <<q, "checkedClose">> \in flight
        /\ \A q \in Pages : <<q, "ping">> \in flight => <<q, "ping">> \in flight'
        /\ token' = NoPage
    BY <1>6 DEF Web!OpenFails, Web!Handle, Web!Done
  <2> QED BY <1>2, <2>1 DEF KeptInv
<1>7. ASSUME NEW p \in Pages, Web!Ping(p) PROVE KeptInv'
  <2>1. /\ UNCHANGED <<token, open, closers, server, latest, reopened, crossed, slow, held>>
        /\ \A q \in Pages : page'[q] = "active" => page[q] = "active"
        /\ \A q \in Pages : <<q, "checkedClose">> \in flight' => <<q, "checkedClose">> \in flight
        /\ \A q \in Pages \ {p} : <<q, "ping">> \in flight => <<q, "ping">> \in flight'
        /\ \A q \in Pages \ {p} : q \in due => q \in due'
        /\ \/ idle' = 0
           \/ idle' = idle /\ page'[p] = "ended"
    BY <1>7 DEF Web!Ping, Web!Handle, Web!Done, Web!Refresh
  <2>2. ASSUME Used', idle' # 0 PROVE latest # p
    BY <2>1, <2>2 DEF Used
  <2> QED BY <1>2, <2>1, <2>2 DEF KeptInv
<1>8. ASSUME NEW p \in Pages, Web!CheckCall(p) \/ Web!AskDaemon(p) PROVE KeptInv'
  <2>1. /\ UNCHANGED <<token, open, closers, server, page, due, latest, reopened, crossed, slow, held>>
        /\ \A q \in Pages : <<q, "checkedClose">> \in flight' => <<q, "checkedClose">> \in flight
        /\ \A q \in Pages : <<q, "ping">> \in flight => <<q, "ping">> \in flight'
        /\ idle' = 0 \/ idle' = idle
    BY <1>8 DEF Web!CheckCall, Web!Check, Web!AskDaemon, Web!Handle, Web!Done, Web!Refresh
  <2> QED BY <1>2, <2>1 DEF KeptInv
<1>9. ASSUME NEW p \in Pages, Web!CheckClose(p) PROVE KeptInv'
  <2>1. /\ UNCHANGED <<token, open, closers, server, page, due, latest, reopened, crossed, slow, held>>
        /\ \A q \in Pages : <<q, "ping">> \in flight => <<q, "ping">> \in flight'
        /\ idle' = 0 \/ idle' = idle
        /\ <<p, "close">> \in flight
    BY <1>9 DEF Web!CheckClose, Web!Check, Web!Handle, Web!Done, Web!Refresh
  <2>2. ASSUME Calm', Used' PROVE ~Web!Authentic(p)
    <3>1. Used /\ Calm /\ latest \in Pages
      BY <1>2, <2>1, <2>2
    <3>2. token \in {latest, NoPage} /\ p # latest
      BY <2>1, <3>1 DEF KeptInv, PageInv, Used
    <3> QED BY <3>2 DEF Web!Authentic, SessionAssumption
  <2>3. ~Web!Authentic(p) => \A q \in Pages : <<q, "checkedClose">> \in flight' => <<q, "checkedClose">> \in flight
    BY <1>9 DEF Web!CheckClose, Web!Check, Web!Done
  <2> QED BY <1>2, <2>1, <2>2, <2>3 DEF KeptInv
<1>10. ASSUME NEW p \in Pages, Web!Close(p) PROVE KeptInv'
  <2>1. /\ UNCHANGED <<server, page, latest, reopened, crossed, slow>>
        /\ <<p, "checkedClose">> \in flight
    BY <1>10 DEF Web!Close, Web!Handle
  <2> QED BY <1>2, <2>1 DEF KeptInv
<1>11. CASE Web!DaemonAnswers
  BY <1>2, <1>11 DEF Web!DaemonAnswers, KeptInv
<1>12. CASE Web!Watchdog
  <2>1. /\ UNCHANGED <<server, page, latest, reopened, crossed, slow>>
        /\ idle >= Web!Limit
    BY <1>12 DEF Web!Watchdog
  <2>2. ASSUME Calm', Used' PROVE FALSE
    <3>1. Calm /\ Used
      BY <1>2, <2>1, <2>2
    <3>2. open /\ idle <= held + 1 /\ held + 1 < IdleTimeout
      BY <3>1 DEF KeptInv, SlowInv, Calm
    <3>3. idle >= IdleTimeout
      BY <2>1, <3>2 DEF Web!Limit
    <3> QED BY <3>2, <3>3 DEF SessionAssumption
  <2> QED BY <2>2 DEF KeptInv
<1>13. CASE Web!CloseServer
  <2>1. closers > 0 /\ UNCHANGED <<page, latest, reopened, crossed, slow>> /\ server' # "up"
    BY <1>13 DEF Web!CloseServer
  <2> QED BY <2>1 DEF KeptInv, Used
<1>14. CASE Web!ServerClosed \/ Web!ExitServer
  <2>1. server' # "up"
    BY <1>14 DEF Web!ServerClosed, Web!ExitServer
  <2> QED BY <2>1 DEF KeptInv, Used
<1>15. CASE Web!Tick
  <2> SUFFICES ASSUME Calm', Used'
               PROVE  /\ open' /\ token' \in {latest', NoPage}
                      /\ closers' = 0
                      /\ \A q \in Pages : <<q, "checkedClose">> \notin flight'
                      /\ idle' <= held' + 1
                      /\ latest' \notin due' /\ <<latest', "ping">> \notin flight' => idle' = 0
    BY DEF KeptInv
  <2>1. UNCHANGED <<server, token, open, closers, holder, page, latest, flight, reopened, crossed>>
    BY <1>15 DEF Web!Tick
  <2>2. Used /\ latest \in Pages
    BY <2>1 DEF Used
  <2>3. Calm
    BY <1>15 DEF Web!Tick, Calm
  <2>4. /\ open /\ token \in {latest, NoPage} /\ closers = 0
        /\ \A q \in Pages : <<q, "checkedClose">> \notin flight
        /\ idle <= held + 1
        /\ latest \notin due /\ <<latest, "ping">> \notin flight => idle = 0
    BY <2>2, <2>3 DEF KeptInv
  <2>5. latest \in due' \/ <<latest, "ping">> \in flight
    BY <1>15, <2>2 DEF Web!Tick, Used
  <2>6. idle' <= held' + 1
    <3>1. idle' \in {idle, idle + 1} /\ due = {}
      BY <1>15 DEF Web!Tick
    <3>2. CASE holder = NoPage
      <4>1. idle = 0 /\ held' = 0
        BY <1>15, <2>2, <2>4, <3>2 DEF Web!Tick
      <4> QED BY <3>1, <4>1
    <3>3. CASE holder # NoPage
      <4>1. held' = held + 1
        BY <1>15, <2>3, <3>3 DEF Web!Tick, SlowInv, Calm, SessionAssumption
      <4> QED BY <2>4, <3>1, <4>1
    <3> QED BY <3>2, <3>3
  <2> QED BY <2>1, <2>4, <2>5, <2>6
<1>16. CASE UNCHANGED Web!vars
  BY <1>16 DEF Web!vars, KeptInv, Calm, Used
<1> QED BY <1>1, <1>3, <1>4, <1>5, <1>6, <1>7, <1>8, <1>9, <1>10, <1>11, <1>12, <1>13, <1>14,
           <1>15, <1>16 DEF Web!Next, Web!Handling

\* Every step keeps ActivePageKept: only the closing thread closes the server.
LEMMA CutStep ==
  ASSUME SessionAssumption, PageType, KeptInv, Web!ActivePageKept, [Web!Next]_(Web!vars)
  PROVE  Web!ActivePageKept'
<1> USE DEF Web!ActivePageKept, Web!session, Web!pages, Web!history
<1>1. CASE Web!CloseServer
  <2>1. closers > 0 /\ UNCHANGED <<reopened, crossed, slow>> /\ cut' = (cut \/ Used)
    BY <1>1 DEF Web!CloseServer, Used
  <2>2. ~(Calm /\ Used)
    BY <2>1 DEF KeptInv
  <2> QED BY <2>1, <2>2 DEF Calm
<1>2. ASSUME NEW p \in Pages, Web!LoadPage(p) \/ Web!Heartbeat(p) \/ Web!Call(p)
                              \/ Web!Hide(p) \/ Web!Vanish(p)
      PROVE  Web!ActivePageKept'
  BY <1>2 DEF Web!LoadPage, Web!Heartbeat, Web!Call, Web!Hide, Web!Vanish
<1>3. ASSUME NEW p \in Pages, Web!Handling(p) PROVE Web!ActivePageKept'
  BY <1>3 DEF Web!Handling, Web!Open, Web!OpenFails, Web!Ping, Web!CheckCall, Web!CheckClose,
        Web!Check, Web!AskDaemon, Web!Close
<1>4. CASE Web!DaemonAnswers \/ Web!Watchdog \/ Web!ServerClosed \/ Web!ExitServer \/ Web!Tick
           \/ UNCHANGED Web!vars
  BY <1>4 DEF Web!DaemonAnswers, Web!Watchdog, Web!ServerClosed, Web!ExitServer, Web!Tick,
        Web!vars
<1> QED BY <1>1, <1>2, <1>3, <1>4 DEF Web!Next

\* The server does not close on the page that uses it, however many pages
\* come and go, unless its session crossed a close or lock_ was held too long.
THEOREM PageKept ==
  ASSUME SessionAssumption
  PROVE  Web!Spec => []Web!ActivePageKept
<1>1. Web!Init => SessionInv
  BY SessionInit
<1>2. SessionInv /\ [Web!Next]_(Web!vars) => SessionInv'
  BY PageTypeStep, PageStep, KeptStep, SlowStep, CutStep DEF SessionInv
<1>3. SessionInv => Web!ActivePageKept
  BY DEF SessionInv
<1> QED BY <1>1, <1>2, <1>3, PTL DEF Web!Spec

=============================================================================
