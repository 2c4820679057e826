---------------------------- MODULE ControlPlane ----------------------------
(***************************************************************************)
(* How a setting chosen in the WebUI reaches the hook (web_ui.cpp,         *)
(* control_ipc.cpp, runtime_control.cpp, module_main.cpp).  handle_apply   *)
(* asks the daemon for the running configuration, reads the control file,  *)
(* writes its successor into the file and asks the daemon to load it; the  *)
(* daemon publishes what it reads there.  A restarted daemon starts from   *)
(* the file.  Any step may fail, the WebUI process may end at any moment,  *)
(* and the daemon may stop at any moment.                                  *)
(*                                                                         *)
(* Abstractions.  An ID stands for itself, its fingerprint and its seed    *)
(* generation.  The control file is replaced as a whole (rename) and is    *)
(* always valid.  A publication is one step (ConfigSlots).  The control    *)
(* socket serves its backlog in order; a request is answered before the    *)
(* next is read.  handle_apply runs under lock_, so that one WebUI process *)
(* handles one request at a time; status and stop requests of the page     *)
(* change nothing here but through StopDaemon.                             *)
(***************************************************************************)
EXTENDS Naturals, Sequences

CONSTANTS Uis,            \* WebUI server processes
          Ids,            \* virtual IDs
          Derived,        \* the ID load_or_create_runtime_profile derives
          NoConfig,       \* no control file, no hook
          MaxGeneration,  \* UINT64_MAX
          MaxFaults,      \* bound on failing publications
          MaxStops,       \* bound on daemon stops
          OneUi           \* the manager runs one WebUI process at a time

ASSUME DerivedAssumption == Derived \in Ids
ASSUME GenerationAssumption == MaxGeneration \in Nat \ {0}
ASSUME BoundAssumption == MaxFaults \in Nat /\ MaxStops \in Nat

Modes == {"dry", "write"}
Configs == [gen : 1..MaxGeneration, mode : Modes, id : Ids]
ASSUME NoConfigAssumption == NoConfig \notin Configs

\* The form of an apply request; a random ID is any ID, as a custom one is.
Forms == [mode : Modes, action : {"keep", "derive"}, id : {Derived}]
         \cup [mode : Modes, action : {"choose"}, id : Ids]
NoForm == [mode |-> "dry", action |-> "keep", id |-> Derived]

VARIABLES
  file,       \* drmid_runtime_control_v3.bin
  kernel,     \* the active configuration of the hook
  queue,      \* backlog of the control socket
  loaded,     \* what the daemon has read from the file for an apply request
  pc,         \* where each WebUI process is in handle_apply
  form,       \* the request it handles
  current,    \* the running configuration its status request returned
  draft,      \* the configuration it persists
  answer,     \* its HTTP answer and the configuration reported with it
  faults,     \* publications that failed
  stops,      \* daemon stops
  restarted,  \* history: the daemon stopped while the request was prepared and
              \* the file was not what ran
  split       \* history: a configuration was persisted, its apply did not
              \* succeed, and nothing was published since

store == <<file, kernel>>
daemon == <<queue, loaded>>
request == <<form, current, draft>>
history == <<restarted, split>>
vars == <<store, daemon, pc, request, answer, faults, stops, history>>

Up == kernel # NoConfig
None == [code |-> 0, config |-> NoConfig]
SameSetting(c, d) == c.mode = d.mode /\ c.id = d.id

Init ==
  /\ file = NoConfig
  /\ kernel = NoConfig
  /\ queue = <<>>
  /\ loaded = NoConfig
  /\ pc = [u \in Uis |-> "off"]
  /\ form = [u \in Uis |-> NoForm]
  /\ current = [u \in Uis |-> NoConfig]
  /\ draft = [u \in Uis |-> NoConfig]
  /\ answer = [u \in Uis |-> None]
  /\ faults = 0
  /\ stops = 0
  /\ restarted = [u \in Uis |-> FALSE]
  /\ split = FALSE

Goto(u, from, to) ==
  /\ pc[u] = from
  /\ pc' = [pc EXCEPT ![u] = to]

Fail(u, code) ==
  /\ pc' = [pc EXCEPT ![u] = "idle"]
  /\ answer' = [answer EXCEPT ![u] = [code |-> code, config |-> NoConfig]]

-----------------------------------------------------------------------------
(* The daemon.                                                             *)

\* Faulty variants: the first configuration is persisted over the file; it is
\* installed instead of the persisted one.
StartDaemonWith(persisted, installed) ==
  /\ ~Up
  /\ file' = persisted
  /\ kernel' = installed
  /\ UNCHANGED <<daemon, pc, request, answer, faults, stops, restarted, split>>

StartDaemonOverwrites(mode) ==
  LET first == [gen |-> 1, mode |-> mode, id |-> Derived]
  IN  StartDaemonWith(first, IF file = NoConfig THEN first ELSE file)

StartDaemonAfresh(mode) ==
  LET first == [gen |-> 1, mode |-> mode, id |-> Derived]
  IN  StartDaemonWith(IF file = NoConfig THEN first ELSE file, first)

\* run_readonly_parser_probe: the persisted configuration, or the first one,
\* which is persisted before the hook is installed with it.
StartDaemon(mode) ==
  LET first == [gen |-> 1, mode |-> mode, id |-> Derived]
      config == IF file = NoConfig THEN first ELSE file
  IN  /\ ~Up
      /\ file' = config
      /\ kernel' = config
      /\ UNCHANGED <<daemon, pc, request, answer, faults, stops, restarted, split>>

\* Faulty variant: the clients are not disconnected.
StopDaemonSilently ==
  /\ Up
  /\ stops < MaxStops
  /\ stops' = stops + 1
  /\ kernel' = NoConfig
  /\ queue' = <<>>
  /\ loaded' = NoConfig
  /\ UNCHANGED <<file, pc, request, answer, faults, history>>

\* The daemon ends and with it the hook; open connections are reset.
StopDaemon ==
  /\ Up
  /\ stops < MaxStops
  /\ stops' = stops + 1
  /\ kernel' = NoConfig
  /\ queue' = <<>>
  /\ loaded' = NoConfig
  /\ pc' = [u \in Uis |-> IF pc[u] \in {"status", "apply"} THEN "idle" ELSE pc[u]]
  /\ answer' = [u \in Uis |-> IF pc[u] \in {"status", "apply"}
                                THEN [code |-> 503, config |-> NoConfig] ELSE answer[u]]
  /\ restarted' = [u \in Uis |-> restarted[u] \/ (pc[u] \in {"read", "write"} /\ file # kernel)]
  /\ split' = (split \/ \E u \in Uis : pc[u] = "apply")
  /\ UNCHANGED <<file, request, faults>>

\* kStatus; a snapshot that cannot be read fails the request.
ServeStatus(u, readable) ==
  /\ queue # <<>> /\ Head(queue) = <<u, "status">>
  /\ queue' = Tail(queue)
  /\ IF pc[u] # "status" THEN UNCHANGED <<pc, current, answer>>
     ELSE IF readable
       THEN /\ Goto(u, "status", "read")
            /\ current' = [current EXCEPT ![u] = kernel]
            /\ UNCHANGED answer
       ELSE Fail(u, 503) /\ UNCHANGED current
  /\ UNCHANGED <<store, loaded, form, draft, faults, stops, history>>

\* kApply, first half: the control file is read.
LoadFile(u) ==
  /\ queue # <<>> /\ Head(queue) = <<u, "apply">>
  /\ loaded = NoConfig
  /\ loaded' = file
  /\ UNCHANGED <<store, queue, pc, request, answer, faults, stops, history>>

\* The response carries the configuration that is active now.
Respond(u, code) ==
  /\ queue' = Tail(queue)
  /\ loaded' = NoConfig
  /\ IF pc[u] = "apply"
       THEN /\ Goto(u, "apply", "idle")
            /\ answer' = [answer EXCEPT ![u] = [code |-> code, config |-> kernel']]
       ELSE UNCHANGED <<pc, answer>>

\* kApply, second half: a generation that is active already counts as applied.
AlreadyActive(u) ==
  /\ loaded # NoConfig /\ Head(queue)[1] = u
  /\ loaded.gen = kernel.gen
  /\ UNCHANGED kernel
  /\ Respond(u, 200)
  /\ UNCHANGED <<file, request, faults, stops, history>>

Fault == faults < MaxFaults /\ faults' = faults + 1

\* The response is an error if the snapshot for it cannot be read, although
\* the configuration is published.
PublishLoaded(u, reported) ==
  /\ loaded # NoConfig /\ Head(queue)[1] = u
  /\ loaded.gen > kernel.gen
  /\ kernel' = loaded
  /\ split' = FALSE
  /\ IF reported THEN Respond(u, 200) /\ UNCHANGED faults
                 ELSE Respond(u, 409) /\ Fault
  /\ UNCHANGED <<file, request, stops, restarted>>

\* The generation is old, or the file or the kernel could not be read, or the
\* kernel not be written.
RejectLoaded(u) ==
  /\ loaded # NoConfig /\ Head(queue)[1] = u
  /\ IF loaded.gen < kernel.gen THEN UNCHANGED faults ELSE Fault
  /\ UNCHANGED kernel
  /\ split' = TRUE
  /\ Respond(u, 409)
  /\ UNCHANGED <<file, request, stops, restarted>>

-----------------------------------------------------------------------------
(* A WebUI process: handle_apply.                                          *)

StartUi(u) ==
  /\ OneUi => \A v \in Uis : pc[v] \in {"off", "dead"}
  /\ Goto(u, "off", "idle")
  /\ UNCHANGED <<store, daemon, request, answer, faults, stops, history>>

\* The process ends in the middle of anything; what it has sent is served.
EndUi(u) ==
  /\ pc[u] \notin {"off", "dead"}
  /\ pc' = [pc EXCEPT ![u] = "dead"]
  /\ form' = [form EXCEPT ![u] = NoForm]
  /\ current' = [current EXCEPT ![u] = NoConfig]
  /\ draft' = [draft EXCEPT ![u] = NoConfig]
  /\ answer' = [answer EXCEPT ![u] = None]
  /\ restarted' = [restarted EXCEPT ![u] = FALSE]
  /\ split' = (split \/ pc[u] \in {"persisted", "apply"})
  /\ UNCHANGED <<store, daemon, faults, stops>>

\* A well-formed request: the running configuration is asked for first.
Submit(u, f) ==
  /\ pc[u] = "idle"
  /\ form' = [form EXCEPT ![u] = f]
  /\ restarted' = [restarted EXCEPT ![u] = FALSE]
  /\ IF Up
       THEN /\ Goto(u, "idle", "status")
            /\ queue' = Append(queue, <<u, "status">>)
            /\ answer' = [answer EXCEPT ![u] = None]
       ELSE Fail(u, 503) /\ UNCHANGED queue
  /\ current' = [current EXCEPT ![u] = NoConfig]
  /\ draft' = [draft EXCEPT ![u] = NoConfig]
  /\ UNCHANGED <<store, loaded, faults, stops, split>>

\* What the request makes of the persisted configuration.
Setting(f, persisted) ==
  [mode |-> f.mode,
   id   |-> CASE f.action = "keep"   -> persisted.id
              [] f.action = "derive" -> Derived
              [] f.action = "choose" -> f.id]

\* Faulty variants: the generation is not checked for its maximum; it is not
\* advanced.
PrepareNumbered(u, gen) ==
  LET setting == Setting(form[u], file) IN
  /\ pc[u] = "read"
  /\ IF SameSetting(setting, current[u])
       THEN /\ Goto(u, "read", "idle")
            /\ answer' = [answer EXCEPT ![u] = [code |-> 200, config |-> current[u]]]
            /\ UNCHANGED draft
       ELSE /\ Goto(u, "read", "write")
            /\ draft' = [draft EXCEPT ![u] =
                 [gen |-> gen, mode |-> setting.mode, id |-> setting.id]]
            /\ UNCHANGED answer
  /\ UNCHANGED <<store, daemon, form, current, faults, stops, history>>

PrepareUnbounded(u) == pc[u] = "read" /\ PrepareNumbered(u, current[u].gen + 1)
PrepareSameGeneration(u) == pc[u] = "read" /\ PrepareNumbered(u, current[u].gen)

\* The file is read and compared with the running configuration.
Prepare(u) ==
  LET setting == Setting(form[u], file)
      running == current[u]
  IN  /\ pc[u] = "read"
      /\ IF SameSetting(setting, running)
           THEN /\ Goto(u, "read", "idle")
                /\ answer' = [answer EXCEPT ![u] = [code |-> 200, config |-> running]]
                /\ UNCHANGED draft
         ELSE IF running.gen = MaxGeneration THEN Fail(u, 409) /\ UNCHANGED draft
         ELSE /\ Goto(u, "read", "write")
              /\ draft' = [draft EXCEPT ![u] = [gen  |-> running.gen + 1,
                                                mode |-> setting.mode,
                                                id   |-> setting.id]]
              /\ UNCHANGED answer
      /\ UNCHANGED <<store, daemon, form, current, faults, stops, history>>

\* The file, the profile or random bytes cannot be read, or not be written.
PrepareFails(u, code) ==
  /\ pc[u] \in {"read", "write"}
  /\ Fail(u, code)
  /\ UNCHANGED <<store, daemon, request, faults, stops, history>>

\* write_runtime_control_file.
Persist(u) ==
  /\ Goto(u, "write", "persisted")
  /\ file' = draft[u]
  /\ draft' = [draft EXCEPT ![u] = NoConfig]
  /\ UNCHANGED <<kernel, daemon, form, current, answer, faults, stops, history>>

RequestApply(u) ==
  /\ IF Up
       THEN /\ Goto(u, "persisted", "apply")
            /\ queue' = Append(queue, <<u, "apply">>)
            /\ UNCHANGED <<answer, split>>
       ELSE /\ pc[u] = "persisted"
            /\ Fail(u, 503)
            /\ split' = TRUE
            /\ UNCHANGED queue
  /\ UNCHANGED <<store, loaded, request, faults, stops, restarted>>

-----------------------------------------------------------------------------

Serve(u) ==
  \/ \E readable \in BOOLEAN : ServeStatus(u, readable)
  \/ LoadFile(u)
  \/ AlreadyActive(u) \/ RejectLoaded(u)
  \/ \E reported \in BOOLEAN : PublishLoaded(u, reported)

Handle(u) ==
  \/ Prepare(u) \/ \E code \in {409, 500} : PrepareFails(u, code)
  \/ Persist(u) \/ RequestApply(u)

Next ==
  \/ \E mode \in Modes : StartDaemon(mode)
  \/ StopDaemon
  \/ \E u \in Uis :
       \/ StartUi(u) \/ EndUi(u) \/ Serve(u) \/ Handle(u)
       \/ \E f \in Forms : Submit(u, f)

Spec == Init /\ [][Next]_vars

\* The daemon serves what is in its backlog, and a WebUI thread runs on.
FairSpec ==
  /\ Spec
  /\ WF_vars(\E u \in Uis : Serve(u))
  /\ \A u \in Uis : WF_vars(Handle(u))

-----------------------------------------------------------------------------
(* Properties.                                                             *)

Answers == [code : {0, 200, 409, 500, 503}, config : Configs \cup {NoConfig}]

TypeOK ==
  /\ file \in Configs \cup {NoConfig}
  /\ kernel \in Configs \cup {NoConfig}
  /\ queue \in Seq(Uis \X {"status", "apply"})
  /\ loaded \in Configs \cup {NoConfig}
  /\ pc \in [Uis -> {"off", "idle", "status", "read", "write", "persisted", "apply",
                     "dead"}]
  /\ form \in [Uis -> Forms]
  /\ current \in [Uis -> Configs \cup {NoConfig}]
  /\ draft \in [Uis -> Configs \cup {NoConfig}]
  /\ answer \in [Uis -> Answers]
  /\ faults \in 0..MaxFaults
  /\ stops \in 0..MaxStops
  /\ restarted \in [Uis -> BOOLEAN]
  /\ split \in BOOLEAN

\* An apply request that is answered with success has taken effect: the mode
\* it asked for runs, with the ID it asked for, also if the daemon stopped and
\* came back meanwhile; unless it stopped before the request was persisted and
\* came back with a configuration that an earlier request had left in the file.
SuccessTakesEffect ==
  \A u \in Uis :
    answer[u].code = 200 /\ ~restarted[u] =>
      /\ answer[u].config.mode = form[u].mode
      /\ form[u].action = "derive" => answer[u].config.id = Derived
      /\ form[u].action = "choose" => answer[u].config.id = form[u].id

\* The control file never falls behind the hook, so that no restart of the
\* daemon brings back a configuration that was replaced.
FileNotBehind ==
  Up => file.gen >= kernel.gen

\* A restart brings back what runs, unless an apply request persisted its
\* configuration and then did not succeed.
RestartKeepsRunning ==
  Up /\ ~split /\ (\A u \in Uis : pc[u] \notin {"persisted", "apply"})
    => file = kernel

\* Every request is answered or its process ends, also when the daemon stops
\* in the middle of it.
RequestsAnswered ==
  \A u \in Uis : pc[u] = "status" ~> pc[u] \in {"idle", "dead"}

=============================================================================
