---------------------------- MODULE PendingHook -----------------------------
(***************************************************************************)
(* Correlation of deviceUniqueId requests with their replies in the        *)
(* binder_ioctl hook (binder_hook_builder.cpp).  A HAL Binder thread that   *)
(* receives a synchronous deviceUniqueId BR_TRANSACTION pushes a frame on   *)
(* the stack of its slot; every BC_REPLY it sends pops one, and a reply     *)
(* with a frame of the current HAL identity generation is treated as the    *)
(* answer to a deviceUniqueId request.  The table is guarded by a try-lock  *)
(* that gives up after a bounded number of attempts.                        *)
(*                                                                         *)
(* One bucket of the table is modelled: tasks of different buckets share    *)
(* only the lock.  Several HALs run at a time and an identity set names some *)
(* of them; a slot is found by its task_struct alone.  pid and tgid in a    *)
(* slot are one number, which counts the threads that had the task_struct:  *)
(* only slots and threads of the same task_struct are compared by it.  A    *)
(* HAL is known by its tgid, as in the code: a process that is given the    *)
(* tgid of one that ended is the same HAL with other threads.  The          *)
(* diagnostic counters and the event ring are left out; request_event_id    *)
(* is kept, it identifies a frame and orders the slots for reclaiming.      *)
(***************************************************************************)
EXTENDS Naturals, Sequences

CONSTANTS Tasks,         \* task_struct addresses of HAL threads, one bucket
          None,          \* a zero task_kaddr
          Hals,          \* DRM HAL services, each with one process at a time
          Ways,          \* kPendingBucketWays
          Depth,         \* kPendingDepth
          MaxEvents,     \* bound on requests received
          MaxNesting,    \* bound on requests a thread serves at once
          MaxGeneration, \* bound on the HAL identity generation
          MaxPid,        \* bound on reuses of a task_struct
          Live           \* threads that the scheduler keeps running

ASSUME NoneAssumption == None \notin Tasks
ASSUME SizeAssumption == Ways \in Nat \ {0} /\ Depth \in Nat \ {0}
ASSUME LiveAssumption == Live \subseteq Tasks
ASSUME BoundAssumption == /\ MaxEvents \in Nat /\ MaxNesting \in Nat
                          /\ MaxGeneration \in Nat \ {0} /\ MaxPid \in Nat \ {0}

VARIABLES
  slots,     \* pending: the slots of the bucket
  lock,      \* pending_lock_state
  halGen,    \* generation of the active HAL identity set
  tracked,   \* the HALs whose running process the active identity set names
  home,      \* the HAL whose process owns each task_struct
  pid,       \* identity of the thread that owns each task_struct
  pc,        \* where each thread is: HAL code, the driver, or the hook
  gated,     \* verdict of the identity gate at the entry of its ioctl
  stack,     \* requests the thread serves, the innermost last
  way,       \* x15: the slot a lookup settled on (0: none)
  reset,     \* that slot is to be claimed afresh
  got,       \* x21: request event id the reply is correlated with (0: none)
  payload,   \* what the hook did with the reply content
  events,    \* event_write_index, counting received requests
  pushed,    \* history: frames pushed since each HAL's process started
  causes     \* history: what may have set frames and requests apart

table == <<slots, lock>>
hal == <<halGen, tracked, pushed>>
thread == <<pid, home, stack>>
local == <<way, reset, got>>
vars == <<table, hal, thread, local, pc, gated, payload, events, causes>>

WayIds == 1..Ways

FreeSlot == [task |-> None, pid |-> 0, frames |-> <<>>]

WaysOf(t) == {w \in WayIds : slots[w].task = t}
HasSlot(t) == WaysOf(t) # {}
Top(s) == s[Len(s)]
Pop(s) == SubSeq(s, 1, Len(s) - 1)

Init ==
  /\ slots = [w \in WayIds |-> FreeSlot]
  /\ lock = 0
  /\ halGen = 1
  /\ tracked = Hals
  /\ home \in [Tasks -> Hals]
  /\ pid = [t \in Tasks |-> 1]
  /\ pc = [t \in Tasks |-> "user"]
  /\ gated = [t \in Tasks |-> FALSE]
  /\ stack = [t \in Tasks |-> <<>>]
  /\ way = [t \in Tasks |-> 0]
  /\ reset = [t \in Tasks |-> FALSE]
  /\ got = [t \in Tasks |-> 0]
  /\ payload = [t \in Tasks |-> "kept"]
  /\ events = 0
  /\ pushed = [h \in Hals |-> {}]
  /\ causes = [t \in Tasks |-> {}]

Goto(t, from, to) ==
  /\ pc[t] = from
  /\ pc' = [pc EXCEPT ![t] = to]

\* The gate's verdict lives as long as the ioctl.
Leave(t, from) ==
  /\ Goto(t, from, "user")
  /\ gated' = [gated EXCEPT ![t] = FALSE]

\* From here on t's frames may no longer be those of its innermost requests.
Disturb(t, cause) ==
  causes' = [causes EXCEPT ![t] = IF HasSlot(t) THEN @ \cup {cause} ELSE @]

-----------------------------------------------------------------------------
(* Entering binder_ioctl: emit_hal_identity_gate, then the BC stream.      *)

\* The active identity set names the process of t.
Tracked(t) == home[t] \in tracked

\* An ioctl without a reply: read for work, or an outgoing call.
EnterToRead(t) ==
  /\ Goto(t, "user", "driver")
  /\ gated' = [gated EXCEPT ![t] = Tracked(t)]
  /\ UNCHANGED <<table, hal, thread, local, payload, events, causes>>

\* An ioctl whose BC stream carries the reply to the innermost request.
EnterWithReply(t) ==
  /\ stack[t] # <<>>
  /\ Goto(t, "user", IF Tracked(t) THEN "pop" ELSE "send")
  /\ gated' = [gated EXCEPT ![t] = Tracked(t)]
  /\ UNCHANGED <<table, hal, thread, local, payload, events, causes>>

\* The stream is capped, or its header or the command cannot be read: the
\* reply goes out without emit_record_transaction having seen it.
SkipReply(t) ==
  /\ Goto(t, "pop", "send")
  /\ Disturb(t, "unparsed")
  /\ UNCHANGED <<table, hal, thread, local, gated, payload, events>>

-----------------------------------------------------------------------------
(* emit_bounded_lock_acquire / emit_bounded_lock_release.                  *)

Acquire(t, from, to) ==
  /\ Goto(t, from, to)
  /\ lock = 0
  /\ lock' = 1

\* Faulty variant: the attempts are not bounded.
GiveUpNever(t, from, to) ==
  /\ Goto(t, from, from)
  /\ lock = 1
  /\ UNCHANGED causes

\* Every attempt found the lock taken; the caller goes on without it.
GiveUp(t, from, to) ==
  /\ Goto(t, from, to)
  /\ lock = 1
  /\ Disturb(t, "contention")

-----------------------------------------------------------------------------
(* emit_pending_pop and emit_parse_hal_correlated_reply.                   *)

PopLock(t) ==
  /\ Acquire(t, "pop", "find")
  /\ UNCHANGED <<slots, hal, thread, local, gated, payload, events, causes>>

PopDropped(t) ==
  /\ GiveUp(t, "pop", "reply")
  /\ UNCHANGED <<table, hal, thread, local, gated, payload, events>>

\* The first of some ways.
FirstWay(ways) == CHOOSE w \in ways : \A v \in ways : w <= v

\* The first way whose task_kaddr is the current task; pid is not compared.
FindSlot(t) ==
  /\ Goto(t, "find", "take")
  /\ way' = [way EXCEPT ![t] = IF HasSlot(t) THEN FirstWay(WaysOf(t)) ELSE 0]
  /\ UNCHANGED <<table, hal, thread, reset, got, gated, payload, events, causes>>

\* Faulty variants: the frame stays on the stack; its generation is ignored.
TakeFrameAs(t, Id(_), Rest(_)) ==
  /\ Goto(t, "take", "reply")
  /\ lock' = 0
  /\ IF way[t] = 0 \/ slots[way[t]].frames = <<>>
       THEN UNCHANGED <<slots, got>>
       ELSE LET s == slots[way[t]] IN
            /\ got' = [got EXCEPT ![t] = Id(Top(s.frames))]
            /\ slots' = [slots EXCEPT ![way[t]] =
                 IF Rest(s.frames) = <<>> THEN FreeSlot
                 ELSE [s EXCEPT !.frames = Rest(@)]]
  /\ way' = [way EXCEPT ![t] = 0]
  /\ UNCHANGED <<hal, thread, reset, gated, payload, events, causes>>

TakeFrameKept(t) ==
  LET Id(f) == IF f.gen = halGen THEN f.id ELSE 0
      Rest(frames) == frames
  IN  TakeFrameAs(t, Id, Rest)

TakeFrameAnyGeneration(t) ==
  LET Id(f) == f.id
      Rest(frames) == Pop(frames)
  IN  TakeFrameAs(t, Id, Rest)

\* The lookup settled on a slot that has a frame.
Found(t) == way[t] # 0 /\ slots[way[t]].frames # <<>>

TakeNothing(t) ==
  /\ Goto(t, "take", "reply")
  /\ ~Found(t)
  /\ lock' = 0
  /\ way' = [way EXCEPT ![t] = 0]
  /\ UNCHANGED <<slots, hal, thread, reset, got, gated, payload, events, causes>>

\* The frame is consumed even when its generation is stale; the last frame
\* frees the slot.
TakeTop(t) ==
  LET s == slots[way[t]]
      f == Top(s.frames)
      rest == Pop(s.frames)
  IN  /\ Goto(t, "take", "reply")
      /\ Found(t)
      /\ lock' = 0
      /\ got' = [got EXCEPT ![t] = IF f.gen = halGen THEN f.id ELSE 0]
      /\ slots' = [slots EXCEPT ![way[t]] =
           IF rest = <<>> THEN FreeSlot ELSE [s EXCEPT !.frames = rest]]
      /\ way' = [way EXCEPT ![t] = 0]
      /\ UNCHANGED <<hal, thread, reset, gated, payload, events, causes>>

TakeFrame(t) == TakeNothing(t) \/ TakeTop(t)

\* A correlated reply with status 0 and a 32-byte array is replaced in Write
\* mode (fits); all others are left alone.
ParseReply(t, fits) ==
  /\ Goto(t, "reply", "send")
  /\ payload' = [payload EXCEPT ![t] =
                   IF got[t] # 0 /\ fits THEN "replaced" ELSE "kept"]
  /\ UNCHANGED <<table, hal, thread, local, gated, events, causes>>

\* The original binder_ioctl takes the reply.
SendReply(t) ==
  /\ Goto(t, "send", "driver")
  /\ stack' = [stack EXCEPT ![t] = Pop(@)]
  /\ payload' = [payload EXCEPT ![t] = "kept"]
  /\ got' = [got EXCEPT ![t] = 0]
  /\ UNCHANGED <<table, hal, pid, home, way, reset, gated, events,
                 causes>>

\* The driver stops before the reply; the thread will submit it again, and
\* the hook will parse it again.
RefuseReply(t) ==
  /\ Leave(t, "send")
  /\ payload' = [payload EXCEPT ![t] = "kept"]
  /\ got' = [got EXCEPT ![t] = 0]
  /\ IF gated[t] THEN Disturb(t, "retry") ELSE UNCHANGED causes
  /\ UNCHANGED <<table, hal, thread, way, reset, events>>

-----------------------------------------------------------------------------
(* Returning from binder_ioctl: the BR stream and emit_pending_push.       *)

\* The ioctl returns without a synchronous request (a one-way request is
\* counted and ignored).
ReturnEmpty(t) ==
  /\ Leave(t, "driver")
  /\ UNCHANGED <<table, hal, thread, local, payload, events, causes>>

Receive(t, deviceId) ==
  /\ events < MaxEvents
  /\ Len(stack[t]) < MaxNesting
  /\ events' = events + 1
  /\ stack' = [stack EXCEPT ![t] = Append(@, [id |-> events + 1,
                                              deviceId |-> deviceId])]

\* A thread with nothing to serve and no frames starts afresh.
Settled(t) == stack[t] = <<>> /\ ~HasSlot(t)

\* A deviceUniqueId request that the hook recognises.
ReceiveDeviceId(t) ==
  /\ gated[t]
  /\ Goto(t, "driver", "push")
  /\ Receive(t, TRUE)
  /\ causes' = [causes EXCEPT ![t] = IF Settled(t) THEN {} ELSE @]
  /\ UNCHANGED <<table, hal, pid, home, local, gated, payload>>

\* Any other request, or one the hook does not get to see: nothing is pushed.
ReceiveOther(t, deviceId) ==
  /\ Leave(t, "driver")
  /\ Receive(t, deviceId)
  /\ IF stack[t] # <<>> THEN Disturb(t, "nested")
                        ELSE causes' = [causes EXCEPT ![t] =
                               IF HasSlot(t) THEN @ ELSE {}]
  /\ UNCHANGED <<table, hal, pid, home, local, payload>>

PushLock(t) ==
  /\ Acquire(t, "push", "scan")
  /\ UNCHANGED <<slots, hal, thread, local, gated, payload, events, causes>>

PushDropped(t) ==
  /\ GiveUp(t, "push", "user")
  /\ gated' = [gated EXCEPT ![t] = FALSE]
  /\ UNCHANGED <<table, hal, thread, local, payload, events>>

\* The age by which a full bucket is reclaimed: the top frame's event id.
Age(s) == IF s.frames = <<>> THEN 0 ELSE Top(s.frames).id

\* Faulty variants: an empty way is preferred to the thread's own slot; the
\* first way is taken when the bucket is full.
ScanBucketAs(t, chosen, mine) ==
  /\ Goto(t, "scan", "commit")
  /\ way' = [way EXCEPT ![t] = chosen]
  /\ reset' = [reset EXCEPT ![t] = ~mine \/ slots[chosen].pid # pid[t]]
  /\ UNCHANGED <<table, hal, thread, got, gated, payload, events, causes>>

ScanBucketEmptyFirst(t) ==
  IF HasSlot(None) THEN ScanBucketAs(t, FirstWay(WaysOf(None)), FALSE)
  ELSE IF HasSlot(t) THEN ScanBucketAs(t, FirstWay(WaysOf(t)), TRUE)
  ELSE ScanBucketAs(t, 1, FALSE)

ScanBucketFirstWay(t) ==
  IF HasSlot(t) THEN ScanBucketAs(t, FirstWay(WaysOf(t)), TRUE)
  ELSE IF HasSlot(None) THEN ScanBucketAs(t, FirstWay(WaysOf(None)), FALSE)
  ELSE ScanBucketAs(t, 1, FALSE)

\* The thread's own slot; else the first empty one; else the oldest.  A slot
\* of the same task_struct under another identity is claimed afresh.
ScanBucket(t) ==
  LET oldest == {w \in WayIds : \A v \in WayIds : Age(slots[w]) <= Age(slots[v])}
      chosen == IF HasSlot(t) THEN FirstWay(WaysOf(t))
                ELSE IF HasSlot(None) THEN FirstWay(WaysOf(None))
                ELSE FirstWay(oldest)
  IN  /\ Goto(t, "scan", "commit")
      /\ way' = [way EXCEPT ![t] = chosen]
      /\ reset' = [reset EXCEPT ![t] = ~HasSlot(t) \/ slots[chosen].pid # pid[t]]
      /\ UNCHANGED <<table, hal, thread, got, gated, payload, events, causes>>

\* The slot, claimed afresh if needed.
Claimed(t) ==
  IF reset[t] THEN [task |-> t, pid |-> pid[t], frames |-> <<>>] ELSE slots[way[t]]

Store(t, slot) ==
  /\ Leave(t, "commit")
  /\ lock' = 0
  /\ slots' = [slots EXCEPT ![way[t]] = slot]
  /\ way' = [way EXCEPT ![t] = 0]
  /\ reset' = [reset EXCEPT ![t] = FALSE]
  /\ UNCHANGED <<halGen, tracked, thread, got, payload, events>>

\* The stack is full.
CommitFull(t) ==
  /\ Store(t, Claimed(t))
  /\ Len(Claimed(t).frames) >= Depth
  /\ Disturb(t, "overflow")
  /\ UNCHANGED pushed

\* The generation is the one in force now, not the one the gate saw.
CommitPush(t) ==
  LET frame == [id |-> Top(stack[t]).id, gen |-> halGen]
  IN  /\ Store(t, [Claimed(t) EXCEPT !.frames = Append(@, frame)])
      /\ Len(Claimed(t).frames) < Depth
      /\ pushed' = [h \in Hals |-> pushed[h] \cup {frame.id}]
      /\ UNCHANGED causes

CommitFrame(t) == CommitFull(t) \/ CommitPush(t)

-----------------------------------------------------------------------------
(* The environment: HAL threads and processes end, identities change.      *)

\* A HAL thread ends and its task_struct is reused by a thread of the same
\* or another HAL.
ThreadExit(t, h) ==
  /\ pc[t] = "user"
  /\ pid[t] < MaxPid
  /\ pid' = [pid EXCEPT ![t] = @ + 1]
  /\ home' = [home EXCEPT ![t] = h]
  /\ stack' = [stack EXCEPT ![t] = <<>>]
  /\ Disturb(t, "reuse")
  /\ UNCHANGED <<table, hal, local, pc, gated, payload, events>>

\* The process of a HAL ends outside the hook and another one starts, with a
\* tgid that the active identity set does not name.
HalRestart(h) ==
  LET Mine(t) == home[t] = h
  IN  /\ \A t \in Tasks : Mine(t) => pc[t] \in {"user", "driver"} /\ pid[t] < MaxPid
      /\ pid' = [t \in Tasks |-> IF Mine(t) THEN pid[t] + 1 ELSE pid[t]]
      /\ tracked' = tracked \ {h}
      /\ pc' = [t \in Tasks |-> IF Mine(t) THEN "user" ELSE pc[t]]
      /\ stack' = [t \in Tasks |-> IF Mine(t) THEN <<>> ELSE stack[t]]
      /\ pushed' = [pushed EXCEPT ![h] = {}]
      /\ causes' = [t \in Tasks |-> IF Mine(t) THEN {} ELSE causes[t]]
      /\ gated' = [t \in Tasks |-> ~Mine(t) /\ gated[t]]
      /\ UNCHANGED <<table, halGen, home, local, payload, events>>

\* publish_hal_identities: a set that names some of the running HALs, or none.
PublishIdentities(named) ==
  /\ halGen < MaxGeneration
  /\ halGen' = halGen + 1
  /\ tracked' = named
  /\ UNCHANGED <<table, pushed, thread, local, pc, gated, payload, events,
                 causes>>

-----------------------------------------------------------------------------

\* The steps a thread takes inside the hook, that is without waiting.
HookStep(t) ==
  \/ SkipReply(t) \/ PopLock(t) \/ PopDropped(t) \/ FindSlot(t) \/ TakeFrame(t)
  \/ \E fits \in BOOLEAN : ParseReply(t, fits)
  \/ PushLock(t) \/ PushDropped(t) \/ ScanBucket(t) \/ CommitFrame(t)

ThreadStep(t) ==
  \/ EnterToRead(t) \/ EnterWithReply(t) \/ HookStep(t)
  \/ SendReply(t) \/ RefuseReply(t) \/ ReturnEmpty(t)
  \/ ReceiveDeviceId(t)
  \/ \E d \in BOOLEAN : ReceiveOther(t, d)
  \/ \E h \in Hals : ThreadExit(t, h)

Next ==
  \/ \E t \in Tasks : ThreadStep(t)
  \/ \E h \in Hals : HalRestart(h)
  \/ \E named \in SUBSET Hals : PublishIdentities(named)

Spec == Init /\ [][Next]_vars

\* The hook never blocks, so a thread the scheduler keeps running completes
\* its hook steps; a thread outside Live may be preempted for good.
FairSpec == Spec /\ \A t \in Live : WF_vars(HookStep(t))

-----------------------------------------------------------------------------
(* Properties.                                                             *)

InHook == {"pop", "find", "take", "reply", "push", "scan", "commit"}

Frames == [id : 1..MaxEvents, gen : 1..MaxGeneration]
Requests == [id : 1..MaxEvents, deviceId : BOOLEAN]
Causes == {"unparsed", "contention", "retry", "nested", "overflow", "reuse"}

TypeOK ==
  /\ slots \in [WayIds -> [task : Tasks \cup {None}, pid : 0..MaxPid,
                           frames : Seq(Frames)]]
  /\ lock \in 0..1
  /\ halGen \in 1..MaxGeneration
  /\ tracked \subseteq Hals
  /\ home \in [Tasks -> Hals]
  /\ pid \in [Tasks -> 1..MaxPid]
  /\ pc \in [Tasks -> InHook \cup {"user", "driver", "send"}]
  /\ gated \in [Tasks -> BOOLEAN]
  /\ stack \in [Tasks -> Seq(Requests)]
  /\ way \in [Tasks -> 0..Ways]
  /\ reset \in [Tasks -> BOOLEAN]
  /\ got \in [Tasks -> 0..MaxEvents]
  /\ payload \in [Tasks -> {"kept", "replaced"}]
  /\ events \in 0..MaxEvents
  /\ pushed \in [Hals -> SUBSET (1..MaxEvents)]
  /\ causes \in [Tasks -> SUBSET Causes]

\* Whenever the lock is free the bucket is sound: a slot is occupied exactly
\* when it has frames, no task has two slots, no stack exceeds its depth, and
\* a stack is ordered by event id, so its top is the most recent push.
TableWellFormed ==
  lock = 0 =>
    /\ \A w \in WayIds :
         LET f == slots[w].frames IN
         /\ slots[w].task = None <=> f = <<>>
         /\ Len(f) <= Depth
         /\ \A i, j \in 1..Len(f) : i < j => f[i].id < f[j].id
    /\ \A v, w \in WayIds :
         v # w /\ slots[v].task = slots[w].task => slots[v].task = None

\* A reply that is replaced is the reply to the very request whose frame it
\* popped, a deviceUniqueId request, unless one of the listed causes set the
\* frames and the requests of this thread apart.  Eviction by other threads,
\* stale generations and replies sent while the HAL was not tracked never do.
ExactUnlessDisturbed ==
  \A t \in Tasks :
    pc[t] = "send" /\ payload[t] = "replaced" /\ causes[t] = {} =>
      Top(stack[t]) = [id |-> got[t], deviceId |-> TRUE]

\* No reply of a HAL process is correlated with a frame pushed before that
\* process started, although its threads may have the task_structs of earlier
\* processes, of this HAL or of another, and the frames they left.  It is not
\* said that the frame is one of the process's own: two HALs of one generation
\* are kept apart only by their task_structs (the cause "reuse").
NoFrameOlderThanHal ==
  \A t \in Tasks : pc[t] = "reply" /\ got[t] # 0 => got[t] \in pushed[home[t]]

\* Another thread's slot is taken only when the bucket is full, and then the
\* one whose top frame is oldest.
EvictsOldestOnlyWhenFull ==
  [][\A w \in WayIds :
       slots'[w].task \notin {None, slots[w].task} /\ slots[w].task # None =>
         \A v \in WayIds : /\ slots[v].task # None
                           /\ Age(slots[w]) <= Age(slots[v])]_vars

\* A thread gets through the hook whatever the other threads do: also when a
\* thread that holds the lock never runs again.
HookCompletes ==
  \A t \in Live : pc[t] \in InHook ~> pc[t] \notin InHook

=============================================================================
