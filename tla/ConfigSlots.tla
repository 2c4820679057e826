---------------------------- MODULE ConfigSlots -----------------------------
(***************************************************************************)
(* Publication of the runtime configuration to the binder_ioctl hook       *)
(* (binder_hook_builder.cpp): two slots and an active index in the kernel  *)
(* context.  One publisher, the daemon's control loop, fills the inactive  *)
(* slot word by word and then store-releases the index; every step may     *)
(* fail and leaves what was already written in place.  Readers are HAL     *)
(* Binder threads whose BC_REPLY was correlated with a deviceUniqueId      *)
(* request: they load-acquire the index once, keep the slot's address, and *)
(* read its words later, after two copies from user memory.                *)
(*                                                                         *)
(* Abstractions.  A virtual ID is copied in two words, low and high, which *)
(* is enough to see a mixed ID.  seed_generation and profile_fingerprint   *)
(* are not read by the hook; virtual_id_length is 32 in every slot that    *)
(* validate_runtime_config lets through, so its check is never taken.      *)
(***************************************************************************)
EXTENDS Integers

CONSTANTS Readers,        \* HAL Binder threads parsing a correlated reply
          VirtualIds,     \* 32-byte identifiers
          Real,           \* the HAL's own bytes in a reply payload
          MaxGeneration,  \* bound on config_generation
          MaxSwitches     \* bound on runtime_config_switches

ASSUME RealAssumption == Real \notin VirtualIds
ASSUME BoundsAssumption == MaxGeneration \in Nat /\ MaxSwitches \in Nat

DryRun == 0
WriteTest == 1

\* The configurations validate_runtime_config accepts.
Configs == [gen : 1..MaxGeneration, mode : {DryRun, WriteTest}, id : VirtualIds]

WordNames == {"gen", "mode", "lo", "hi"}

\* RuntimeConfigSlot: the image of a configuration in kernel memory.
Image(c) == [gen |-> c.gen, mode |-> c.mode, lo |-> c.id, hi |-> c.id]

SlotImages == [gen : 1..MaxGeneration, mode : {DryRun, WriteTest},
               lo : VirtualIds, hi : VirtualIds]

\* A slot after one word of c's image was stored into it.
WithWord(image, w, c) == [image EXCEPT ![w] = Image(c)[w]]

VARIABLES
  slots,      \* config_slots[2]
  active,     \* active_config_slot
  switches,   \* runtime_config_switches
  wpc,        \* where publish_runtime_config is
  target,     \* the slot it fills
  next,       \* the configuration it publishes
  todo,       \* the words of the slot it has not written yet
  rpc,        \* where each reader is in emit_parse_hal_correlated_reply
  ptr,        \* the slot whose address the reader keeps in its scratch
  payload,    \* the reply content the Binder driver will copy
  verdict,    \* how the parse of the reply ended
  seen,       \* history: the configuration in force when ptr was captured
  lapped,     \* history: a publication chose the captured slot since
  flips       \* history: how often the index was switched

publisher == <<wpc, target, next, todo>>
readers == <<rpc, ptr, payload, verdict, seen>>
vars == <<slots, active, switches, publisher, readers, lapped, flips>>

Untouched == [lo |-> Real, hi |-> Real]

\* The configuration an image stands for (any, if the image is mixed).
ConfigOf(image) == [gen |-> image.gen, mode |-> image.mode, id |-> image.lo]

\* install_readonly_parser_hook: both slots hold the first configuration.
Init ==
  \E c \in Configs :
    /\ slots = [s \in 0..1 |-> Image(c)]
    /\ active = 0
    /\ switches = 0
    /\ wpc = "idle"
    /\ target = 0
    /\ next = c
    /\ todo = {}
    /\ rpc = [r \in Readers |-> "idle"]
    /\ ptr = [r \in Readers |-> 0]
    /\ payload = [r \in Readers |-> Untouched]
    /\ verdict = [r \in Readers |-> "none"]
    /\ seen = [r \in Readers |-> c]
    /\ lapped = [r \in Readers |-> FALSE]
    /\ flips = 0

-----------------------------------------------------------------------------
(* The publisher: publish_runtime_config and flip_slot_index.              *)

Busy(r) == rpc[r] # "idle"

\* Faulty variants: active + 1 for active ^ 1; the slot in use is overwritten.
BeginPublishAt(c, slot) ==
  /\ wpc = "idle"
  /\ c.gen > slots[active].gen
  /\ wpc' = "fill"
  /\ target' = slot
  /\ next' = c
  /\ todo' = WordNames
  /\ lapped' = [r \in Readers |-> lapped[r] \/ (Busy(r) /\ ptr[r] = 1 - active)]
  /\ UNCHANGED <<slots, active, switches, readers, flips>>

BeginPublishNextSlot(c) == BeginPublishAt(c, active + 1)
BeginPublishInPlace(c) == BeginPublishAt(c, active)

\* The snapshot is read, the generation accepted, the inactive slot chosen.
\* A stale generation or a failed read returns before anything is written.
BeginPublish(c) ==
  /\ wpc = "idle"
  /\ c.gen > slots[active].gen
  /\ wpc' = "fill"
  /\ target' = 1 - active
  /\ next' = c
  /\ todo' = WordNames
  /\ lapped' = [r \in Readers |-> lapped[r] \/ (Busy(r) /\ ptr[r] = 1 - active)]
  /\ UNCHANGED <<slots, active, switches, readers, flips>>

\* write_kernel_mem stores the words of the slot; their order is its own.
FillWord(w) ==
  /\ wpc = "fill"
  /\ w \in todo
  /\ slots' = [slots EXCEPT ![target] = WithWord(@, w, next)]
  /\ todo' = todo \ {w}
  /\ UNCHANGED <<active, switches, wpc, target, next, readers, lapped, flips>>

\* Faulty variants: the index is switched before the slot is complete; the
\* counter is left as it was.
CountSwitchEarly ==
  /\ wpc = "fill"
  /\ switches < MaxSwitches
  /\ switches' = switches + 1
  /\ wpc' = "flip"
  /\ UNCHANGED <<slots, active, target, next, todo, readers, lapped, flips>>

CountSwitchForgotten ==
  /\ wpc = "fill"
  /\ todo = {}
  /\ wpc' = "flip"
  /\ UNCHANGED <<slots, active, switches, target, next, todo, readers, lapped,
                 flips>>

\* The switch counter is written before the index is.
CountSwitch ==
  /\ wpc = "fill"
  /\ todo = {}
  /\ switches < MaxSwitches
  /\ switches' = switches + 1
  /\ wpc' = "flip"
  /\ UNCHANGED <<slots, active, target, next, todo, readers, lapped, flips>>

\* flip_slot_index: STLR of the new index.
Flip ==
  /\ wpc = "flip"
  /\ active' = target
  /\ flips' = flips + 1
  /\ wpc' = "idle"
  /\ UNCHANGED <<slots, switches, target, next, todo, readers, lapped>>

\* RETURN_IF_ERROR after any of the kernel writes.
PublishFails ==
  /\ wpc # "idle"
  /\ wpc' = "idle"
  /\ UNCHANGED <<slots, active, switches, target, next, todo, readers, lapped,
                 flips>>

-----------------------------------------------------------------------------
(* A reader: emit_parse_hal_correlated_reply.                              *)

Goto(r, from, to) ==
  /\ rpc[r] = from
  /\ rpc' = [rpc EXCEPT ![r] = to]

Finish(r, from, v) ==
  /\ Goto(r, from, "done")
  /\ verdict' = [verdict EXCEPT ![r] = v]

\* emit_capture_active_runtime_config, once per correlated reply.
Capture(r) ==
  /\ Goto(r, "idle", "header")
  /\ ptr' = [ptr EXCEPT ![r] = active]
  /\ payload' = [payload EXCEPT ![r] = Untouched]
  /\ verdict' = [verdict EXCEPT ![r] = "none"]
  /\ seen' = [seen EXCEPT ![r] = ConfigOf(slots[active])]
  /\ lapped' = [lapped EXCEPT ![r] = FALSE]
  /\ UNCHANGED <<slots, active, switches, publisher, flips>>

\* Short reply, unreadable header or content, error status, other length.
RejectReply(r) ==
  /\ Finish(r, "header", "rejected")
  /\ UNCHANGED <<slots, active, switches, publisher, ptr, payload, seen, lapped,
                 flips>>

\* Status 0, a 32-byte array, and its content could be copied.
AcceptReply(r) ==
  /\ Goto(r, "header", "mode")
  /\ UNCHANGED <<slots, active, switches, publisher, ptr, payload, verdict, seen,
                 lapped, flips>>

\* replacement_mode of the captured slot decides: count only, or overwrite.
CheckMode(r) ==
  /\ IF slots[ptr[r]].mode = DryRun
       THEN Finish(r, "mode", "dry_run")
       ELSE Goto(r, "mode", "lo") /\ UNCHANGED verdict
  /\ UNCHANGED <<slots, active, switches, publisher, ptr, payload, seen, lapped,
                 flips>>

\* copy_to_user of the captured slot's virtual_id, low bytes first.
CopyLow(r) ==
  /\ Goto(r, "lo", "hi")
  /\ payload' = [payload EXCEPT ![r] = [@ EXCEPT !.lo = slots[ptr[r]].lo]]
  /\ UNCHANGED <<slots, active, switches, publisher, ptr, verdict, seen, lapped,
                 flips>>

CopyHigh(r) ==
  /\ Finish(r, "hi", "written")
  /\ payload' = [payload EXCEPT ![r] = [@ EXCEPT !.hi = slots[ptr[r]].hi]]
  /\ UNCHANGED <<slots, active, switches, publisher, ptr, seen, lapped, flips>>

\* copy_to_user stops at a fault; what it has copied stays in the reply.
CopyFault(r) ==
  /\ rpc[r] \in {"lo", "hi"}
  /\ Finish(r, rpc[r], "fault")
  /\ UNCHANGED <<slots, active, switches, publisher, ptr, payload, seen, lapped,
                 flips>>

\* The original ioctl runs on the reply; the thread may later parse another.
Deliver(r) ==
  /\ Goto(r, "done", "idle")
  /\ UNCHANGED <<slots, active, switches, publisher, ptr, payload, verdict, seen,
                 lapped, flips>>

Read(r) ==
  \/ Capture(r) \/ RejectReply(r) \/ AcceptReply(r) \/ CheckMode(r)
  \/ CopyLow(r) \/ CopyHigh(r) \/ CopyFault(r) \/ Deliver(r)

Next ==
  \/ \E c \in Configs : BeginPublish(c)
  \/ \E w \in WordNames : FillWord(w)
  \/ CountSwitch
  \/ Flip
  \/ PublishFails
  \/ \E r \in Readers : Read(r)

Spec == Init /\ [][Next]_vars

-----------------------------------------------------------------------------
(* Properties.                                                             *)

TypeOK ==
  /\ slots \in [0..1 -> SlotImages]
  /\ active \in 0..1
  /\ switches \in 0..MaxSwitches
  /\ wpc \in {"idle", "fill", "flip"}
  /\ target \in 0..1
  /\ next \in Configs
  /\ todo \in SUBSET WordNames
  /\ rpc \in [Readers -> {"idle", "header", "mode", "lo", "hi", "done"}]
  /\ ptr \in [Readers -> 0..1]
  /\ payload \in [Readers -> [lo : VirtualIds \cup {Real},
                               hi : VirtualIds \cup {Real}]]
  /\ verdict \in [Readers -> {"none", "rejected", "dry_run", "written", "fault"}]
  /\ seen \in [Readers -> Configs]
  /\ lapped \in [Readers -> BOOLEAN]
  /\ flips \in Nat

\* The parse of r's reply acted on configuration c alone: its mode decided,
\* and every byte that was replaced is c's.
ActedOn(r, c) ==
  /\ verdict[r] = "written" =>
       c.mode = WriteTest /\ payload[r] = [lo |-> c.id, hi |-> c.id]
  /\ verdict[r] = "fault" =>
       c.mode = WriteTest /\ payload[r] \in [lo : {Real, c.id}, hi : {Real}]
  /\ verdict[r] = "dry_run" => c.mode = DryRun /\ payload[r] = Untouched
  /\ verdict[r] \in {"none", "rejected"} => payload[r] = Untouched

\* A reply is treated under exactly the configuration that was in force when
\* its parse captured the slot, through any number of failed publications and
\* any one completed one, as long as no later publication chose that slot.
UnlappedReplyCoherent ==
  \A r \in Readers : rpc[r] = "done" /\ ~lapped[r] => ActedOn(r, seen[r])

\* runtime_config_switches, the count the daemon reports, is at least the
\* number of switches the hook has seen: it is written before the index.
SwitchesNeverUndercount == switches >= flips

\* What the comment on emit_capture_active_runtime_config says: "this
\* transaction therefore sees one complete generation from rule check through
\* final byte copy".  The ID a reply leaves with is not a mix of two.
OneCompleteGeneration ==
  \A r \in Readers :
    verdict[r] = "written" => payload[r].lo = payload[r].hi

\* The active slot, read as one configuration, behaves as the register of
\* AtomicConfig: whole valid configurations with growing generations, although
\* publications are word by word and may fail half-way.
Register == INSTANCE AtomicConfig WITH cfg <-
  IF slots[active].lo = slots[active].hi THEN ConfigOf(slots[active])
                                         ELSE Real

PublicationIsAtomic == Register!Spec

=============================================================================
