------------------------- MODULE PendingHookProofs --------------------------
(***************************************************************************)
(* PendingHook for any number of threads, any size of the bucket and every *)
(* bound: the table is sound, eviction takes the oldest of a full bucket,  *)
(* no reply is correlated with a frame older than the HAL process that     *)
(* sends it, and a reply that is replaced answers the very request whose   *)
(* frame it popped.                                                        *)
(***************************************************************************)
EXTENDS PendingHook, WellFoundedInduction, SequenceTheorems, TLAPS

Critical == {"find", "take", "scan", "commit"}
Pushing == {"push", "scan", "commit"}

\* pending_lock_state is 1 exactly while a thread is in a critical section.
LockInv ==
  /\ lock = 1 <=> \E t \in Tasks : pc[t] \in Critical
  /\ \A t, u \in Tasks : pc[t] \in Critical /\ pc[u] \in Critical => t = u

\* The bucket, whoever holds the lock.
SlotInv(w) ==
  LET f == slots[w].frames IN
  /\ slots[w].task = None <=> f = <<>>
  /\ Len(f) <= Depth
  /\ \A i \in 1..Len(f) : f[i].id <= events /\ f[i].gen <= halGen
  /\ \A i, j \in 1..Len(f) : i < j => f[i].id < f[j].id /\ f[i].gen <= f[j].gen

TableInv ==
  /\ \A w \in WayIds : SlotInv(w)
  /\ \A v, w \in WayIds :
       v # w /\ slots[v].task = slots[w].task => slots[v].task = None

\* What a critical section found out still holds when it acts on it.
LookupInv(t) ==
  /\ pc[t] = "take" =>
       IF HasSlot(t) THEN way[t] \in WaysOf(t) ELSE way[t] = 0
  /\ pc[t] = "commit" =>
       /\ way[t] \in WayIds
       /\ HasSlot(t) => way[t] \in WaysOf(t)
       /\ ~HasSlot(t) => reset[t]
       /\ slots[way[t]].task \notin {t, None} =>
            \A v \in WayIds : slots[v].task # None /\ Age(slots[way[t]]) <= Age(slots[v])

\* A thread that pushes has its request innermost, and received it after
\* every request whose frame it has.
RequestInv(t) ==
  /\ \A i \in 1..Len(stack[t]) : stack[t][i].id <= events
  /\ pc[t] \in Pushing => stack[t] # <<>> /\ Top(stack[t]).deviceId
  /\ pc[t] \in {"pop", "find", "take", "reply", "send"} => stack[t] # <<>>
  /\ pc[t] \in Pushing => \A w \in WaysOf(t) : \A i \in 1..Len(slots[w].frames) :
       slots[w].frames[i].id < Top(stack[t]).id

\* The gate lets in threads of HAL h, or has let one in.
Open(h) == h \in tracked \/ \E t \in Tasks : gated[t] /\ home[t] = h

\* While the gate lets threads of a HAL in, frames that are older than its
\* process are of an earlier generation.
GenerationInv ==
  \A h \in Hals : Open(h) =>
    \A w \in WayIds : \A i \in 1..Len(slots[w].frames) :
      slots[w].frames[i].id \notin pushed[h] => slots[w].frames[i].gen < halGen

\* Inside the hook a thread has passed the gate; a reply is correlated only
\* on its way through.
GateInv(t) ==
  /\ pc[t] \in InHook => gated[t]
  /\ pc[t] = "user" => ~gated[t]
  /\ pc[t] \notin {"reply", "send"} => got[t] = 0
  /\ pc[t] # "send" => payload[t] = "kept"
  /\ pc[t] = "send" => /\ payload[t] = "replaced" => got[t] # 0
                       /\ ~gated[t] => got[t] = 0
  /\ pc[t] = "reply" => got[t] = 0 \/ got[t] \in pushed[home[t]]

\* Frames of slot w that are of this generation are those of the innermost
\* requests of st, all of them for deviceUniqueId.
Matched(w, st) ==
  LET f == slots[w].frames IN
  \A i \in 1..Len(f) : f[i].gen = halGen =>
    LET j == Len(st) - (Len(f) - i)
    IN  j >= 1 /\ st[j] = [id |-> f[i].id, deviceId |-> TRUE]

\* Frames and requests of an undisturbed thread correspond: before a reply is
\* looked at, after its frame was popped, before the frame of a request is
\* pushed.  Replies that pass the hook by while their HAL is not tracked break
\* this, but what they leave behind is of an older generation once it is.
MatchInv(t) ==
  causes[t] = {} =>
    /\ pc[t] \in {"pop", "find", "take"} \/ (Tracked(t) /\ pc[t] \in {"user", "driver"}) =>
         \A w \in WaysOf(t) : Matched(w, stack[t])
    /\ (pc[t] = "reply") \/ (pc[t] = "send" /\ gated[t]) \/ (Tracked(t) /\ pc[t] \in Pushing) =>
         \A w \in WaysOf(t) : Matched(w, Pop(stack[t]))
    /\ pc[t] = "send" /\ ~gated[t] /\ Tracked(t) =>
         \A w \in WaysOf(t) : \A i \in 1..Len(slots[w].frames) : slots[w].frames[i].gen < halGen
    /\ got[t] # 0 => Top(stack[t]) = [id |-> got[t], deviceId |-> TRUE]

IInv ==
  /\ TypeOK /\ LockInv /\ TableInv /\ GenerationInv
  /\ \A t \in Tasks : LookupInv(t) /\ RequestInv(t) /\ GateInv(t) /\ MatchInv(t)

-----------------------------------------------------------------------------
(* Sequences and ways.                                                     *)

\* The last element of a stack and what is below it.
LEMMA PopProperties ==
  ASSUME NEW S, NEW s \in Seq(S), s # <<>>
  PROVE  /\ Len(s) \in Nat \ {0}
         /\ Top(s) \in S /\ Top(s) = s[Len(s)]
         /\ Pop(s) \in Seq(S) /\ Len(Pop(s)) = Len(s) - 1
         /\ \A i \in 1..(Len(s) - 1) : Pop(s)[i] = s[i]
<1>1. Len(s) \in Nat \ {0}
  BY EmptySeq
<1>2. Top(s) \in S /\ Top(s) = s[Len(s)]
  BY <1>1, ElementOfSeq DEF Top
<1> DEFINE n == Len(s) - 1
<1>3. n \in Int /\ \A i \in 1..n : s[i] \in S
  BY <1>1, ElementOfSeq
<1>4. /\ SubSeq(s, 1, n) \in Seq(S)
      /\ Len(SubSeq(s, 1, n)) = IF 1 <= n THEN n - 1 + 1 ELSE 0
      /\ \A i \in 1..(n - 1 + 1) : SubSeq(s, 1, n)[i] = s[1 + i - 1]
  BY <1>3, SubSeqProperties
<1>5. Pop(s) = SubSeq(s, 1, n)
  BY DEF Pop
<1>6. Pop(s) \in Seq(S) /\ Len(Pop(s)) = n
  <2>1. \A m \in Nat \ {0} : m - 1 = IF 1 <= m - 1 THEN (m - 1) - 1 + 1 ELSE 0
    OBVIOUS
  <2>2. n = IF 1 <= n THEN n - 1 + 1 ELSE 0
    BY <1>1, <2>1
  <2> HIDE DEF n
  <2> QED BY <1>4, <1>5, <2>2
<1>7. \A i \in 1..n : Pop(s)[i] = s[i]
  <2> SUFFICES ASSUME NEW i \in 1..n PROVE Pop(s)[i] = s[i]
    OBVIOUS
  <2>1. i \in 1..(n - 1 + 1) /\ 1 + i - 1 = i
    BY <1>1
  <2> QED BY <2>1, <1>4, <1>5
<1> QED BY <1>1, <1>2, <1>6, <1>7

\* A set of naturals that is not empty has a least element.
LEMMA LeastNatural ==
  ASSUME NEW S \in SUBSET Nat, S # {}
  PROVE  \E x \in S : \A y \in S : x <= y
<1> DEFINE R == OpToRel(<, Nat)
<1>1. IsWellFoundedOn(R, Nat)
  BY NatLessThanWellFounded
<1> HIDE DEF R
<1>2. PICK x \in S : \A y \in S : <<y, x>> \notin R
  BY <1>1, WFMin
<1>3. \A y \in S : ~(y < x)
  BY <1>2 DEF R, OpToRel
<1> QED BY <1>3

\* The first of some ways is one of them.
LEMMA FirstWayIn ==
  ASSUME NEW ways \in SUBSET WayIds, ways # {}
  PROVE  FirstWay(ways) \in ways
<1>1. ways \in SUBSET Nat
  BY SizeAssumption DEF WayIds
<1> QED BY <1>1, LeastNatural DEF FirstWay

\* The age of a slot is a number: an event id or 0.
LEMMA AgeType ==
  ASSUME TypeOK, NEW w \in WayIds
  PROVE  Age(slots[w]) \in Nat
<1>1. slots[w].frames \in Seq(Frames)
  BY DEF TypeOK
<1>2. CASE slots[w].frames # <<>>
  <2>1. Top(slots[w].frames) \in Frames
    BY <1>1, <1>2, PopProperties
  <2> QED BY <1>2, <2>1, BoundAssumption DEF Age, Frames
<1> QED BY <1>2 DEF Age

\* Some slot of the bucket is oldest.
LEMMA OldestExists ==
  ASSUME TypeOK
  PROVE  \E w \in WayIds : \A v \in WayIds : Age(slots[w]) <= Age(slots[v])
<1> DEFINE ages == {Age(slots[w]) : w \in WayIds}
<1>1. ages \in SUBSET Nat
  BY AgeType
<1>2. ages # {}
  <2>1. 1 \in WayIds
    BY SizeAssumption DEF WayIds
  <2> QED BY <2>1
<1>3. PICK a \in ages : \A b \in ages : a <= b
  BY <1>1, <1>2, LeastNatural
<1> QED BY <1>3

-----------------------------------------------------------------------------
(* The lock.                                                               *)

\* Critical sections exclude each other.
LEMMA LockStep ==
  ASSUME TypeOK, LockInv, [Next]_vars
  PROVE  LockInv'
<1> USE DEF TypeOK, LockInv, Critical, InHook, Goto, Leave, table, hal, thread, local
<1>1. ASSUME NEW t \in Tasks, NEW to,
             pc' = [pc EXCEPT ![t] = to], lock' = lock, pc[t] \notin Critical, to \notin Critical
      PROVE  LockInv'
  BY <1>1
<1>2. ASSUME NEW t \in Tasks, NEW to,
             pc' = [pc EXCEPT ![t] = to], lock' = 0, pc[t] \in Critical, to \notin Critical
      PROVE  LockInv'
  BY <1>2
<1>3. ASSUME NEW t \in Tasks,
             \/ EnterToRead(t) \/ EnterWithReply(t) \/ SkipReply(t) \/ PopDropped(t)
             \/ PushDropped(t) \/ SendReply(t) \/ RefuseReply(t) \/ ReturnEmpty(t)
      PROVE  LockInv'
  BY <1>1, <1>3 DEF EnterToRead, EnterWithReply, SkipReply, PopDropped, GiveUp, PushDropped,
              SendReply, RefuseReply, ReturnEmpty
<1>4. ASSUME NEW t \in Tasks,
             \/ ReceiveDeviceId(t) \/ (\E h \in Hals : ThreadExit(t, h))
             \/ \E fits \in BOOLEAN : ParseReply(t, fits)
             \/ \E d \in BOOLEAN : ReceiveOther(t, d)
      PROVE  LockInv'
  <2>1. CASE ReceiveDeviceId(t)
    BY <1>1, <2>1 DEF ReceiveDeviceId
  <2>2. CASE \E h \in Hals : ThreadExit(t, h)
    BY <2>2 DEF ThreadExit
  <2>3. CASE \E fits \in BOOLEAN : ParseReply(t, fits)
    BY <1>1, <2>3 DEF ParseReply
  <2>4. CASE \E d \in BOOLEAN : ReceiveOther(t, d)
    BY <1>1, <2>4 DEF ReceiveOther
  <2> QED BY <1>4, <2>1, <2>2, <2>3, <2>4
<1>a. ASSUME NEW t \in Tasks, PopLock(t) \/ PushLock(t) PROVE LockInv'
  BY <1>a DEF PopLock, PushLock, Acquire
<1>b. ASSUME NEW t \in Tasks, FindSlot(t) \/ ScanBucket(t) PROVE LockInv'
  BY <1>b DEF FindSlot, ScanBucket
<1>c. ASSUME NEW t \in Tasks, TakeFrame(t) PROVE LockInv'
  BY <1>2, <1>c DEF TakeFrame, TakeNothing, TakeTop
<1>d. ASSUME NEW t \in Tasks, CommitFrame(t) PROVE LockInv'
  BY <1>2, <1>d DEF CommitFrame, CommitFull, CommitPush, Store
<1>5. CASE \E h \in Hals : HalRestart(h)
  <2>1. PICK h \in Hals : HalRestart(h)
    BY <1>5
  <2>2. lock' = lock /\ \A t \in Tasks : pc'[t] \in Critical <=> pc[t] \in Critical
    BY <2>1 DEF HalRestart
  <2> QED BY <2>2
<1>6. CASE \E named \in SUBSET Hals : PublishIdentities(named)
  BY <1>6 DEF PublishIdentities
<1>7. CASE UNCHANGED vars
  BY <1>7 DEF vars
<1> QED BY <1>3, <1>4, <1>a, <1>b, <1>c, <1>d, <1>5, <1>6, <1>7 DEF Next, ThreadStep, HookStep

-----------------------------------------------------------------------------
(* What a step leaves alone.                                               *)

SlotType == [task : Tasks \cup {None}, pid : 0..MaxPid, frames : Seq(Frames)]

\* A thread's step is invisible in the state of other threads and of the HAL.
LEMMA OthersKept ==
  ASSUME TypeOK, NEW t \in Tasks, ThreadStep(t)
  PROVE  /\ halGen' = halGen /\ tracked' = tracked
         /\ pushed' = pushed \/ CommitPush(t)
         /\ \A h \in Hals : pushed[h] \subseteq pushed'[h]
         /\ events' \in {events, events + 1}
         /\ \A u \in Tasks \ {t} :
              /\ pid'[u] = pid[u] /\ home'[u] = home[u] /\ pc'[u] = pc[u] /\ gated'[u] = gated[u]
              /\ stack'[u] = stack[u] /\ way'[u] = way[u] /\ reset'[u] = reset[u]
              /\ got'[u] = got[u] /\ payload'[u] = payload[u] /\ causes'[u] = causes[u]
<1> USE DEF TypeOK, Goto, Leave, Disturb, table, hal, thread, local
<1>1. CASE EnterToRead(t) \/ EnterWithReply(t) \/ SkipReply(t)
  BY <1>1 DEF EnterToRead, EnterWithReply, SkipReply
<1>2. CASE PopLock(t) \/ PushLock(t)
  BY <1>2 DEF PopLock, PushLock, Acquire
<1>3. CASE PopDropped(t) \/ PushDropped(t)
  BY <1>3 DEF PopDropped, PushDropped, GiveUp
<1>4. CASE FindSlot(t) \/ ScanBucket(t)
  BY <1>4 DEF FindSlot, ScanBucket
<1>5. CASE TakeNothing(t) \/ TakeTop(t)
  BY <1>5 DEF TakeNothing, TakeTop
<1>6. CASE \E fits \in BOOLEAN : ParseReply(t, fits)
  BY <1>6 DEF ParseReply
<1>7. CASE SendReply(t)
  BY <1>7 DEF SendReply
<1>8. CASE RefuseReply(t)
  BY <1>8 DEF RefuseReply
<1>9. CASE ReturnEmpty(t)
  BY <1>9 DEF ReturnEmpty
<1>a. CASE ReceiveDeviceId(t)
  BY <1>a DEF ReceiveDeviceId, Receive
<1>b. CASE \E d \in BOOLEAN : ReceiveOther(t, d)
  BY <1>b DEF ReceiveOther, Receive
<1>c. CASE \E h \in Hals : ThreadExit(t, h)
  BY <1>c DEF ThreadExit
<1>d. CASE CommitFull(t)
  BY <1>d DEF CommitFull, Store
<1>e. CASE CommitPush(t)
  BY <1>e DEF CommitPush, Store
<1> QED BY <1>1, <1>2, <1>3, <1>4, <1>5, <1>6, <1>7, <1>8, <1>9, <1>a, <1>b, <1>c, <1>d, <1>e
        DEF ThreadStep, HookStep, TakeFrame, CommitFrame

\* The restart of a HAL is invisible in the threads of the others.
LEMMA RestartKeeps ==
  ASSUME TypeOK, NEW h \in Hals, HalRestart(h), NEW u \in Tasks, home[u] # h
  PROVE  /\ slots' = slots /\ lock' = lock /\ halGen' = halGen /\ events' = events
         /\ pc'[u] = pc[u] /\ gated'[u] = gated[u] /\ stack'[u] = stack[u] /\ way'[u] = way[u]
         /\ reset'[u] = reset[u] /\ got'[u] = got[u] /\ payload'[u] = payload[u]
         /\ causes'[u] = causes[u] /\ home'[u] = home[u] /\ pushed'[home[u]] = pushed[home[u]]
<1>1. gated' = [t \in Tasks |-> ~(home[t] = h) /\ gated[t]]
  BY DEF HalRestart
<1>2. gated[u] \in BOOLEAN
  BY Zenon DEF TypeOK
<1>3. gated'[u] = (~(home[u] = h) /\ gated[u])
  BY <1>1, Zenon
<1>4. gated'[u] = gated[u]
  BY <1>2, <1>3
<1>5. pushed'[home[u]] = pushed[home[u]]
  BY DEF HalRestart, TypeOK
<1> QED BY <1>4, <1>5 DEF HalRestart, table, local

\* A full stack is never one claimed afresh: it stays as it is.
LEMMA FullEffect ==
  ASSUME TypeOK, NEW t \in Tasks, LookupInv(t), CommitFull(t)
  PROVE  slots' = slots /\ HasSlot(t)
<1>1. ~reset[t]
  <2>1. Len(<<>>) = 0 /\ ~(0 >= Depth)
    BY SizeAssumption, EmptySeq
  <2>2. Len(Claimed(t).frames) >= Depth
    BY DEF CommitFull
  <2>3. reset[t] => Claimed(t).frames = <<>>
    BY DEF Claimed
  <2> QED BY <2>1, <2>2, <2>3
<1>2. pc[t] = "commit" /\ slots' = [slots EXCEPT ![way[t]] = slots[way[t]]]
  BY <1>1 DEF CommitFull, Store, Leave, Goto, Claimed
<1> QED BY <1>1, <1>2 DEF LookupInv, TypeOK

\* The frame that t would push.
NewFrame(t) == [id |-> Top(stack[t]).id, gen |-> halGen]

\* A push adds the frame of the innermost request to the thread's slot, or to
\* an empty stack where the thread had no slot of its own.
LEMMA PushEffect ==
  ASSUME TypeOK, NEW t \in Tasks, LookupInv(t), RequestInv(t), CommitPush(t)
  PROVE  /\ way[t] \in WayIds
         /\ HasSlot(t) => way[t] \in WaysOf(t)
         /\ NewFrame(t) \in Frames
         /\ Claimed(t).frames \in Seq(Frames) /\ Claimed(t).pid \in 0..MaxPid
         /\ \/ Claimed(t).frames = <<>>
            \/ way[t] \in WaysOf(t) /\ Claimed(t).frames = slots[way[t]].frames
         /\ Len(Claimed(t).frames) < Depth
         /\ slots' = [slots EXCEPT ![way[t]] =
              [task |-> t, pid |-> Claimed(t).pid, frames |-> Append(Claimed(t).frames, NewFrame(t))]]
<1>1. pc[t] = "commit"
  BY DEF CommitPush, Store, Leave, Goto
<1>2. way[t] \in WayIds /\ (HasSlot(t) => way[t] \in WaysOf(t)) /\ (~HasSlot(t) => reset[t])
  BY <1>1 DEF LookupInv
<1>3. stack[t] \in Seq(Requests) /\ stack[t] # <<>>
  BY <1>1 DEF RequestInv, Pushing, TypeOK
<1>4. Top(stack[t]) \in Requests
  BY <1>3, PopProperties
<1>5. NewFrame(t) \in Frames
  BY <1>4 DEF Requests, Frames, TypeOK, NewFrame
<1> DEFINE old == Claimed(t).frames
           p == Claimed(t).pid
<1>6. /\ old \in Seq(Frames) /\ p \in 0..MaxPid
      /\ Claimed(t) = [task |-> t, pid |-> p, frames |-> old]
      /\ old = <<>> \/ (way[t] \in WaysOf(t) /\ old = slots[way[t]].frames)
  <2>1. CASE reset[t]
    <3>1. Claimed(t) = [task |-> t, pid |-> pid[t], frames |-> <<>>]
      BY <2>1 DEF Claimed
    <3>2. pid[t] \in 0..MaxPid /\ <<>> \in Seq(Frames)
      BY BoundAssumption DEF TypeOK
    <3> QED BY <3>1, <3>2
  <2>2. CASE ~reset[t]
    <3>1. Claimed(t) = slots[way[t]] /\ way[t] \in WaysOf(t)
      BY <1>2, <2>2 DEF Claimed
    <3>2. slots[way[t]] \in SlotType
      BY <1>2 DEF TypeOK, SlotType
    <3>3. slots[way[t]].task = t
      BY <3>1 DEF WaysOf
    <3> QED BY <3>1, <3>2, <3>3 DEF SlotType
  <2> QED BY <2>1, <2>2
<1>7. Len(old) < Depth
  BY DEF CommitPush
<1>8. slots' = [slots EXCEPT ![way[t]] = [Claimed(t) EXCEPT !.frames = Append(old, NewFrame(t))]]
  BY DEF CommitPush, Store, NewFrame
<1>9. [Claimed(t) EXCEPT !.frames = Append(old, NewFrame(t))]
      = [task |-> t, pid |-> p, frames |-> Append(old, NewFrame(t))]
  <2> HIDE DEF old, p
  <2> QED BY <1>6
<1> QED BY <1>2, <1>5, <1>6, <1>7, <1>8, <1>9

\* A pop takes the top frame off the thread's own slot.
LEMMA TakeEffect ==
  ASSUME TypeOK, NEW t \in Tasks, LookupInv(t), TakeTop(t)
  PROVE  /\ way[t] \in WaysOf(t)
         /\ slots[way[t]].frames \in Seq(Frames) /\ slots[way[t]].frames # <<>>
         /\ slots' = [slots EXCEPT ![way[t]] =
              IF Pop(slots[way[t]].frames) = <<>> THEN FreeSlot
              ELSE [task |-> t, pid |-> slots[way[t]].pid, frames |-> Pop(slots[way[t]].frames)]]
<1>1. pc[t] = "take" /\ way[t] # 0 /\ slots[way[t]].frames # <<>>
  BY DEF TakeTop, Goto, Found
<1>2. way[t] \in WaysOf(t)
  BY <1>1 DEF LookupInv
<1>3. way[t] \in WayIds /\ slots[way[t]].task = t
  BY <1>2 DEF WaysOf
<1>4. slots[way[t]] \in [task : Tasks \cup {None}, pid : 0..MaxPid, frames : Seq(Frames)]
  BY <1>3 DEF TypeOK
<1> DEFINE s == slots[way[t]]
           rest == Pop(s.frames)
<1>5. [s EXCEPT !.frames = rest] = [task |-> t, pid |-> s.pid, frames |-> rest]
  <2> HIDE DEF rest
  <2> QED BY <1>3, <1>4
<1>6. slots' = [slots EXCEPT ![way[t]] = IF rest = <<>> THEN FreeSlot ELSE [s EXCEPT !.frames = rest]]
  BY DEF TakeTop
<1> QED BY <1>1, <1>2, <1>4, <1>5, <1>6

\* Only a thread in its critical section writes the bucket.
LEMMA SlotsKept ==
  ASSUME TypeOK, NEW t \in Tasks, LookupInv(t), ThreadStep(t)
  PROVE  slots' = slots \/ TakeTop(t) \/ CommitPush(t)
<1> USE DEF table
<1>1. CASE EnterToRead(t) \/ EnterWithReply(t) \/ SkipReply(t)
  BY <1>1 DEF EnterToRead, EnterWithReply, SkipReply
<1>2. CASE PopLock(t) \/ PushLock(t) \/ PopDropped(t) \/ PushDropped(t)
  BY <1>2 DEF PopLock, PushLock, PopDropped, PushDropped
<1>3. CASE FindSlot(t) \/ ScanBucket(t) \/ TakeNothing(t)
  BY <1>3 DEF FindSlot, ScanBucket, TakeNothing
<1>4. CASE \E fits \in BOOLEAN : ParseReply(t, fits)
  BY <1>4 DEF ParseReply
<1>5. CASE SendReply(t) \/ RefuseReply(t) \/ ReturnEmpty(t) \/ ReceiveDeviceId(t) \/ (\E h \in Hals : ThreadExit(t, h))
  BY <1>5 DEF SendReply, RefuseReply, ReturnEmpty, ReceiveDeviceId, ThreadExit
<1>6. CASE \E d \in BOOLEAN : ReceiveOther(t, d)
  BY <1>6 DEF ReceiveOther
<1>7. CASE CommitFull(t)
  BY <1>7, FullEffect
<1> QED BY <1>1, <1>2, <1>3, <1>4, <1>5, <1>6, <1>7
        DEF ThreadStep, HookStep, TakeFrame, CommitFrame

\* A thread's step may take another thread's slot away, but never alters it.
LEMMA OtherSlots ==
  ASSUME TypeOK, NEW t \in Tasks, LookupInv(t), RequestInv(t), ThreadStep(t),
         NEW u \in Tasks \ {t}, NEW w \in WayIds, slots'[w].task = u
  PROVE  slots[w].task = u /\ slots'[w] = slots[w]
<1>1. CASE slots' = slots
  BY <1>1
<1>2. CASE TakeTop(t)
  <2>1. PICK s : slots' = [slots EXCEPT ![way[t]] = s] /\ s.task \in {t, None}
    <3> DEFINE rest == Pop(slots[way[t]].frames)
               s == IF rest = <<>> THEN FreeSlot
                    ELSE [task |-> t, pid |-> slots[way[t]].pid, frames |-> rest]
    <3>1. slots' = [slots EXCEPT ![way[t]] = s]
      BY <1>2, TakeEffect
    <3>2. s.task \in {t, None}
      BY DEF FreeSlot
    <3> HIDE DEF s
    <3> QED BY <3>1, <3>2
  <2> QED BY <2>1, NoneAssumption DEF TypeOK
<1>3. CASE CommitPush(t)
  <2>1. PICK s : slots' = [slots EXCEPT ![way[t]] = s] /\ s.task = t
    <3> DEFINE s == [task |-> t, pid |-> Claimed(t).pid,
                     frames |-> Append(Claimed(t).frames, NewFrame(t))]
    <3>1. slots' = [slots EXCEPT ![way[t]] = s]
      BY <1>3, PushEffect
    <3>2. s.task = t
      OBVIOUS
    <3> HIDE DEF s
    <3> QED BY <3>1, <3>2
  <2> QED BY <2>1 DEF TypeOK
<1> QED BY <1>1, <1>2, <1>3, SlotsKept

-----------------------------------------------------------------------------
(* Types.                                                                  *)

\* The oldest slot of the bucket, as ScanBucket picks it.
LEMMA ScanEffect ==
  ASSUME TypeOK, NEW t \in Tasks, ScanBucket(t)
  PROVE  \E w \in WayIds :
           /\ way' = [way EXCEPT ![t] = w]
           /\ reset' = [reset EXCEPT ![t] = ~HasSlot(t) \/ slots[w].pid # pid[t]]
           /\ HasSlot(t) => w \in WaysOf(t)
           /\ slots[w].task \notin {t, None} =>
                \A v \in WayIds : slots[v].task # None /\ Age(slots[w]) <= Age(slots[v])
<1> DEFINE oldest == {w \in WayIds : \A v \in WayIds : Age(slots[w]) <= Age(slots[v])}
           chosen == IF HasSlot(t) THEN FirstWay(WaysOf(t))
                     ELSE IF HasSlot(None) THEN FirstWay(WaysOf(None))
                     ELSE FirstWay(oldest)
<1>1. /\ way' = [way EXCEPT ![t] = chosen]
      /\ reset' = [reset EXCEPT ![t] = ~HasSlot(t) \/ slots[chosen].pid # pid[t]]
  BY DEF ScanBucket
<1>2. /\ chosen \in WayIds
      /\ HasSlot(t) => chosen \in WaysOf(t)
      /\ slots[chosen].task \notin {t, None} =>
           \A v \in WayIds : slots[v].task # None /\ Age(slots[chosen]) <= Age(slots[v])
  <2>1. CASE HasSlot(t)
    <3>1. WaysOf(t) \in SUBSET WayIds /\ WaysOf(t) # {}
      BY <2>1 DEF WaysOf, HasSlot
    <3>2. FirstWay(WaysOf(t)) \in WaysOf(t)
      BY <3>1, FirstWayIn
    <3> QED BY <2>1, <3>1, <3>2 DEF WaysOf
  <2>2. CASE ~HasSlot(t) /\ HasSlot(None)
    <3>1. WaysOf(None) \in SUBSET WayIds /\ WaysOf(None) # {}
      BY <2>2 DEF WaysOf, HasSlot
    <3>2. FirstWay(WaysOf(None)) \in WaysOf(None)
      BY <3>1, FirstWayIn
    <3> QED BY <2>2, <3>1, <3>2 DEF WaysOf
  <2>3. CASE ~HasSlot(t) /\ ~HasSlot(None)
    <3>1. oldest \in SUBSET WayIds /\ oldest # {}
      BY OldestExists
    <3> HIDE DEF oldest
    <3>2. FirstWay(oldest) \in oldest
      BY <3>1, FirstWayIn
    <3>3. chosen \in oldest
      BY <2>3, <3>2
    <3>4. \A v \in WayIds : slots[v].task # None
      BY <2>3 DEF HasSlot, WaysOf
    <3> HIDE DEF chosen
    <3> QED BY <2>3, <3>3, <3>4 DEF oldest
  <2> QED BY <2>1, <2>2, <2>3
<1> HIDE DEF chosen
<1> QED BY <1>1, <1>2

\* A disturbance is one of the causes.
LEMMA DisturbType ==
  ASSUME TypeOK, NEW t \in Tasks, NEW cause \in Causes, Disturb(t, cause)
  PROVE  causes' \in [Tasks -> SUBSET Causes]
BY DEF Disturb, TypeOK

\* Every step keeps the types.
LEMMA TypeStep ==
  ASSUME IInv, [Next]_vars
  PROVE  TypeOK'
<1> USE DEF TypeOK, InHook, Goto, Leave, table, hal, thread, local
<1>0. IInv
  OBVIOUS
<1> USE DEF IInv
<1>1. ASSUME NEW t \in Tasks, EnterToRead(t) \/ EnterWithReply(t) PROVE TypeOK'
  <2>1. gated' = [gated EXCEPT ![t] = Tracked(t)]
    BY <1>1 DEF EnterToRead, EnterWithReply
  <2>2. (home[t] \in tracked) \in BOOLEAN
    OBVIOUS
  <2>3. gated' \in [Tasks -> BOOLEAN]
    BY <2>1, <2>2 DEF Tracked
  <2> QED BY <1>1, <2>3 DEF EnterToRead, EnterWithReply
<1>2. ASSUME NEW t \in Tasks, SkipReply(t) PROVE TypeOK'
  <2>1. causes' \in [Tasks -> SUBSET Causes]
    BY <1>2, DisturbType DEF SkipReply, Causes
  <2> QED BY <1>2, <2>1 DEF SkipReply
<1>3. ASSUME NEW t \in Tasks, PopLock(t) \/ PushLock(t) PROVE TypeOK'
  <2>1. lock' \in 0..1
    BY <1>3 DEF PopLock, PushLock, Acquire
  <2>2. pc' = [pc EXCEPT ![t] = "find"] \/ pc' = [pc EXCEPT ![t] = "scan"]
    BY <1>3 DEF PopLock, PushLock, Acquire
  <2>3. pc' \in [Tasks -> InHook \cup {"user", "driver", "send"}]
    BY <2>2
  <2>4. UNCHANGED <<slots, hal, thread, local, gated, payload, events, causes>>
    BY <1>3 DEF PopLock, PushLock
  <2> QED BY <2>1, <2>3, <2>4
<1>4. ASSUME NEW t \in Tasks, PopDropped(t) \/ PushDropped(t) PROVE TypeOK'
  <2>1. causes' \in [Tasks -> SUBSET Causes]
    BY <1>4, DisturbType DEF PopDropped, PushDropped, GiveUp, Causes
  <2> QED BY <1>4, <2>1 DEF PopDropped, PushDropped, GiveUp
<1>5. ASSUME NEW t \in Tasks, FindSlot(t) PROVE TypeOK'
  <2>1. (IF HasSlot(t) THEN FirstWay(WaysOf(t)) ELSE 0) \in 0..Ways
    <3>1. WaysOf(t) \in SUBSET WayIds /\ (HasSlot(t) => WaysOf(t) # {})
      BY DEF WaysOf, HasSlot
    <3>2. HasSlot(t) => FirstWay(WaysOf(t)) \in WayIds
      BY <3>1, FirstWayIn
    <3> QED BY <3>2, SizeAssumption DEF WayIds
  <2> QED BY <1>5, <2>1 DEF FindSlot
<1>6. ASSUME NEW t \in Tasks, TakeNothing(t) PROVE TypeOK'
  BY <1>6, SizeAssumption DEF TakeNothing
<1>7. ASSUME NEW t \in Tasks, TakeTop(t) PROVE TypeOK'
  <2> DEFINE f == slots[way[t]].frames
  <2>1. way[t] \in WaysOf(t) /\ f \in Seq(Frames) /\ f # <<>>
    BY <1>7, TakeEffect
  <2>2. way[t] \in WayIds
    BY <2>1 DEF WaysOf
  <2>3. Top(f) \in Frames /\ Pop(f) \in Seq(Frames)
    BY <2>1, PopProperties
  <2>4. (IF Top(f).gen = halGen THEN Top(f).id ELSE 0) \in 0..MaxEvents
    BY <2>3, BoundAssumption DEF Frames
  <2>5. FreeSlot \in SlotType /\ [task |-> t, pid |-> slots[way[t]].pid, frames |-> Pop(f)] \in SlotType
    BY <2>2, <2>3, BoundAssumption DEF FreeSlot, SlotType
  <2>6. slots' = [slots EXCEPT ![way[t]] =
          IF Pop(f) = <<>> THEN FreeSlot
          ELSE [task |-> t, pid |-> slots[way[t]].pid, frames |-> Pop(f)]]
    BY <1>7, TakeEffect
  <2>7. slots' \in [WayIds -> SlotType]
    BY <2>2, <2>5, <2>6 DEF SlotType
  <2>8. got' = [got EXCEPT ![t] = IF Top(f).gen = halGen THEN Top(f).id ELSE 0]
    BY <1>7 DEF TakeTop
  <2>9. got' \in [Tasks -> 0..MaxEvents]
    BY <2>4, <2>8
  <2>10. way' \in [Tasks -> 0..Ways] /\ lock' \in 0..1
    BY <1>7, SizeAssumption DEF TakeTop
  <2>11. pc' \in [Tasks -> InHook \cup {"user", "driver", "send"}]
    BY <1>7 DEF TakeTop
  <2>12. UNCHANGED <<hal, thread, reset, gated, payload, events, causes>>
    BY <1>7 DEF TakeTop
  <2> QED BY <2>7, <2>9, <2>10, <2>11, <2>12 DEF SlotType
<1>8. ASSUME NEW t \in Tasks, NEW fits \in BOOLEAN, ParseReply(t, fits) PROVE TypeOK'
  BY <1>8 DEF ParseReply
<1>9. ASSUME NEW t \in Tasks, SendReply(t) PROVE TypeOK'
  <2>1. Pop(stack[t]) \in Seq(Requests)
    BY <1>9, PopProperties DEF SendReply, RequestInv
  <2> QED BY <1>9, <2>1, BoundAssumption DEF SendReply
<1>10. ASSUME NEW t \in Tasks, RefuseReply(t) PROVE TypeOK'
  <2>1. causes' \in [Tasks -> SUBSET Causes]
    BY <1>10, DisturbType DEF RefuseReply, Causes
  <2>2. /\ payload' \in [Tasks -> {"kept", "replaced"}] /\ got' \in [Tasks -> 0..MaxEvents]
        /\ gated' \in [Tasks -> BOOLEAN]
    BY <1>10, BoundAssumption DEF RefuseReply
  <2>3. pc' \in [Tasks -> InHook \cup {"user", "driver", "send"}]
    BY <1>10 DEF RefuseReply
  <2>4. UNCHANGED <<table, hal, thread, way, reset, events>>
    BY <1>10 DEF RefuseReply
  <2> QED BY <2>1, <2>2, <2>3, <2>4
<1>11. ASSUME NEW t \in Tasks, ReturnEmpty(t) PROVE TypeOK'
  BY <1>11 DEF ReturnEmpty
<1>12. ASSUME NEW t \in Tasks, NEW d \in BOOLEAN, Receive(t, d)
       PROVE  events' \in 0..MaxEvents /\ stack' \in [Tasks -> Seq(Requests)]
  <2>1. [id |-> events + 1, deviceId |-> d] \in Requests
    BY <1>12, BoundAssumption DEF Receive, Requests
  <2>2. Append(stack[t], [id |-> events + 1, deviceId |-> d]) \in Seq(Requests)
    BY <2>1, AppendProperties
  <2> QED BY <1>12, <2>2, BoundAssumption DEF Receive
<1>13. ASSUME NEW t \in Tasks, ReceiveDeviceId(t) PROVE TypeOK'
  BY <1>12, <1>13 DEF ReceiveDeviceId
<1>14. ASSUME NEW t \in Tasks, NEW d \in BOOLEAN, ReceiveOther(t, d) PROVE TypeOK'
  <2>1. causes' \in [Tasks -> SUBSET Causes]
    BY <1>14, DisturbType DEF ReceiveOther, Causes
  <2> QED BY <1>12, <1>14, <2>1 DEF ReceiveOther
<1>15. ASSUME NEW t \in Tasks, ScanBucket(t) PROVE TypeOK'
  <2>1. PICK w \in WayIds :
          /\ way' = [way EXCEPT ![t] = w]
          /\ reset' = [reset EXCEPT ![t] = ~HasSlot(t) \/ slots[w].pid # pid[t]]
    BY <1>15, ScanEffect
  <2>2. w \in 0..Ways
    BY SizeAssumption DEF WayIds
  <2>3. way' \in [Tasks -> 0..Ways] /\ reset' \in [Tasks -> BOOLEAN]
    BY <2>1, <2>2
  <2> QED BY <1>15, <2>3 DEF ScanBucket
<1>st. ASSUME NEW t \in Tasks, NEW slot, Store(t, slot), slots' \in [WayIds -> SlotType],
              causes' \in [Tasks -> SUBSET Causes], pushed' \in [Hals -> SUBSET (1..MaxEvents)]
       PROVE  TypeOK'
  <2>1. /\ way' \in [Tasks -> 0..Ways] /\ reset' \in [Tasks -> BOOLEAN] /\ lock' \in 0..1
        /\ gated' \in [Tasks -> BOOLEAN]
    BY <1>st, SizeAssumption DEF Store
  <2>2. pc' \in [Tasks -> InHook \cup {"user", "driver", "send"}]
    BY <1>st DEF Store
  <2>3. UNCHANGED <<halGen, tracked, thread, got, payload, events>>
    BY <1>st DEF Store
  <2> QED BY <1>st, <2>1, <2>2, <2>3 DEF SlotType
<1>16. ASSUME NEW t \in Tasks, CommitFull(t) PROVE TypeOK'
  <2>1. slots' \in [WayIds -> SlotType] /\ causes' \in [Tasks -> SUBSET Causes]
    BY <1>16, FullEffect, DisturbType DEF CommitFull, Causes, SlotType
  <2>2. pushed' \in [Hals -> SUBSET (1..MaxEvents)]
    BY <1>16 DEF CommitFull
  <2> QED BY <1>16, <1>st, <2>1, <2>2 DEF CommitFull
<1>17. ASSUME NEW t \in Tasks, CommitPush(t) PROVE TypeOK'
  <2> DEFINE new == Append(Claimed(t).frames, NewFrame(t))
  <2>1. new \in Seq(Frames)
    BY <1>17, PushEffect, AppendProperties
  <2>2. [task |-> t, pid |-> Claimed(t).pid, frames |-> new] \in SlotType
    BY <1>17, <2>1, PushEffect DEF SlotType
  <2>3. slots' = [slots EXCEPT ![way[t]] = [task |-> t, pid |-> Claimed(t).pid, frames |-> new]]
    BY <1>17, PushEffect
  <2> HIDE DEF new
  <2>4. slots' \in [WayIds -> SlotType]
    BY <2>2, <2>3 DEF SlotType
  <2>5. causes' \in [Tasks -> SUBSET Causes]
    BY <1>17 DEF CommitPush
  <2>6. pushed' \in [Hals -> SUBSET (1..MaxEvents)]
    <3>1. NewFrame(t).id \in 1..MaxEvents
      BY <1>17, PushEffect DEF Frames
    <3>2. pushed' = [h \in Hals |-> pushed[h] \cup {NewFrame(t).id}]
      BY <1>17 DEF CommitPush, NewFrame
    <3> QED BY <3>1, <3>2
  <2> QED BY <1>17, <1>st, <2>4, <2>5, <2>6 DEF CommitPush
<1>18. ASSUME NEW t \in Tasks, NEW h \in Hals, ThreadExit(t, h) PROVE TypeOK'
  <2>1. causes' \in [Tasks -> SUBSET Causes]
    BY <1>18, DisturbType DEF ThreadExit, Causes
  <2>2. pid[t] + 1 \in 1..MaxPid /\ <<>> \in Seq(Requests)
    BY <1>18, BoundAssumption DEF ThreadExit
  <2> QED BY <1>18, <2>1, <2>2 DEF ThreadExit
<1>19. ASSUME NEW h \in Hals, HalRestart(h) PROVE TypeOK'
  <2>1. pid' \in [Tasks -> 1..MaxPid]
    BY <1>19, BoundAssumption DEF HalRestart
  <2>2. stack' \in [Tasks -> Seq(Requests)]
    <3>1. <<>> \in Seq(Requests)
      OBVIOUS
    <3> QED BY <1>19, <3>1 DEF HalRestart
  <2>3. gated' \in [Tasks -> BOOLEAN]
    <3>1. gated' = [t \in Tasks |-> ~(home[t] = h) /\ gated[t]]
      BY <1>19 DEF HalRestart
    <3>2. \A t \in Tasks : (~(home[t] = h) /\ gated[t]) \in BOOLEAN
      BY Zenon
    <3> QED BY <3>1, <3>2
  <2>4. /\ pc' \in [Tasks -> InHook \cup {"user", "driver", "send"}]
        /\ causes' \in [Tasks -> SUBSET Causes]
        /\ pushed' \in [Hals -> SUBSET (1..MaxEvents)]
    BY <1>19 DEF HalRestart
  <2> QED BY <1>19, <2>1, <2>2, <2>3, <2>4 DEF HalRestart
<1>20. CASE \E named \in SUBSET Hals : PublishIdentities(named)
  <2>1. halGen' \in 1..MaxGeneration
    BY <1>20, BoundAssumption DEF PublishIdentities
  <2> QED BY <1>20, <2>1 DEF PublishIdentities
<1>21. CASE UNCHANGED vars
  BY <1>21 DEF vars
<1> QED
  BY <1>1, <1>2, <1>3, <1>4, <1>5, <1>6, <1>7, <1>8, <1>9, <1>10, <1>11, <1>13, <1>14, <1>15, <1>16,
     <1>17, <1>18, <1>19, <1>20, <1>21
  DEF Next, ThreadStep, HookStep, TakeFrame, CommitFrame

-----------------------------------------------------------------------------
(* The bucket.                                                             *)

\* The bucket stays sound: a pop shortens the stack of the thread's own slot,
\* a push lengthens it by a younger frame, and a slot is claimed for a thread
\* only when it has none.
LEMMA TableStep ==
  ASSUME IInv, [Next]_vars
  PROVE  TableInv'
<1> USE DEF IInv
<1>0. events \in Nat /\ halGen \in Nat /\ slots \in [WayIds -> SlotType]
  BY BoundAssumption DEF TypeOK, SlotType
<1>1. ASSUME slots' = slots, events' \in Nat, halGen' \in Nat, events <= events', halGen <= halGen'
      PROVE  TableInv'
  <2>1. ASSUME NEW w \in WayIds PROVE SlotInv(w)'
    <3>1. SlotInv(w)
      BY <2>1 DEF TableInv
    <3>2. \A i \in 1..Len(slots[w].frames) :
            slots[w].frames[i].id \in Nat /\ slots[w].frames[i].gen \in Nat
      <4>1. slots[w].frames \in Seq(Frames)
        BY <1>0 DEF SlotType
      <4>2. \A i \in 1..Len(slots[w].frames) : slots[w].frames[i] \in Frames
        BY <4>1, ElementOfSeq
      <4> QED BY <4>2, BoundAssumption DEF Frames
    <3>3. \A i \in 1..Len(slots[w].frames) :
            slots[w].frames[i].id <= events' /\ slots[w].frames[i].gen <= halGen'
      BY <1>0, <1>1, <3>1, <3>2 DEF SlotInv
    <3> QED BY <1>1, <3>1, <3>3 DEF SlotInv
  <2> QED BY <1>1, <2>1 DEF TableInv
<1>2. ASSUME NEW t \in Tasks, TakeTop(t) PROVE TableInv'
  <2>0. PICK w : w = way[t]
    OBVIOUS
  <2> DEFINE f == slots[w].frames
             s == IF Pop(f) = <<>> THEN FreeSlot ELSE [task |-> t, pid |-> slots[w].pid, frames |-> Pop(f)]
  <2>1. w \in WayIds /\ slots[w].task = t /\ f \in Seq(Frames) /\ f # <<>>
    BY <1>2, <2>0, TakeEffect DEF WaysOf
  <2>2. slots' = [slots EXCEPT ![w] = s]
    BY <1>2, <2>0, TakeEffect
  <2>3. Pop(f) \in Seq(Frames) /\ Len(Pop(f)) = Len(f) - 1 /\ Len(f) \in Nat \ {0}
        /\ \A i \in 1..(Len(f) - 1) : Pop(f)[i] = f[i]
    BY <2>1, PopProperties
  <2>4. UNCHANGED <<events, halGen>>
    BY <1>2 DEF TakeTop, hal
  <2>5. s.task = None <=> s.frames = <<>>
    BY NoneAssumption DEF FreeSlot
  <2>6. s.frames = Pop(f) /\ s.task \in {t, None}
    BY DEF FreeSlot
  <2>7. SlotInv(w)
    BY <2>1 DEF TableInv
  <2> HIDE DEF s
  <2>8. slots'[w] = s /\ \A v \in WayIds \ {w} : slots'[v] = slots[v]
    BY <1>0, <2>1, <2>2
  <2>9. SlotInv(w)'
    <3>1. Len(Pop(f)) <= Depth
      BY <2>3, <2>7, SizeAssumption DEF SlotInv
    <3>2. \A i \in 1..Len(Pop(f)) : i \in 1..Len(f)
      BY <2>3
    <3>3. \A i \in 1..Len(Pop(f)) : Pop(f)[i].id <= events /\ Pop(f)[i].gen <= halGen
      BY <2>3, <2>7, <3>2 DEF SlotInv
    <3>4. \A i, j \in 1..Len(Pop(f)) : i < j => /\ Pop(f)[i].id < Pop(f)[j].id
                                                /\ Pop(f)[i].gen <= Pop(f)[j].gen
      BY <2>3, <2>7, <3>2 DEF SlotInv
    <3> HIDE DEF f
    <3> QED BY <2>4, <2>5, <2>6, <2>8, <3>1, <3>3, <3>4 DEF SlotInv
  <2>10. ASSUME NEW v \in WayIds \ {w} PROVE SlotInv(v)'
    BY <2>4, <2>8 DEF SlotInv, TableInv
  <2>11. ASSUME NEW u \in WayIds, NEW v \in WayIds, u # v, slots'[u].task = slots'[v].task
         PROVE  slots'[u].task = None
    <3>1. \A x \in WayIds : slots'[x].task = slots[x].task \/ slots'[x].task = None
      BY <2>1, <2>6, <2>8
    <3> QED BY <2>11, <3>1 DEF TableInv
  <2> QED BY <2>9, <2>10, <2>11 DEF TableInv
<1>3. ASSUME NEW t \in Tasks, CommitPush(t) PROVE TableInv'
  <2>0. PICK w : w = way[t]
    OBVIOUS
  <2> DEFINE old == Claimed(t).frames
             g == NewFrame(t)
             new == Append(old, g)
  <2>1. /\ w \in WayIds /\ (HasSlot(t) => w \in WaysOf(t))
        /\ old \in Seq(Frames) /\ Len(old) < Depth /\ g \in Frames
        /\ old = <<>> \/ (w \in WaysOf(t) /\ old = slots[w].frames)
    BY <1>3, <2>0, PushEffect
  <2>2. slots' = [slots EXCEPT ![w] = [task |-> t, pid |-> Claimed(t).pid, frames |-> new]]
    BY <1>3, <2>0, PushEffect
  <2>3. /\ new \in Seq(Frames) /\ Len(new) = Len(old) + 1 /\ new # <<>>
        /\ \A i \in 1..Len(old) : new[i] = old[i]
        /\ new[Len(old) + 1] = g
    BY <2>1, AppendProperties
  <2>4. UNCHANGED <<events, halGen>> /\ pc[t] = "commit"
    BY <1>3 DEF CommitPush, Store, Leave, Goto, hal
  <2>5. g.gen = halGen /\ g.id = Top(stack[t]).id /\ g.id <= events
    <3>1. stack[t] # <<>> /\ stack[t] \in Seq(Requests)
      BY <2>4 DEF RequestInv, Pushing, TypeOK
    <3>2. Top(stack[t]) = stack[t][Len(stack[t])] /\ Len(stack[t]) \in Nat \ {0}
      BY <3>1, PopProperties
    <3>3. Top(stack[t]).id <= events
      BY <3>2 DEF RequestInv
    <3> QED BY <3>3 DEF NewFrame
  <2>6. /\ Len(old) \in Nat
        /\ \A i \in 1..Len(old) : /\ old[i].id <= events /\ old[i].gen <= halGen /\ old[i].id < g.id
        /\ \A i, j \in 1..Len(old) : i < j => old[i].id < old[j].id /\ old[i].gen <= old[j].gen
    <3>1. CASE old = <<>>
      BY <3>1, EmptySeq
    <3>2. CASE w \in WaysOf(t) /\ old = slots[w].frames
      <4>1. SlotInv(w)
        BY <2>1 DEF TableInv
      <4>2. \A i \in 1..Len(slots[w].frames) : slots[w].frames[i].id < Top(stack[t]).id
        BY <2>4, <3>2 DEF RequestInv, Pushing
      <4>3. Len(old) \in Nat
        BY <2>1, LenProperties
      <4> HIDE DEF old, g
      <4> QED BY <2>5, <3>2, <4>1, <4>2, <4>3 DEF SlotInv
    <3> QED BY <2>1, <3>1, <3>2
  <2> HIDE DEF old, g, new
  <2>7. slots'[w].task = t /\ slots'[w].frames = new /\ \A v \in WayIds \ {w} : slots'[v] = slots[v]
    BY <1>0, <2>1, <2>2
  <2>8. SlotInv(w)'
    <3>1. Len(new) <= Depth
      BY <2>1, <2>3, <2>6, SizeAssumption
    <3>2. \A i \in 1..Len(new) : i \in 1..Len(old) \/ i = Len(old) + 1
      BY <2>3, <2>6
    <3>3. \A i \in 1..Len(new) : new[i].id <= events /\ new[i].gen <= halGen
      BY <1>0, <2>3, <2>5, <2>6, <3>2
    <3>4. \A i, j \in 1..Len(new) : i < j => new[i].id < new[j].id /\ new[i].gen <= new[j].gen
      <4> SUFFICES ASSUME NEW i \in 1..Len(new), NEW j \in 1..Len(new), i < j
                   PROVE  new[i].id < new[j].id /\ new[i].gen <= new[j].gen
        OBVIOUS
      <4>1. i \in 1..Len(old)
        BY <2>3, <2>6
      <4>2. CASE j \in 1..Len(old)
        BY <2>3, <2>6, <4>1, <4>2
      <4>3. CASE j = Len(old) + 1
        BY <2>3, <2>5, <2>6, <4>1, <4>3
      <4> QED BY <3>2, <4>2, <4>3
    <3> QED BY <2>3, <2>4, <2>7, <3>1, <3>3, <3>4, NoneAssumption DEF SlotInv
  <2>9. ASSUME NEW v \in WayIds \ {w} PROVE SlotInv(v)'
    BY <2>4, <2>7 DEF SlotInv, TableInv
  <2>10. ASSUME NEW v \in WayIds \ {w} PROVE slots[v].task # t
    <3>1. slots[v].task = t => HasSlot(t)
      BY <2>10 DEF HasSlot, WaysOf
    <3> QED BY <2>1, <3>1, NoneAssumption DEF TableInv, WaysOf
  <2>11. ASSUME NEW u \in WayIds, NEW v \in WayIds, u # v, slots'[u].task = slots'[v].task
         PROVE  slots'[u].task = None
    BY <2>7, <2>10, <2>11 DEF TableInv
  <2> QED BY <2>8, <2>9, <2>11 DEF TableInv
<1>4. ASSUME NEW t \in Tasks, ThreadStep(t) PROVE TableInv'
  <2>1. /\ events' \in Nat /\ halGen' \in Nat /\ events <= events' /\ halGen <= halGen'
    BY <1>0, <1>4, OthersKept
  <2> QED BY <1>1, <1>2, <1>3, <1>4, <2>1, SlotsKept
<1>5. CASE \E h \in Hals : HalRestart(h)
  BY <1>0, <1>1, <1>5 DEF HalRestart, table
<1>6. CASE \E named \in SUBSET Hals : PublishIdentities(named)
  BY <1>0, <1>1, <1>6 DEF PublishIdentities, table
<1>7. CASE UNCHANGED vars
  BY <1>0, <1>1, <1>7 DEF vars, table, hal
<1> QED BY <1>4, <1>5, <1>6, <1>7 DEF Next

-----------------------------------------------------------------------------
(* Lookups, requests and generations.                                      *)

Replying == {"pop", "find", "take", "reply", "send"}

\* How a thread comes to where it is, and who changes the requests it serves.
LEMMA Moves ==
  ASSUME TypeOK, NEW t \in Tasks, ThreadStep(t)
  PROVE  /\ pc'[t] = "take" => FindSlot(t)
         /\ pc'[t] = "commit" => ScanBucket(t)
         /\ pc'[t] \in Pushing => pc[t] \in Pushing \/ ReceiveDeviceId(t)
         /\ pc'[t] \in Replying => pc[t] \in Replying \/ EnterWithReply(t)
         /\ \/ stack' = stack
            \/ SendReply(t) \/ ReceiveDeviceId(t) \/ (\E h \in Hals : ThreadExit(t, h))
            \/ \E d \in BOOLEAN : ReceiveOther(t, d)
         /\ home'[t] = home[t] \/ \E h \in Hals : ThreadExit(t, h)
         /\ gated'[t] => gated[t] \/ Tracked(t)
<1> USE DEF TypeOK, Goto, Leave, table, hal, thread, local, Pushing, Replying
<1>1. CASE EnterToRead(t)
  BY <1>1 DEF EnterToRead
<1>2. CASE EnterWithReply(t)
  BY <1>2 DEF EnterWithReply
<1>3. CASE SkipReply(t)
  BY <1>3 DEF SkipReply
<1>4. CASE PopLock(t)
  BY <1>4 DEF PopLock, Acquire
<1>5. CASE PushLock(t)
  BY <1>5 DEF PushLock, Acquire
<1>6. CASE PopDropped(t)
  BY <1>6 DEF PopDropped, GiveUp
<1>7. CASE PushDropped(t)
  BY <1>7 DEF PushDropped, GiveUp
<1>8. CASE FindSlot(t)
  BY <1>8 DEF FindSlot
<1>9. CASE ScanBucket(t)
  BY <1>9 DEF ScanBucket
<1>a. CASE TakeNothing(t)
  BY <1>a DEF TakeNothing
<1>b. CASE TakeTop(t)
  BY <1>b DEF TakeTop
<1>c. CASE \E fits \in BOOLEAN : ParseReply(t, fits)
  BY <1>c DEF ParseReply
<1>d. CASE SendReply(t)
  BY <1>d DEF SendReply
<1>e. CASE RefuseReply(t)
  BY <1>e DEF RefuseReply
<1>f. CASE ReturnEmpty(t)
  BY <1>f DEF ReturnEmpty
<1>g. CASE ReceiveDeviceId(t)
  BY <1>g DEF ReceiveDeviceId
<1>h. CASE \E d \in BOOLEAN : ReceiveOther(t, d)
  BY <1>h DEF ReceiveOther
<1>i. CASE \E h \in Hals : ThreadExit(t, h)
  BY <1>i DEF ThreadExit
<1>j. CASE CommitFull(t)
  BY <1>j DEF CommitFull, Store
<1>k. CASE CommitPush(t)
  BY <1>k DEF CommitPush, Store
<1> QED BY <1>1, <1>2, <1>3, <1>4, <1>5, <1>6, <1>7, <1>8, <1>9, <1>a, <1>b, <1>c, <1>d, <1>e, <1>f,
           <1>g, <1>h, <1>i, <1>j, <1>k
        DEF ThreadStep, HookStep, TakeFrame, CommitFrame

\* What a critical section found out still holds when it acts on it.
LEMMA LookupStep ==
  ASSUME IInv, [Next]_vars, NEW u \in Tasks
  PROVE  LookupInv(u)'
<1> USE DEF IInv
<1>1. ASSUME pc'[u] = pc[u], way'[u] = way[u], reset'[u] = reset[u], slots' = slots PROVE LookupInv(u)'
  <2>1. LookupInv(u)
    OBVIOUS
  <2> QED BY <1>1, <2>1 DEF LookupInv, WaysOf, HasSlot, Age
<1>2. ASSUME NEW t \in Tasks \ {u}, ThreadStep(t) PROVE LookupInv(u)'
  <2>1. pc'[u] = pc[u] /\ way'[u] = way[u] /\ reset'[u] = reset[u]
    BY <1>2, OthersKept
  <2>2. CASE pc[u] \in Critical
    <3>1. pc[t] \notin Critical
      BY <2>2 DEF LockInv
    <3>2. slots' = slots
      BY <1>2, <3>1, SlotsKept DEF Critical, TakeTop, CommitPush, Store, Leave, Goto
    <3> QED BY <1>1, <2>1, <3>2
  <2>3. CASE pc[u] \notin Critical
    BY <2>1, <2>3 DEF LookupInv, Critical
  <2> QED BY <2>2, <2>3
<1>3. ASSUME ThreadStep(u) PROVE LookupInv(u)'
  <2>1. CASE FindSlot(u)
    <3>1. slots' = slots /\ pc'[u] = "take" /\ way'[u] = IF HasSlot(u) THEN FirstWay(WaysOf(u)) ELSE 0
      BY <2>1 DEF FindSlot, Goto, table, TypeOK
    <3>2. HasSlot(u) => FirstWay(WaysOf(u)) \in WaysOf(u)
      <4>1. WaysOf(u) \in SUBSET WayIds
        BY DEF WaysOf
      <4> QED BY <4>1, FirstWayIn DEF HasSlot
    <3>3. HasSlot(u)' = HasSlot(u) /\ WaysOf(u)' = WaysOf(u)
      BY <3>1 DEF HasSlot, WaysOf
    <3> QED BY <3>1, <3>2, <3>3 DEF LookupInv
  <2>2. CASE ScanBucket(u)
    <3>1. slots' = slots /\ pc'[u] = "commit"
      BY <2>2 DEF ScanBucket, Goto, table, TypeOK
    <3>2. PICK w \in WayIds :
            /\ way' = [way EXCEPT ![u] = w]
            /\ reset' = [reset EXCEPT ![u] = ~HasSlot(u) \/ slots[w].pid # pid[u]]
            /\ HasSlot(u) => w \in WaysOf(u)
            /\ slots[w].task \notin {u, None} =>
                 \A v \in WayIds : slots[v].task # None /\ Age(slots[w]) <= Age(slots[v])
      BY <2>2, ScanEffect
    <3>3. way'[u] = w /\ (~HasSlot(u) => reset'[u])
      BY <3>2 DEF TypeOK
    <3>4. HasSlot(u)' = HasSlot(u) /\ WaysOf(u)' = WaysOf(u)
      BY <3>1 DEF HasSlot, WaysOf
    <3> QED BY <3>1, <3>2, <3>3, <3>4 DEF LookupInv, Age
  <2>3. CASE pc'[u] \notin {"take", "commit"}
    BY <2>3 DEF LookupInv
  <2> QED BY <1>3, <2>1, <2>2, <2>3, Moves
<1>4. CASE \E h \in Hals : HalRestart(h)
  <2>1. PICK h \in Hals : HalRestart(h)
    BY <1>4
  <2>2. CASE home[u] = h
    BY <2>1, <2>2 DEF HalRestart, LookupInv
  <2>3. CASE home[u] # h
    BY <1>1, <2>1, <2>3, RestartKeeps
  <2> QED BY <2>2, <2>3
<1>5. CASE \E named \in SUBSET Hals : PublishIdentities(named)
  BY <1>1, <1>5 DEF PublishIdentities, table, local
<1>6. CASE UNCHANGED vars
  BY <1>1, <1>6 DEF vars, table, local
<1> QED BY <1>2, <1>3, <1>4, <1>5, <1>6 DEF Next

\* What a request received by t looks like on its stack.
LEMMA ReceiveEffect ==
  ASSUME TypeOK, NEW t \in Tasks, NEW d \in BOOLEAN, Receive(t, d)
  PROVE  /\ events' = events + 1 /\ stack'[t] \in Seq(Requests)
         /\ Len(stack'[t]) = Len(stack[t]) + 1 /\ stack'[t] # <<>>
         /\ \A i \in 1..Len(stack[t]) : stack'[t][i] = stack[t][i]
         /\ Top(stack'[t]) = [id |-> events + 1, deviceId |-> d]
         /\ stack'[t][Len(stack[t]) + 1] = [id |-> events + 1, deviceId |-> d]
<1> DEFINE r == [id |-> events + 1, deviceId |-> d]
<1>0. events + 1 \in 1..MaxEvents /\ stack[t] \in Seq(Requests)
  BY BoundAssumption DEF Receive, TypeOK
<1>1. r \in Requests /\ stack[t] \in Seq(Requests)
  BY <1>0 DEF Requests
<1>2. stack'[t] = Append(stack[t], r) /\ events' = events + 1
  BY DEF Receive, TypeOK
<1> HIDE DEF r
<1>3. /\ stack'[t] \in Seq(Requests) /\ stack'[t] # <<>>
      /\ Len(stack'[t]) = Len(stack[t]) + 1
      /\ \A i \in 1..Len(stack[t]) : stack'[t][i] = stack[t][i]
      /\ stack'[t][Len(stack[t]) + 1] = r
  BY <1>1, <1>2, AppendProperties
<1> QED BY <1>2, <1>3 DEF Top, r

\* A thread that pushes has the request it pushes for innermost.
LEMMA RequestStep ==
  ASSUME IInv, [Next]_vars, NEW u \in Tasks
  PROVE  RequestInv(u)'
<1> USE DEF IInv
<1>0. events \in Nat /\ stack[u] \in Seq(Requests) /\ RequestInv(u)
  BY BoundAssumption DEF TypeOK
<1>i. \A i \in 1..Len(stack[u]) : stack[u][i].id \in Nat
  <2>1. \A i \in 1..Len(stack[u]) : stack[u][i] \in Requests
    BY <1>0, ElementOfSeq
  <2> QED BY <2>1, BoundAssumption DEF Requests
<1>1. ASSUME pc'[u] \in Pushing => pc[u] \in Pushing,
             pc'[u] \in Replying => pc[u] \in Replying \/ stack[u] # <<>>,
             stack'[u] = stack[u], events' \in Nat, events <= events',
             \A w \in WayIds : slots'[w].task = u => slots[w].task = u /\ slots'[w] = slots[w]
      PROVE  RequestInv(u)'
  <2>1. \A i \in 1..Len(stack[u]) : stack[u][i].id <= events'
    BY <1>0, <1>1, <1>i DEF RequestInv
  <2>2. pc'[u] \in Pushing => stack[u] # <<>> /\ Top(stack[u]).deviceId
    BY <1>0, <1>1 DEF RequestInv
  <2>3. pc'[u] \in Replying => stack[u] # <<>>
    BY <1>0, <1>1 DEF RequestInv, Replying
  <2>4. ASSUME pc'[u] \in Pushing, NEW w \in WaysOf(u)', NEW i \in 1..Len(slots'[w].frames)
        PROVE  slots'[w].frames[i].id < Top(stack[u]).id
    <3>1. w \in WayIds /\ w \in WaysOf(u) /\ slots'[w] = slots[w]
      BY <1>1, <2>4 DEF WaysOf
    <3> QED BY <1>0, <1>1, <2>4, <3>1 DEF RequestInv
  <2> QED BY <1>1, <2>1, <2>2, <2>3, <2>4 DEF RequestInv, Replying, Top
<1>2. ASSUME NEW t \in Tasks \ {u}, ThreadStep(t) PROVE RequestInv(u)'
  <2>1. pc'[u] = pc[u] /\ stack'[u] = stack[u] /\ events' \in {events, events + 1}
    BY <1>2, OthersKept
  <2>2. \A w \in WayIds : slots'[w].task = u => slots[w].task = u /\ slots'[w] = slots[w]
    BY <1>2, OtherSlots
  <2> QED BY <1>0, <1>1, <2>1, <2>2
<1>3. ASSUME ThreadStep(u) PROVE RequestInv(u)'
  <2>0. events' \in {events, events + 1}
    BY <1>3, OthersKept
  <2>1. CASE ReceiveDeviceId(u) \/ \E d \in BOOLEAN : ReceiveOther(u, d)
    <3>1. PICK d \in BOOLEAN : Receive(u, d) /\ (ReceiveDeviceId(u) => d = TRUE)
      BY <2>1 DEF ReceiveDeviceId, ReceiveOther, Goto, Leave
    <3>2. slots' = slots /\ pc'[u] \in {"push", "user"} /\ (pc'[u] = "push" => ReceiveDeviceId(u))
      BY <2>1 DEF ReceiveDeviceId, ReceiveOther, Goto, Leave, table, TypeOK
    <3>3. /\ events' = events + 1 /\ stack'[u] \in Seq(Requests)
          /\ Len(stack'[u]) = Len(stack[u]) + 1 /\ stack'[u] # <<>>
          /\ \A i \in 1..Len(stack[u]) : stack'[u][i] = stack[u][i]
          /\ Top(stack'[u]) = [id |-> events + 1, deviceId |-> d]
          /\ stack'[u][Len(stack[u]) + 1] = [id |-> events + 1, deviceId |-> d]
      BY <3>1, ReceiveEffect
    <3>4. Len(stack[u]) \in Nat
      BY <1>0, LenProperties
    <3>5. ASSUME NEW i \in 1..Len(stack'[u])
          PROVE  stack'[u][i].id <= events'
      <4>1. i \in 1..Len(stack[u]) \/ i = Len(stack[u]) + 1
        BY <3>3, <3>4
      <4>2. CASE i \in 1..Len(stack[u])
        BY <1>0, <1>i, <3>3, <4>2 DEF RequestInv
      <4>3. CASE i = Len(stack[u]) + 1
        BY <1>0, <3>3, <4>3
      <4> QED BY <4>1, <4>2, <4>3
    <3>6. ASSUME NEW w \in WayIds, NEW i \in 1..Len(slots[w].frames)
          PROVE  slots[w].frames[i].id < events + 1
      <4>1. slots[w].frames \in Seq(Frames)
        BY DEF TypeOK
      <4>2. slots[w].frames[i] \in Frames
        BY <3>6, <4>1, ElementOfSeq
      <4>3. slots[w].frames[i].id \in Nat
        BY <4>2, BoundAssumption DEF Frames
      <4>4. slots[w].frames[i].id <= events
        BY <3>6 DEF TableInv, SlotInv
      <4> QED BY <1>0, <4>3, <4>4
    <3>7. ASSUME NEW w \in WaysOf(u)', NEW i \in 1..Len(slots'[w].frames)
          PROVE  slots'[w].frames[i].id < Top(stack'[u]).id
      <4>1. w \in WayIds
        BY <3>7 DEF WaysOf
      <4> QED BY <3>2, <3>3, <3>6, <4>1
    <3>8. pc'[u] \in Pushing => Top(stack'[u]).deviceId
      BY <3>1, <3>2, <3>3 DEF Pushing
    <3> QED BY <2>0, <3>2, <3>3, <3>5, <3>7, <3>8 DEF RequestInv, Replying, Top
  <2>2. CASE SendReply(u)
    <3>1. stack[u] # <<>>
      BY <1>0, <2>2 DEF SendReply, Goto, RequestInv
    <3>2. pc'[u] = "driver" /\ stack'[u] = Pop(stack[u]) /\ events' = events
      BY <2>2 DEF SendReply, Goto, TypeOK
    <3>3. /\ Len(stack[u]) \in Nat \ {0} /\ Len(Pop(stack[u])) = Len(stack[u]) - 1
          /\ \A i \in 1..(Len(stack[u]) - 1) : Pop(stack[u])[i] = stack[u][i]
      BY <1>0, <3>1, PopProperties
    <3>4. \A i \in 1..Len(stack'[u]) : stack'[u][i].id <= events
      BY <1>0, <3>2, <3>3 DEF RequestInv
    <3> QED BY <2>0, <3>2, <3>4 DEF RequestInv, Pushing
  <2>3. CASE \E h \in Hals : ThreadExit(u, h)
    <3>1. pc'[u] = "user" /\ stack'[u] = <<>>
      BY <2>3 DEF ThreadExit, TypeOK
    <3>2. Len(<<>>) = 0
      OBVIOUS
    <3> QED BY <3>1, <3>2 DEF RequestInv, Pushing
  <2>4. CASE stack' = stack
    <3>1. CASE TakeTop(u) \/ CommitPush(u)
      <4>1. pc'[u] \in {"reply", "user"} /\ (pc'[u] = "reply" => pc[u] = "take") /\ stack'[u] = stack[u]
            /\ events' = events
        BY <3>1 DEF TakeTop, CommitPush, Store, Leave, Goto, thread, TypeOK
      <4> QED BY <1>0, <2>0, <4>1 DEF RequestInv, Pushing
    <3>2. CASE slots' = slots
      <4>1. pc'[u] \in Pushing => pc[u] \in Pushing \/ ReceiveDeviceId(u)
        BY <1>3, Moves
      <4>2. pc'[u] \in Replying => pc[u] \in Replying \/ stack[u] # <<>>
        BY <1>3, Moves DEF EnterWithReply
      <4>3. CASE ~ReceiveDeviceId(u)
        BY <1>0, <1>1, <2>0, <2>4, <3>2, <4>1, <4>2, <4>3
      <4> QED BY <2>1, <4>3
    <3> QED BY <1>3, <3>1, <3>2, SlotsKept
  <2> QED BY <1>3, <2>1, <2>2, <2>3, <2>4, Moves
<1>4. CASE \E h \in Hals : HalRestart(h)
  <2>1. PICK h \in Hals : HalRestart(h)
    BY <1>4
  <2>2. CASE home[u] = h
    <3>1. pc'[u] = "user" /\ stack'[u] = <<>> /\ Len(<<>>) = 0
      BY <2>1, <2>2 DEF HalRestart
    <3> QED BY <3>1 DEF RequestInv, Pushing
  <2>3. CASE home[u] # h
    <3>1. pc'[u] = pc[u] /\ stack'[u] = stack[u] /\ slots' = slots /\ events' = events
      BY <2>1, <2>3 DEF HalRestart, table
    <3> QED BY <1>0, <1>1, <3>1
  <2> QED BY <2>2, <2>3
<1>5. CASE \E named \in SUBSET Hals : PublishIdentities(named)
  BY <1>0, <1>1, <1>5 DEF PublishIdentities, table, thread
<1>6. CASE UNCHANGED vars
  BY <1>0, <1>1, <1>6 DEF vars, table, thread, hal
<1> QED BY <1>2, <1>3, <1>4, <1>5, <1>6 DEF Next

\* A frame older than a HAL's process is stale while the gate lets that HAL
\* in: a push counts for every process that runs, and naming a new process
\* starts a new generation.
LEMMA GenerationStep ==
  ASSUME IInv, [Next]_vars
  PROVE  GenerationInv'
<1> USE DEF IInv
<1> SUFFICES ASSUME NEW h \in Hals, Open(h)', NEW w \in WayIds, NEW i \in 1..Len(slots'[w].frames),
                    slots'[w].frames[i].id \notin pushed'[h]
             PROVE  slots'[w].frames[i].gen < halGen'
  BY DEF GenerationInv
<1>0. halGen \in Nat
  BY BoundAssumption DEF TypeOK
<1>1. ASSUME Open(h), halGen' = halGen, pushed[h] \subseteq pushed'[h],
             NEW v \in WayIds, NEW j \in 1..Len(slots[v].frames), slots'[w].frames[i] = slots[v].frames[j]
      PROVE  slots'[w].frames[i].gen < halGen'
  BY <1>1 DEF GenerationInv
<1>2. ASSUME NEW t \in Tasks, ThreadStep(t) PROVE slots'[w].frames[i].gen < halGen'
  <2>1. halGen' = halGen /\ tracked' = tracked /\ pushed[h] \subseteq pushed'[h]
    BY <1>2, OthersKept
  <2>2. Open(h)
    <3>1. \A u \in Tasks \ {t} : gated'[u] = gated[u] /\ home'[u] = home[u]
      BY <1>2, OthersKept
    <3>2. gated'[t] => home'[t] = home[t] /\ (gated[t] \/ Tracked(t))
      <4>1. ASSUME NEW k \in Hals, ThreadExit(t, k) PROVE ~gated'[t]
        BY <4>1 DEF ThreadExit, GateInv
      <4> QED BY <1>2, <4>1, Moves
    <3> QED BY <2>1, <3>1, <3>2 DEF Open, Tracked
  <2>3. CASE slots' = slots
    BY <1>1, <2>1, <2>2, <2>3
  <2>4. CASE TakeTop(t)
    <3> DEFINE f == slots[way[t]].frames
               s == IF Pop(f) = <<>> THEN FreeSlot
                    ELSE [task |-> t, pid |-> slots[way[t]].pid, frames |-> Pop(f)]
    <3>1. way[t] \in WayIds /\ f \in Seq(Frames) /\ f # <<>> /\ slots' = [slots EXCEPT ![way[t]] = s]
      BY <2>4, TakeEffect DEF WaysOf
    <3>2. s.frames = Pop(f)
      BY DEF FreeSlot
    <3>3. /\ Len(f) \in Nat \ {0} /\ Len(Pop(f)) = Len(f) - 1
          /\ \A j \in 1..(Len(f) - 1) : Pop(f)[j] = f[j]
      BY <3>1, PopProperties
    <3> HIDE DEF s
    <3>4. CASE w = way[t]
      <4>1. slots'[w].frames = Pop(f)
        BY <3>1, <3>2, <3>4 DEF TypeOK
      <4>2. i \in 1..(Len(f) - 1) /\ i \in 1..Len(f)
        BY <3>3, <4>1
      <4>3. slots'[w].frames[i] = f[i]
        BY <3>3, <4>1, <4>2
      <4> QED BY <1>1, <2>1, <2>2, <3>1, <4>2, <4>3
    <3>5. CASE w # way[t]
      <4>1. slots'[w] = slots[w]
        BY <3>1, <3>5 DEF TypeOK
      <4> QED BY <1>1, <2>1, <2>2, <4>1
    <3> QED BY <3>4, <3>5
  <2>5. CASE CommitPush(t)
    <3> DEFINE old == Claimed(t).frames
               g == NewFrame(t)
               new == Append(old, g)
    <3>1. /\ way[t] \in WayIds
          /\ old \in Seq(Frames) /\ g \in Frames
          /\ old = <<>> \/ (way[t] \in WaysOf(t) /\ old = slots[way[t]].frames)
      BY <2>5, PushEffect
    <3>2. slots' = [slots EXCEPT ![way[t]] = [task |-> t, pid |-> Claimed(t).pid, frames |-> new]]
      BY <2>5, PushEffect
    <3>3. /\ Len(new) = Len(old) + 1 /\ Len(old) \in Nat
          /\ \A j \in 1..Len(old) : new[j] = old[j]
          /\ new[Len(old) + 1] = g
      BY <3>1, AppendProperties, LenProperties
    <3>4. g.id \in pushed'[h]
      <4>1. pushed' = [k \in Hals |-> pushed[k] \cup {g.id}]
        BY <2>5 DEF CommitPush, NewFrame
      <4> HIDE DEF g
      <4> QED BY <4>1
    <3> HIDE DEF old, g, new
    <3>5. CASE w = way[t]
      <4>1. slots'[w].frames = new
        BY <3>1, <3>2, <3>5 DEF TypeOK
      <4>2. i # Len(old) + 1
        BY <3>3, <3>4, <4>1
      <4>3. i \in 1..Len(old)
        BY <3>3, <4>1, <4>2
      <4>4. old = slots[w].frames
        BY <3>1, <3>5, <4>3, EmptySeq
      <4>5. slots'[w].frames[i] = slots[w].frames[i] /\ i \in 1..Len(slots[w].frames)
        BY <3>3, <4>1, <4>3, <4>4
      <4> QED BY <1>1, <2>1, <2>2, <4>5
    <3>6. CASE w # way[t]
      <4>1. slots'[w] = slots[w]
        BY <3>1, <3>2, <3>6 DEF TypeOK
      <4> QED BY <1>1, <2>1, <2>2, <4>1
    <3> QED BY <3>5, <3>6
  <2> QED BY <1>2, <2>3, <2>4, <2>5, SlotsKept
<1>3. ASSUME NEW k \in Hals, HalRestart(k) PROVE slots'[w].frames[i].gen < halGen'
  <2>1. slots' = slots /\ halGen' = halGen /\ tracked' = tracked \ {k} /\ home' = home
    BY <1>3 DEF HalRestart, table
  <2>2. gated' = [t \in Tasks |-> ~(home[t] = k) /\ gated[t]]
    BY <1>3 DEF HalRestart
  <2>3. h # k
    BY <2>1, <2>2 DEF Open
  <2>4. Open(h)
    BY <2>1, <2>2 DEF Open
  <2>5. pushed'[h] = pushed[h]
    BY <1>3, <2>3 DEF HalRestart, TypeOK
  <2> QED BY <1>1, <2>1, <2>4, <2>5
<1>4. CASE \E named \in SUBSET Hals : PublishIdentities(named)
  <2>1. slots' = slots /\ halGen' = halGen + 1
    BY <1>4 DEF PublishIdentities, table
  <2>2. slots[w].frames \in Seq(Frames)
    BY DEF TypeOK
  <2>3. slots[w].frames[i] \in Frames
    BY <2>1, <2>2, ElementOfSeq
  <2>4. slots[w].frames[i].gen \in Nat
    BY <2>3, BoundAssumption DEF Frames
  <2>5. slots[w].frames[i].gen <= halGen
    BY <2>1 DEF TableInv, SlotInv
  <2> QED BY <1>0, <2>1, <2>4, <2>5
<1>5. CASE UNCHANGED vars
  BY <1>1, <1>5 DEF vars, table, hal, thread, Open
<1> QED BY <1>2, <1>3, <1>4, <1>5 DEF Next

\* The gate is passed before the hook is entered, and what a reply is
\* correlated with belongs to the running HAL process.
LEMMA GateStep ==
  ASSUME IInv, [Next]_vars, NEW u \in Tasks
  PROVE  GateInv(u)'
<1> USE DEF IInv
<1>0. GateInv(u)
  OBVIOUS
<1>f. \A x \in Frames : x.id \in Nat /\ x.gen \in Nat
  BY BoundAssumption DEF Frames
<1>1. ASSUME pc'[u] = pc[u], gated'[u] = gated[u], got'[u] = got[u], payload'[u] = payload[u],
             home'[u] = home[u], \A h \in Hals : pushed[h] \subseteq pushed'[h]
      PROVE  GateInv(u)'
  BY <1>0, <1>1 DEF GateInv, TypeOK
<1>2. ASSUME NEW t \in Tasks \ {u}, ThreadStep(t) PROVE GateInv(u)'
  BY <1>1, <1>2, OthersKept
<1>3. ASSUME ThreadStep(u) PROVE GateInv(u)'
  <2> USE DEF TypeOK, GateInv, InHook, Goto, Leave, table, hal, thread, local
  <2>1. CASE EnterToRead(u)
    BY <2>1 DEF EnterToRead
  <2>2. CASE EnterWithReply(u)
    BY <2>2 DEF EnterWithReply
  <2>3. CASE SkipReply(u)
    BY <2>3 DEF SkipReply
  <2>4. CASE PopLock(u)
    BY <2>4 DEF PopLock, Acquire
  <2>5. CASE PushLock(u)
    BY <2>5 DEF PushLock, Acquire
  <2>6. CASE PopDropped(u)
    BY <2>6 DEF PopDropped, GiveUp
  <2>7. CASE PushDropped(u)
    BY <2>7 DEF PushDropped, GiveUp
  <2>8. CASE FindSlot(u)
    BY <2>8 DEF FindSlot
  <2>9. CASE ScanBucket(u)
    BY <2>9 DEF ScanBucket
  <2>a. CASE TakeNothing(u)
    BY <2>a DEF TakeNothing
  <2>b. CASE TakeTop(u)
    <3> DEFINE f == slots[way[u]].frames
    <3>1. way[u] \in WayIds /\ f \in Seq(Frames) /\ f # <<>>
      BY <2>b, TakeEffect DEF WaysOf
    <3>2. Top(f) = f[Len(f)] /\ Len(f) \in Nat \ {0} /\ Top(f) \in Frames
      BY <3>1, PopProperties
    <3>3. Top(f).id \in Nat /\ Top(f).gen \in Nat
      BY <1>f, <3>2
    <3>4. Top(f).gen = halGen => Top(f).id \in pushed[home[u]]
      <4>1. gated[u]
        BY <2>b DEF TakeTop
      <4>2. home[u] \in Hals /\ Open(home[u])
        BY <4>1 DEF Open
      <4>3. f[Len(f)].id \notin pushed[home[u]] => f[Len(f)].gen < halGen
        BY <3>1, <3>2, <4>2 DEF GenerationInv
      <4>4. halGen \in Nat
        BY BoundAssumption
      <4> QED BY <3>2, <3>3, <4>3, <4>4
    <3>5. got' = [got EXCEPT ![u] = IF Top(f).gen = halGen THEN Top(f).id ELSE 0]
      BY <2>b DEF TakeTop
    <3>6. pc'[u] = "reply" /\ pc[u] = "take" /\ gated'[u] = gated[u] /\ payload'[u] = payload[u]
      BY <2>b DEF TakeTop
    <3>7. home'[u] = home[u] /\ pushed' = pushed
      BY <2>b DEF TakeTop
    <3> HIDE DEF f
    <3>8. got'[u] = IF Top(f).gen = halGen THEN Top(f).id ELSE 0
      BY <3>5
    <3> QED BY <1>0, <3>4, <3>6, <3>7, <3>8
  <2>c. CASE \E fits \in BOOLEAN : ParseReply(u, fits)
    BY <2>c DEF ParseReply
  <2>d. CASE SendReply(u)
    BY <2>d DEF SendReply
  <2>e. CASE RefuseReply(u)
    BY <2>e DEF RefuseReply
  <2>f. CASE ReturnEmpty(u)
    BY <2>f DEF ReturnEmpty
  <2>g. CASE ReceiveDeviceId(u)
    BY <2>g DEF ReceiveDeviceId
  <2>h. CASE \E d \in BOOLEAN : ReceiveOther(u, d)
    BY <2>h DEF ReceiveOther
  <2>i. CASE \E h \in Hals : ThreadExit(u, h)
    BY <2>i DEF ThreadExit
  <2>j. CASE CommitFull(u)
    BY <2>j DEF CommitFull, Store
  <2>k. CASE CommitPush(u)
    BY <2>k DEF CommitPush, Store
  <2> QED BY <1>3, <2>1, <2>2, <2>3, <2>4, <2>5, <2>6, <2>7, <2>8, <2>9, <2>a, <2>b, <2>c, <2>d, <2>e,
             <2>f, <2>g, <2>h, <2>i, <2>j, <2>k
          DEF ThreadStep, HookStep, TakeFrame, CommitFrame
<1>4. CASE \E h \in Hals : HalRestart(h)
  <2>1. PICK h \in Hals : HalRestart(h)
    BY <1>4
  <2>2. CASE home[u] = h
    <3>1. pc[u] \in {"user", "driver"} /\ pc'[u] = "user"
      BY <2>1, <2>2 DEF HalRestart
    <3>2. gated' = [t \in Tasks |-> ~(home[t] = h) /\ gated[t]]
      BY <2>1 DEF HalRestart
    <3>3. ~gated'[u]
      BY <2>2, <3>2
    <3>4. got'[u] = got[u] /\ payload'[u] = payload[u]
      BY <2>1 DEF HalRestart, local
    <3> QED BY <1>0, <3>1, <3>3, <3>4 DEF GateInv, InHook
  <2>3. CASE home[u] # h
    <3>1. /\ pc'[u] = pc[u] /\ gated'[u] = gated[u] /\ got'[u] = got[u] /\ payload'[u] = payload[u]
          /\ home'[u] = home[u] /\ pushed'[home[u]] = pushed[home[u]]
      BY <2>1, <2>3, RestartKeeps
    <3> QED BY <1>0, <3>1 DEF GateInv
  <2> QED BY <2>2, <2>3
<1>5. CASE \E named \in SUBSET Hals : PublishIdentities(named)
  BY <1>1, <1>5 DEF PublishIdentities, local, thread
<1>6. CASE UNCHANGED vars
  BY <1>1, <1>6 DEF vars, local, hal, thread
<1> QED BY <1>2, <1>3, <1>4, <1>5, <1>6 DEF Next

-----------------------------------------------------------------------------
(* Frames and requests.                                                    *)

\* A disturbed thread is out of consideration, or has no frames at all.
LEMMA DisturbEffect ==
  ASSUME TypeOK, NEW t \in Tasks, NEW cause, Disturb(t, cause)
  PROVE  causes'[t] # {} \/ ~HasSlot(t)
BY DEF Disturb, TypeOK

\* Counted from the top, a frame keeps its request when both stacks are popped.
LEMMA ShiftIndex ==
  ASSUME NEW a \in Nat \ {0}, NEW b \in Nat \ {0}, NEW i \in 1..(b - 1), a - (b - i) >= 1
  PROVE  a - (b - i) = (a - 1) - ((b - 1) - i) /\ a - (b - i) \in 1..(a - 1)
OBVIOUS

\* A pop keeps frames and requests in step and yields the innermost request.
LEMMA MatchTake ==
  ASSUME IInv, NEW t \in Tasks, TakeTop(t), causes[t] = {}
  PROVE  MatchInv(t)'
<1> USE DEF IInv
<1>0. PICK w : w = way[t]
  OBVIOUS
<1> DEFINE f == slots[w].frames
           st == stack[t]
           s == IF Pop(f) = <<>> THEN FreeSlot ELSE [task |-> t, pid |-> slots[w].pid, frames |-> Pop(f)]
<1>1. w \in WaysOf(t) /\ w \in WayIds /\ slots[w].task = t /\ f \in Seq(Frames) /\ f # <<>>
  BY <1>0, TakeEffect DEF WaysOf
<1>2. slots' = [slots EXCEPT ![w] = s]
  BY <1>0, TakeEffect
<1>3. s.frames = Pop(f)
  BY DEF FreeSlot
<1>4. /\ Len(f) \in Nat \ {0} /\ Len(Pop(f)) = Len(f) - 1 /\ Top(f) = f[Len(f)]
      /\ \A i \in 1..(Len(f) - 1) : Pop(f)[i] = f[i]
  BY <1>1, PopProperties
<1>5. pc[t] = "take" /\ pc'[t] = "reply" /\ UNCHANGED <<halGen, stack, causes>>
  BY DEF TakeTop, Goto, hal, thread, TypeOK
<1>6. st \in Seq(Requests) /\ st # <<>>
  BY <1>5 DEF RequestInv, TypeOK
<1>7. /\ Len(st) \in Nat \ {0} /\ Len(Pop(st)) = Len(st) - 1 /\ Top(st) = st[Len(st)]
      /\ \A i \in 1..(Len(st) - 1) : Pop(st)[i] = st[i]
  BY <1>6, PopProperties
<1>8. Matched(w, st)
  BY <1>1, <1>5 DEF MatchInv
<1> HIDE DEF s
<1>9. slots'[w].frames = Pop(f)
  BY <1>1, <1>2, <1>3 DEF TypeOK
<1>10. \A v \in WaysOf(t)' : v = w
  <2>1. \A v \in WayIds \ {w} : slots'[v] = slots[v]
    BY <1>1, <1>2 DEF TypeOK
  <2>2. \A v \in WayIds \ {w} : slots[v].task # t
    BY <1>1, NoneAssumption DEF TableInv
  <2> QED BY <2>1, <2>2 DEF WaysOf
<1>11. ASSUME NEW i \in 1..Len(Pop(f)), Pop(f)[i].gen = halGen
       PROVE  LET j == Len(Pop(st)) - (Len(Pop(f)) - i)
              IN  j >= 1 /\ Pop(st)[j] = [id |-> Pop(f)[i].id, deviceId |-> TRUE]
  <2> DEFINE j == Len(st) - (Len(f) - i)
  <2>1. i \in 1..(Len(f) - 1) /\ i \in 1..Len(f)
    BY <1>4, <1>11
  <2>2. Pop(f)[i] = f[i]
    BY <1>4, <2>1
  <2>3. j >= 1 /\ st[j] = [id |-> f[i].id, deviceId |-> TRUE]
    BY <1>8, <1>11, <2>1, <2>2 DEF Matched
  <2>4. j = Len(Pop(st)) - (Len(Pop(f)) - i) /\ j \in 1..(Len(st) - 1)
    <3> HIDE DEF f, st
    <3>1. Len(st) - (Len(f) - i) >= 1
      BY <2>3
    <3>2. /\ Len(st) - (Len(f) - i) = (Len(st) - 1) - ((Len(f) - 1) - i)
          /\ Len(st) - (Len(f) - i) \in 1..(Len(st) - 1)
      BY <1>4, <1>7, <2>1, <3>1, ShiftIndex
    <3> QED BY <1>4, <1>7, <3>2
  <2> HIDE DEF j
  <2>5. Pop(st)[j] = st[j]
    BY <1>7, <2>4
  <2> QED BY <2>2, <2>3, <2>4, <2>5
<1>12. Matched(w, Pop(stack[t]))'
  BY <1>5, <1>9, <1>11 DEF Matched, Pop
<1>13. ASSUME got'[t] # 0 PROVE Top(st) = [id |-> got'[t], deviceId |-> TRUE]
  <2>1. got' = [got EXCEPT ![t] = IF Top(f).gen = halGen THEN Top(f).id ELSE 0]
    BY <1>0 DEF TakeTop
  <2>2. got'[t] = IF Top(f).gen = halGen THEN Top(f).id ELSE 0
    BY <2>1 DEF TypeOK
  <2>3. f[Len(f)].gen = halGen /\ got'[t] = f[Len(f)].id
    BY <1>4, <1>13, <2>2
  <2>4. Len(f) \in 1..Len(f) /\ Len(st) - (Len(f) - Len(f)) = Len(st)
    BY <1>4, <1>7
  <2>5. st[Len(st)] = [id |-> f[Len(f)].id, deviceId |-> TRUE]
    <3> HIDE DEF f, st
    <3>1. \A i \in 1..Len(f) : f[i].gen = halGen =>
            st[Len(st) - (Len(f) - i)] = [id |-> f[i].id, deviceId |-> TRUE]
      BY <1>8 DEF Matched, f
    <3> QED BY <2>3, <2>4, <3>1
  <2> QED BY <1>7, <2>3, <2>5
<1>14. Top(stack[t])' = Top(st)
  BY <1>5 DEF Top
<1> QED BY <1>5, <1>10, <1>12, <1>13, <1>14 DEF MatchInv, Pushing

\* A push keeps frames and requests in step.
LEMMA MatchPush ==
  ASSUME IInv, NEW t \in Tasks, CommitPush(t), causes[t] = {}
  PROVE  MatchInv(t)'
<1> USE DEF IInv
<1>0. PICK w : w = way[t]
  OBVIOUS
<1> DEFINE st == stack[t]
           old == Claimed(t).frames
           g == NewFrame(t)
           new == Append(old, g)
<1>1. /\ w \in WayIds /\ (HasSlot(t) => w \in WaysOf(t))
      /\ old \in Seq(Frames) /\ g \in Frames
      /\ old = <<>> \/ (w \in WaysOf(t) /\ old = slots[w].frames)
  BY <1>0, PushEffect
<1>2. slots' = [slots EXCEPT ![w] = [task |-> t, pid |-> Claimed(t).pid, frames |-> new]]
  BY <1>0, PushEffect
<1>3. /\ Len(new) = Len(old) + 1 /\ Len(old) \in Nat
      /\ \A j \in 1..Len(old) : new[j] = old[j]
      /\ new[Len(old) + 1] = g
  BY <1>1, AppendProperties, LenProperties
<1>4. pc[t] = "commit" /\ pc'[t] = "user" /\ UNCHANGED <<halGen, tracked, home, stack, got>>
  BY DEF CommitPush, Store, Leave, Goto, hal, thread, TypeOK
<1>5. got[t] = 0
  BY <1>4 DEF GateInv
<1>6. st \in Seq(Requests) /\ st # <<>> /\ Top(st).deviceId
  BY <1>4 DEF RequestInv, Pushing, TypeOK
<1>7. /\ Len(st) \in Nat \ {0} /\ Len(Pop(st)) = Len(st) - 1 /\ Top(st) = st[Len(st)] /\ Top(st) \in Requests
      /\ \A i \in 1..(Len(st) - 1) : Pop(st)[i] = st[i]
  BY <1>6, PopProperties
<1>8. st[Len(st)] = [id |-> g.id, deviceId |-> TRUE]
  BY <1>6, <1>7 DEF Requests, NewFrame
<1>9. Tracked(t) => \A v \in WaysOf(t) : Matched(v, Pop(st))
  BY <1>4 DEF MatchInv, Pushing
<1> HIDE DEF old, g, new
<1>10. slots'[w].frames = new
  BY <1>1, <1>2 DEF TypeOK
<1>11. \A v \in WaysOf(t)' : v = w
  <2>1. \A v \in WayIds \ {w} : slots'[v] = slots[v]
    BY <1>1, <1>2 DEF TypeOK
  <2>2. ASSUME NEW v \in WayIds \ {w} PROVE slots[v].task # t
    <3>1. slots[v].task = t => HasSlot(t)
      BY <2>2 DEF HasSlot, WaysOf
    <3> QED BY <1>1, <3>1, NoneAssumption DEF TableInv, WaysOf
  <2> QED BY <2>1, <2>2 DEF WaysOf
<1>12. ASSUME Tracked(t), NEW i \in 1..Len(new), new[i].gen = halGen
       PROVE  LET j == Len(st) - (Len(new) - i)
              IN  j >= 1 /\ st[j] = [id |-> new[i].id, deviceId |-> TRUE]
  <2>1. CASE i = Len(old) + 1
    <3>1. Len(st) - (Len(new) - i) = Len(st)
      BY <1>3, <1>7, <2>1
    <3>2. new[i] = g /\ Len(st) >= 1
      BY <1>3, <1>7, <2>1
    <3> HIDE DEF st
    <3> QED BY <1>8, <3>1, <3>2
  <2>2. CASE i \in 1..Len(old)
    <3>1. w \in WaysOf(t) /\ old = slots[w].frames
      BY <1>1, <2>2, EmptySeq
    <3> DEFINE j == Len(Pop(st)) - (Len(old) - i)
    <3>2. Matched(w, Pop(st))
      BY <1>9, <1>12, <3>1
    <3>3. j >= 1 /\ Pop(st)[j] = [id |-> old[i].id, deviceId |-> TRUE]
      BY <1>3, <1>12, <2>2, <3>1, <3>2 DEF Matched
    <3>4. j = Len(st) - (Len(new) - i) /\ j \in 1..(Len(st) - 1)
      BY <1>3, <1>7, <2>2, <3>3
    <3> HIDE DEF j
    <3>5. Pop(st)[j] = st[j]
      BY <1>7, <3>4
    <3> QED BY <1>3, <2>2, <3>3, <3>4, <3>5
  <2>3. i \in 1..Len(old) \/ i = Len(old) + 1
    BY <1>3
  <2> QED BY <2>1, <2>2, <2>3
<1>13. Tracked(t) => Matched(w, stack[t])'
  BY <1>4, <1>10, <1>12 DEF Matched
<1> QED BY <1>4, <1>5, <1>11, <1>13 DEF MatchInv, Pushing, Tracked

\* Frames and requests of an undisturbed thread stay in step.
LEMMA MatchStep ==
  ASSUME IInv, [Next]_vars, NEW u \in Tasks
  PROVE  MatchInv(u)'
<1> USE DEF IInv
<1>0. MatchInv(u) /\ GateInv(u) /\ RequestInv(u) /\ LookupInv(u)
  OBVIOUS
<1>a. ASSUME causes'[u] # {} PROVE MatchInv(u)'
  BY <1>a DEF MatchInv
<1>b. ASSUME slots' = slots, ~HasSlot(u), got'[u] = 0 PROVE MatchInv(u)'
  <2>1. WaysOf(u)' = {}
    BY <1>b DEF HasSlot, WaysOf
  <2> QED BY <1>b, <2>1 DEF MatchInv
<1>1. ASSUME pc'[u] = pc[u], gated'[u] = gated[u], stack'[u] = stack[u], got'[u] = got[u],
             causes'[u] = causes[u], halGen' = halGen, Tracked(u)' = Tracked(u),
             \A w \in WayIds : slots'[w].task = u => slots[w].task = u /\ slots'[w] = slots[w]
      PROVE  MatchInv(u)'
  <2>1. \A w \in WaysOf(u)' : w \in WaysOf(u) /\ slots'[w] = slots[w]
    BY <1>1 DEF WaysOf
  <2>2. ASSUME NEW w \in WaysOf(u)', Matched(w, stack[u]) PROVE Matched(w, stack[u])'
    BY <1>1, <2>1, <2>2 DEF Matched
  <2>3. ASSUME NEW w \in WaysOf(u)', Matched(w, Pop(stack[u])) PROVE Matched(w, Pop(stack[u]))'
    BY <1>1, <2>1, <2>3 DEF Matched, Pop
  <2>4. Top(stack[u])' = Top(stack[u])
    BY <1>1 DEF Top
  <2> QED BY <1>0, <1>1, <2>1, <2>2, <2>3, <2>4 DEF MatchInv
<1>2. ASSUME NEW t \in Tasks \ {u}, ThreadStep(t) PROVE MatchInv(u)'
  <2>1. \A w \in WayIds : slots'[w].task = u => slots[w].task = u /\ slots'[w] = slots[w]
    BY <1>2, OtherSlots
  <2>2. Tracked(u)' = Tracked(u)
    BY <1>2, OthersKept DEF Tracked
  <2> QED BY <1>1, <1>2, <2>1, <2>2, OthersKept
<1>e. ASSUME NEW h \in Hals, ThreadExit(u, h) PROVE MatchInv(u)'
  <2>1. slots' = slots /\ got'[u] = got[u] /\ got[u] = 0 /\ Disturb(u, "reuse")
    BY <1>0, <1>e DEF ThreadExit, GateInv, table, local
  <2> QED BY <1>a, <1>b, <2>1, DisturbEffect
<1>3. ASSUME ThreadStep(u), home'[u] = home[u] PROVE MatchInv(u)'
  <2>0. halGen' = halGen /\ Tracked(u)' = Tracked(u)
    BY <1>3, OthersKept DEF Tracked
  <2> USE DEF Goto, Leave, table, hal, thread, local
  <2>m. ASSUME slots' = slots
        PROVE  /\ WaysOf(u)' = WaysOf(u) /\ HasSlot(u)' = HasSlot(u)
               /\ \A w \in WaysOf(u) : stack'[u] = stack[u] /\ Matched(w, stack[u]) => Matched(w, stack[u])'
               /\ \A w \in WaysOf(u) : stack'[u] = stack[u] /\ Matched(w, Pop(stack[u])) => Matched(w, Pop(stack[u]))'
               /\ \A w \in WaysOf(u) : stack'[u] = Pop(stack[u]) /\ Matched(w, Pop(stack[u])) => Matched(w, stack[u])'
    BY <2>0, <2>m DEF WaysOf, HasSlot, Matched, Pop
  <2>n. ASSUME slots' = slots, NEW w \in WaysOf(u),
               \A i \in 1..Len(slots[w].frames) : slots[w].frames[i].gen < halGen
        PROVE  Matched(w, stack[u])'
    <3>1. \A i \in 1..Len(slots[w].frames) : slots[w].frames[i].gen # halGen
      <4>1. halGen \in Nat /\ slots[w].frames \in Seq(Frames)
        BY <2>n, BoundAssumption DEF WaysOf, TypeOK
      <4>2. \A i \in 1..Len(slots[w].frames) : slots[w].frames[i] \in Frames
        BY <4>1, ElementOfSeq
      <4>3. \A i \in 1..Len(slots[w].frames) : slots[w].frames[i].gen \in Nat
        BY <4>2, BoundAssumption DEF Frames
      <4> QED BY <2>n, <4>1, <4>3
    <3> QED BY <2>0, <2>n, <3>1 DEF Matched
  <2>1. CASE EnterToRead(u)
    <3>1. /\ pc[u] = "user" /\ pc'[u] = "driver" /\ slots' = slots
          /\ stack'[u] = stack[u] /\ got'[u] = got[u] /\ causes'[u] = causes[u]
      BY <2>1 DEF EnterToRead, TypeOK
    <3> QED BY <1>0, <2>0, <2>m, <3>1 DEF MatchInv, GateInv, Pushing
  <2>2. CASE EnterWithReply(u)
    <3>1. /\ pc[u] = "user" /\ pc'[u] = (IF Tracked(u) THEN "pop" ELSE "send") /\ slots' = slots
          /\ gated'[u] = Tracked(u)
          /\ stack'[u] = stack[u] /\ got'[u] = got[u] /\ causes'[u] = causes[u]
      BY <2>2 DEF EnterWithReply, TypeOK
    <3> QED BY <1>0, <2>0, <2>m, <3>1 DEF MatchInv, GateInv, Pushing
  <2>3. CASE SkipReply(u)
    <3>1. slots' = slots /\ got'[u] = got[u] /\ got[u] = 0 /\ Disturb(u, "unparsed")
      BY <1>0, <2>3 DEF SkipReply, GateInv
    <3> QED BY <1>a, <1>b, <3>1, DisturbEffect
  <2>4. CASE PopLock(u)
    <3>1. /\ pc[u] = "pop" /\ pc'[u] = "find" /\ slots' = slots
          /\ stack'[u] = stack[u] /\ got'[u] = got[u] /\ causes'[u] = causes[u]
      BY <2>4 DEF PopLock, Acquire, TypeOK
    <3> QED BY <1>0, <2>0, <2>m, <3>1 DEF MatchInv, GateInv, Pushing
  <2>5. CASE PushLock(u)
    <3>1. /\ pc[u] = "push" /\ pc'[u] = "scan" /\ slots' = slots
          /\ stack'[u] = stack[u] /\ got'[u] = got[u] /\ causes'[u] = causes[u]
      BY <2>5 DEF PushLock, Acquire, TypeOK
    <3> QED BY <1>0, <2>0, <2>m, <3>1 DEF MatchInv, GateInv, Pushing
  <2>6. CASE PopDropped(u) \/ PushDropped(u)
    <3>1. slots' = slots /\ got'[u] = got[u] /\ got[u] = 0 /\ Disturb(u, "contention")
      BY <1>0, <2>6 DEF PopDropped, PushDropped, GiveUp, GateInv
    <3> QED BY <1>a, <1>b, <3>1, DisturbEffect
  <2>7. CASE FindSlot(u)
    <3>1. /\ pc[u] = "find" /\ pc'[u] = "take" /\ slots' = slots
          /\ stack'[u] = stack[u] /\ got'[u] = got[u] /\ causes'[u] = causes[u]
      BY <2>7 DEF FindSlot, TypeOK
    <3> QED BY <1>0, <2>0, <2>m, <3>1 DEF MatchInv, GateInv, Pushing
  <2>8. CASE ScanBucket(u)
    <3>1. /\ pc[u] = "scan" /\ pc'[u] = "commit" /\ slots' = slots
          /\ stack'[u] = stack[u] /\ got'[u] = got[u] /\ causes'[u] = causes[u]
      BY <2>8 DEF ScanBucket, TypeOK
    <3> QED BY <1>0, <2>0, <2>m, <3>1 DEF MatchInv, GateInv, Pushing
  <2>9. CASE TakeNothing(u)
    <3>1. slots' = slots /\ got'[u] = got[u] /\ got[u] = 0 /\ ~Found(u) /\ pc[u] = "take"
      BY <1>0, <2>9 DEF TakeNothing, GateInv
    <3>2. ~HasSlot(u)
      <4> SUFFICES ASSUME HasSlot(u) PROVE FALSE
        OBVIOUS
      <4>1. way[u] \in WayIds /\ slots[way[u]].task = u
        BY <1>0, <3>1 DEF LookupInv, WaysOf
      <4>2. slots[way[u]].frames # <<>> /\ way[u] # 0
        BY <4>1, NoneAssumption, SizeAssumption DEF TableInv, SlotInv, WayIds
      <4> QED BY <3>1, <4>2 DEF Found
    <3> QED BY <1>b, <3>1, <3>2
  <2>10. CASE TakeTop(u)
    <3>1. causes'[u] = causes[u]
      BY <2>10 DEF TakeTop
    <3> QED BY <1>a, <2>10, <3>1, MatchTake
  <2>11. CASE \E fits \in BOOLEAN : ParseReply(u, fits)
    <3>1. /\ pc[u] = "reply" /\ pc'[u] = "send" /\ slots' = slots /\ gated'[u] = gated[u] /\ gated[u]
          /\ stack'[u] = stack[u] /\ got'[u] = got[u] /\ causes'[u] = causes[u]
      BY <1>0, <2>11 DEF ParseReply, TypeOK, GateInv, InHook
    <3>2. Top(stack[u])' = Top(stack[u])
      BY <3>1 DEF Top
    <3> QED BY <1>0, <2>0, <2>m, <3>1, <3>2 DEF MatchInv, Pushing
  <2>12. CASE SendReply(u)
    <3>1. /\ pc[u] = "send" /\ pc'[u] = "driver" /\ slots' = slots
          /\ stack'[u] = Pop(stack[u]) /\ got'[u] = 0 /\ causes'[u] = causes[u]
      BY <2>12 DEF SendReply, TypeOK
    <3>2. ASSUME causes[u] = {}, Tracked(u), NEW w \in WaysOf(u)' PROVE Matched(w, stack[u])'
      <4>1. w \in WaysOf(u)
        BY <2>m, <3>1, <3>2
      <4>2. CASE gated[u]
        BY <1>0, <2>m, <3>1, <3>2, <4>1, <4>2 DEF MatchInv
      <4>3. CASE ~gated[u]
        BY <1>0, <2>n, <3>1, <3>2, <4>1, <4>3 DEF MatchInv
      <4> QED BY <4>2, <4>3
    <3> QED BY <2>0, <3>1, <3>2 DEF MatchInv, Pushing
  <2>13. CASE RefuseReply(u)
    <3>1. /\ pc[u] = "send" /\ pc'[u] = "user" /\ slots' = slots /\ stack'[u] = stack[u] /\ got'[u] = 0
      BY <2>13 DEF RefuseReply, TypeOK
    <3>2. CASE gated[u]
      <4>1. Disturb(u, "retry")
        BY <2>13, <3>2 DEF RefuseReply
      <4> QED BY <1>a, <1>b, <3>1, <4>1, DisturbEffect
    <3>3. CASE ~gated[u]
      <4>1. causes' = causes
        BY <2>13, <3>3 DEF RefuseReply
      <4>2. ASSUME causes[u] = {}, Tracked(u), NEW w \in WaysOf(u)' PROVE Matched(w, stack[u])'
        <5>1. w \in WaysOf(u)
          BY <2>m, <3>1, <4>2
        <5> QED BY <1>0, <2>n, <3>1, <3>3, <4>2, <5>1 DEF MatchInv
      <4> QED BY <2>0, <3>1, <4>1, <4>2 DEF MatchInv, Pushing
    <3> QED BY <3>2, <3>3
  <2>14. CASE ReturnEmpty(u)
    <3>1. /\ pc[u] = "driver" /\ pc'[u] = "user" /\ slots' = slots
          /\ stack'[u] = stack[u] /\ got'[u] = got[u] /\ causes'[u] = causes[u]
      BY <2>14 DEF ReturnEmpty, TypeOK
    <3> QED BY <1>0, <2>0, <2>m, <3>1 DEF MatchInv, GateInv, Pushing
  <2>15. CASE ReceiveDeviceId(u)
    <3>1. /\ pc[u] = "driver" /\ pc'[u] = "push" /\ slots' = slots /\ got'[u] = got[u] /\ got[u] = 0
          /\ causes'[u] = IF Settled(u) THEN {} ELSE causes[u]
      BY <1>0, <2>15 DEF ReceiveDeviceId, TypeOK, GateInv
    <3>2. Pop(stack[u])' = stack[u]
      <4>1. stack[u] \in Seq(Requests) /\ Receive(u, TRUE) /\ TypeOK'
        BY <2>15, TypeStep DEF ReceiveDeviceId, TypeOK
      <4>2. /\ stack'[u] \in Seq(Requests) /\ stack'[u] # <<>>
            /\ Len(stack'[u]) = Len(stack[u]) + 1
            /\ \A i \in 1..Len(stack[u]) : stack'[u][i] = stack[u][i]
        BY <4>1, ReceiveEffect
      <4>3. /\ Pop(stack'[u]) \in Seq(Requests) /\ Len(Pop(stack'[u])) = Len(stack'[u]) - 1
            /\ \A i \in 1..(Len(stack'[u]) - 1) : Pop(stack'[u])[i] = stack'[u][i]
        BY <4>2, PopProperties
      <4>4. Len(stack[u]) \in Nat
        BY <4>1, LenProperties
      <4>5. Len(Pop(stack'[u])) = Len(stack[u]) /\ \A i \in 1..Len(stack[u]) : Pop(stack'[u])[i] = stack[u][i]
        BY <4>2, <4>3, <4>4
      <4>6. Pop(stack'[u]) = stack[u]
        BY <4>1, <4>3, <4>5, SeqEqual
      <4> QED BY <4>6 DEF Pop
    <3>3. CASE HasSlot(u)
      <4>1. causes'[u] = causes[u]
        BY <3>1, <3>3 DEF Settled
      <4>2. \A w \in WaysOf(u) : Matched(w, stack[u]) => Matched(w, Pop(stack[u]))'
        BY <2>0, <3>1, <3>2 DEF Matched
      <4> QED BY <1>0, <2>0, <2>m, <3>1, <4>1, <4>2 DEF MatchInv, Pushing
    <3> QED BY <1>b, <3>1, <3>3
  <2>16. CASE \E d \in BOOLEAN : ReceiveOther(u, d)
    <3>1. /\ pc[u] = "driver" /\ pc'[u] = "user" /\ slots' = slots /\ got'[u] = got[u] /\ got[u] = 0
      BY <1>0, <2>16 DEF ReceiveOther, TypeOK, GateInv
    <3>2. CASE stack[u] # <<>>
      <4>1. Disturb(u, "nested")
        BY <2>16, <3>2 DEF ReceiveOther
      <4> QED BY <1>a, <1>b, <3>1, <4>1, DisturbEffect
    <3>3. CASE stack[u] = <<>> /\ HasSlot(u)
      <4>1. causes'[u] = causes[u]
        BY <2>16, <3>3 DEF ReceiveOther, TypeOK
      <4>2. ASSUME NEW w \in WaysOf(u), Matched(w, stack[u]) PROVE Matched(w, stack[u])'
        <5>1. slots[w].frames \in Seq(Frames) /\ Len(stack[u]) = 0
          BY <3>3, <4>2 DEF WaysOf, TypeOK
        <5>2. Len(slots[w].frames) \in Nat
          BY <5>1, LenProperties
        <5>3. \A n \in Nat : \A i \in 1..n : ~(0 - (n - i) >= 1)
          OBVIOUS
        <5>4. \A i \in 1..Len(slots[w].frames) : slots[w].frames[i].gen # halGen
          BY <4>2, <5>1, <5>2, <5>3 DEF Matched
        <5> QED BY <2>0, <3>1, <5>4 DEF Matched
      <4> QED BY <1>0, <2>0, <2>m, <3>1, <4>1, <4>2 DEF MatchInv, Pushing
    <3> QED BY <1>b, <3>1, <3>2, <3>3
  <2>18. CASE CommitFull(u)
    <3>1. Disturb(u, "overflow") /\ HasSlot(u)
      BY <2>18, FullEffect DEF CommitFull
    <3> QED BY <1>a, <3>1, DisturbEffect
  <2>19. CASE CommitPush(u)
    <3>1. causes'[u] = causes[u]
      BY <2>19 DEF CommitPush
    <3> QED BY <1>a, <2>19, <3>1, MatchPush
  <2> QED BY <1>3, <1>e, <2>1, <2>2, <2>3, <2>4, <2>5, <2>6, <2>7, <2>8, <2>9, <2>10, <2>11, <2>12, <2>13,
             <2>14, <2>15, <2>16, <2>18, <2>19
          DEF ThreadStep, HookStep, TakeFrame, CommitFrame
<1>4. CASE \E h \in Hals : HalRestart(h)
  <2>1. PICK h \in Hals : HalRestart(h)
    BY <1>4
  <2>2. CASE home[u] = h
    <3>1. pc[u] \in {"user", "driver"} /\ pc'[u] = "user" /\ got'[u] = got[u]
      BY <2>1, <2>2 DEF HalRestart, local
    <3>2. ~Tracked(u)'
      BY <2>1, <2>2 DEF HalRestart, Tracked
    <3> QED BY <1>0, <3>1, <3>2 DEF MatchInv, GateInv, Pushing
  <2>3. CASE home[u] # h
    <3>1. /\ pc'[u] = pc[u] /\ gated'[u] = gated[u] /\ got'[u] = got[u] /\ home'[u] = home[u]
          /\ stack'[u] = stack[u] /\ causes'[u] = causes[u] /\ slots' = slots /\ halGen' = halGen
      BY <2>1, <2>3, RestartKeeps
    <3>2. Tracked(u)' = Tracked(u)
      BY <2>1, <2>3 DEF HalRestart, Tracked
    <3> QED BY <1>1, <3>1, <3>2
  <2> QED BY <2>2, <2>3
<1>5. CASE \E named \in SUBSET Hals : PublishIdentities(named)
  <2>1. /\ slots' = slots /\ stack' = stack /\ got' = got /\ pc' = pc /\ causes' = causes
        /\ halGen' = halGen + 1
    BY <1>5 DEF PublishIdentities, table, thread, local
  <2>2. \A w \in WayIds : \A i \in 1..Len(slots[w].frames) :
          slots[w].frames[i].gen # halGen + 1 /\ slots[w].frames[i].gen < halGen + 1
    <3> SUFFICES ASSUME NEW w \in WayIds, NEW i \in 1..Len(slots[w].frames)
                 PROVE  slots[w].frames[i].gen # halGen + 1 /\ slots[w].frames[i].gen < halGen + 1
      OBVIOUS
    <3>1. slots[w].frames \in Seq(Frames) /\ halGen \in Nat
      BY BoundAssumption DEF TypeOK
    <3>2. slots[w].frames[i] \in Frames
      BY <3>1, ElementOfSeq
    <3>3. slots[w].frames[i].gen \in Nat
      BY <3>2, BoundAssumption DEF Frames
    <3>4. slots[w].frames[i].gen <= halGen
      BY DEF TableInv, SlotInv
    <3> QED BY <3>1, <3>3, <3>4
  <2>3. WaysOf(u)' = WaysOf(u) /\ WaysOf(u) \subseteq WayIds
    BY <2>1 DEF WaysOf
  <2>4. \A w \in WaysOf(u)' : Matched(w, stack[u])' /\ Matched(w, Pop(stack[u]))'
    BY <2>1, <2>2, <2>3 DEF Matched
  <2>5. \A w \in WaysOf(u)' : \A i \in 1..Len(slots'[w].frames) : slots'[w].frames[i].gen < halGen'
    BY <2>1, <2>2, <2>3
  <2>6. Top(stack[u])' = Top(stack[u])
    BY <2>1 DEF Top
  <2> QED BY <1>0, <2>1, <2>4, <2>5, <2>6 DEF MatchInv
<1>6. CASE UNCHANGED vars
  <2>1. Tracked(u)' = Tracked(u)
    BY <1>6 DEF vars, hal, thread, Tracked
  <2> QED BY <1>1, <1>6, <2>1 DEF vars, table, local, hal, thread
<1>7. ASSUME ThreadStep(u) PROVE MatchInv(u)'
  BY <1>3, <1>7, <1>e, Moves
<1> QED BY <1>2, <1>4, <1>5, <1>6, <1>7 DEF Next

-----------------------------------------------------------------------------
(* The theorems.                                                           *)

\* The inductive invariant holds in every reachable state.
THEOREM Inductive ==
  Spec => []IInv
<1>1. Init => IInv
  <2> SUFFICES ASSUME Init PROVE IInv
    OBVIOUS
  <2> USE DEF Init
  <2>1. TypeOK
    <3>1. \A S : <<>> \in Seq(S)
      OBVIOUS
    <3>2. slots \in [WayIds -> SlotType]
      BY <3>1, BoundAssumption DEF FreeSlot, SlotType
    <3>3. stack \in [Tasks -> Seq(Requests)]
      BY <3>1
    <3>4. /\ pid \in [Tasks -> 1..MaxPid] /\ halGen \in 1..MaxGeneration /\ way \in [Tasks -> 0..Ways]
          /\ got \in [Tasks -> 0..MaxEvents] /\ events \in 0..MaxEvents
      BY BoundAssumption, SizeAssumption
    <3> QED BY <3>2, <3>3, <3>4 DEF TypeOK, SlotType, InHook
  <2>2. LockInv
    BY DEF LockInv, Critical
  <2>3. \A w \in WayIds : slots[w].task = None /\ slots[w].frames = <<>> /\ Len(slots[w].frames) = 0
    BY DEF FreeSlot
  <2>4. TableInv
    BY <2>3, SizeAssumption DEF TableInv, SlotInv
  <2>5. GenerationInv
    BY <2>3 DEF GenerationInv
  <2>6. ASSUME NEW t \in Tasks PROVE LookupInv(t) /\ RequestInv(t) /\ GateInv(t) /\ MatchInv(t)
    <3>1. pc[t] = "user" /\ stack[t] = <<>> /\ Len(stack[t]) = 0 /\ ~gated[t] /\ got[t] = 0 /\ payload[t] = "kept"
      OBVIOUS
    <3>2. WaysOf(t) = {}
      BY <2>3, NoneAssumption DEF WaysOf
    <3> QED BY <3>1, <3>2 DEF LookupInv, RequestInv, GateInv, MatchInv, Pushing, InHook
  <2> QED BY <2>1, <2>2, <2>4, <2>5, <2>6 DEF IInv
<1>2. IInv /\ [Next]_vars => IInv'
  <2> SUFFICES ASSUME IInv, [Next]_vars PROVE IInv'
    OBVIOUS
  <2>1. TypeOK' /\ TableInv' /\ GenerationInv'
    BY TypeStep, TableStep, GenerationStep
  <2>2. LockInv'
    BY LockStep DEF IInv
  <2>3. \A t \in Tasks : LookupInv(t)' /\ RequestInv(t)' /\ GateInv(t)' /\ MatchInv(t)'
    BY LookupStep, RequestStep, GateStep, MatchStep
  <2> QED BY <2>1, <2>2, <2>3 DEF IInv
<1> QED BY <1>1, <1>2, PTL DEF Spec

\* Type correctness.
THEOREM TypeCorrect ==
  Spec => []TypeOK
BY Inductive, PTL DEF IInv

\* Whenever the lock is free the bucket is sound: slots are occupied exactly
\* when they have frames, no task has two, no stack exceeds its depth, and
\* stacks are ordered by event id (emit_pending_push, emit_pending_pop).
THEOREM TableSound ==
  Spec => []TableWellFormed
<1>1. IInv => TableWellFormed
  BY DEF IInv, TableInv, SlotInv, TableWellFormed
<1> QED BY <1>1, Inductive, PTL

\* emit_pending_push takes another thread's slot only when the bucket is
\* full, and then the one whose top frame is oldest, although the bucket is
\* scanned in an earlier step than the one that claims the slot.
THEOREM EvictsOldest ==
  Spec => EvictsOldestOnlyWhenFull
<1> DEFINE Evicts == \A w \in WayIds :
             slots'[w].task \notin {None, slots[w].task} /\ slots[w].task # None =>
               \A v \in WayIds : /\ slots[v].task # None
                                 /\ Age(slots[w]) <= Age(slots[v])
<1>1. IInv /\ [Next]_vars => [Evicts]_vars
  <2> SUFFICES ASSUME IInv, Next, NEW w \in WayIds,
                      slots'[w].task \notin {None, slots[w].task}, slots[w].task # None
               PROVE  \A v \in WayIds : slots[v].task # None /\ Age(slots[w]) <= Age(slots[v])
    OBVIOUS
  <2> USE DEF IInv
  <2>1. ASSUME NEW t \in Tasks, ThreadStep(t)
        PROVE  \A v \in WayIds : slots[v].task # None /\ Age(slots[w]) <= Age(slots[v])
    <3>1. ~TakeTop(t)
      <4> SUFFICES ASSUME TakeTop(t) PROVE FALSE
        OBVIOUS
      <4> DEFINE rest == Pop(slots[way[t]].frames)
                 s == IF rest = <<>> THEN FreeSlot
                      ELSE [task |-> t, pid |-> slots[way[t]].pid, frames |-> rest]
      <4>1. slots' = [slots EXCEPT ![way[t]] = s] /\ slots[way[t]].task = t
        BY TakeEffect DEF WaysOf
      <4>2. s.task \in {t, None}
        BY DEF FreeSlot
      <4> HIDE DEF s
      <4> QED BY <4>1, <4>2 DEF TypeOK
    <3>2. CommitPush(t)
      BY <2>1, <3>1, SlotsKept
    <3>3. slots' = [slots EXCEPT ![way[t]] =
            [task |-> t, pid |-> Claimed(t).pid, frames |-> Append(Claimed(t).frames, NewFrame(t))]]
      BY <3>2, PushEffect
    <3>4. w = way[t] /\ slots[w].task \notin {t, None}
      BY <3>3 DEF TypeOK
    <3>5. pc[t] = "commit"
      BY <3>2 DEF CommitPush, Store, Leave, Goto
    <3> QED BY <3>4, <3>5 DEF LookupInv
  <2>2. CASE (\E h \in Hals : HalRestart(h)) \/ \E named \in SUBSET Hals : PublishIdentities(named)
    BY <2>2 DEF HalRestart, PublishIdentities, table
  <2> QED BY <2>1, <2>2 DEF Next
<1>2. Spec => [][Evicts]_vars
  BY <1>1, Inductive, PTL DEF Spec
<1> QED BY <1>2 DEF EvictsOldestOnlyWhenFull

\* No reply of a HAL process is correlated with a frame pushed before that
\* process started, although its threads may have the task_structs the frames
\* are keyed by (emit_pending_pop compares task and generation only), for any
\* number of HALs.  Frames that another HAL pushed later are not excluded.
THEOREM NoOlderFrame ==
  Spec => []NoFrameOlderThanHal
<1>1. IInv => NoFrameOlderThanHal
  BY DEF IInv, GateInv, NoFrameOlderThanHal
<1> QED BY <1>1, Inductive, PTL

\* A reply that is replaced answers the very deviceUniqueId request whose
\* frame it popped, unless a listed cause disturbed the thread: eviction, a
\* change of generation or replies of an untracked HAL never mix them up.
THEOREM ExactReplies ==
  Spec => []ExactUnlessDisturbed
<1>1. IInv => ExactUnlessDisturbed
  BY DEF IInv, GateInv, MatchInv, ExactUnlessDisturbed
<1> QED BY <1>1, Inductive, PTL

=============================================================================
