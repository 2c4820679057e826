------------------------- MODULE ConfigSlotsProofs --------------------------
(***************************************************************************)
(* ConfigSlots for every set of readers and IDs and every bound: types, the *)
(* coherence of a reply whose slot was not reused, and the refinement of    *)
(* AtomicConfig.                                                            *)
(***************************************************************************)
EXTENDS ConfigSlots, TLAPS

\* A publication only ever works on the slot that is not active, and what it
\* has written there is what it publishes.
PublisherInv ==
  wpc # "idle" =>
    /\ target = 1 - active
    /\ next.gen > slots[active].gen
    /\ \A w \in WordNames \ todo : slots[target][w] = Image(next)[w]
    /\ wpc = "flip" => todo = {}

\* The active slot never holds a mixed configuration.
ActiveInv == slots[active] = Image(ConfigOf(slots[active]))

\* A reader that was not lapped still holds the image it captured, no
\* publication works on it, and its progress follows that image.
ReaderInv(r) ==
  Busy(r) /\ ~lapped[r] =>
    /\ slots[ptr[r]] = Image(seen[r])
    /\ wpc # "idle" => target # ptr[r]
    /\ rpc[r] \in {"header", "mode", "lo"} => payload[r] = Untouched
    /\ rpc[r] \in {"lo", "hi"} => seen[r].mode = WriteTest
    /\ rpc[r] = "hi" => payload[r] = [lo |-> seen[r].id, hi |-> Real]
    /\ rpc[r] = "done" => ActedOn(r, seen[r])

IInv == TypeOK /\ PublisherInv /\ ActiveInv /\ (\A r \in Readers : ReaderInv(r))

CountInv == switches >= flips + (IF wpc = "flip" THEN 1 ELSE 0)

-----------------------------------------------------------------------------
(* Images and configurations.                                              *)

\* A configuration's image is a slot image, and determines it.
LEMMA ImageType ==
  ASSUME NEW c \in Configs
  PROVE  /\ Image(c) \in SlotImages
         /\ ConfigOf(Image(c)) = c
BY DEF Image, ConfigOf, Configs, SlotImages

\* Reading a slot image as a configuration always gives a valid one.
LEMMA ConfigOfType ==
  ASSUME NEW i \in SlotImages
  PROVE  ConfigOf(i) \in Configs
BY DEF ConfigOf, Configs, SlotImages

\* Storing one word of a configuration's image into a slot image.
LEMMA StoreWord ==
  ASSUME NEW i \in SlotImages, NEW c \in Configs, NEW w \in WordNames
  PROVE  /\ WithWord(i, w, c) \in SlotImages
         /\ WithWord(i, w, c)[w] = Image(c)[w]
         /\ \A v \in WordNames \ {w} : WithWord(i, w, c)[v] = i[v]
<1>1. CASE w = "gen"
  BY <1>1 DEF WithWord, Image, Configs, SlotImages, WordNames
<1>2. CASE w = "mode"
  BY <1>2 DEF WithWord, Image, Configs, SlotImages, WordNames
<1>3. CASE w = "lo"
  BY <1>3 DEF WithWord, Image, Configs, SlotImages, WordNames
<1>4. CASE w = "hi"
  BY <1>4 DEF WithWord, Image, Configs, SlotImages, WordNames
<1> QED BY <1>1, <1>2, <1>3, <1>4 DEF WordNames

\* A slot all of whose words are a configuration's holds its image.
LEMMA AllWordsWritten ==
  ASSUME NEW i \in SlotImages, NEW c \in Configs,
         \A w \in WordNames : i[w] = Image(c)[w]
  PROVE  i = Image(c)
BY DEF Image, Configs, SlotImages, WordNames

-----------------------------------------------------------------------------
(* Type correctness.                                                       *)

\* One step of a reader keeps the types.
LEMMA ReadType ==
  ASSUME TypeOK, NEW r \in Readers, Read(r)
  PROVE  TypeOK'
<1> USE DEF TypeOK, publisher, Goto, Finish, Untouched
<1>1. CASE Capture(r)
  <2>1. ConfigOf(slots[active]) \in Configs
    BY ConfigOfType
  <2> QED BY <1>1, <2>1 DEF Capture
<1>2. CASE RejectReply(r)
  BY <1>2 DEF RejectReply
<1>3. CASE AcceptReply(r)
  BY <1>3 DEF AcceptReply
<1>4. CASE CheckMode(r)
  BY <1>4 DEF CheckMode
<1>5. CASE CopyLow(r)
  BY <1>5 DEF CopyLow, SlotImages
<1>6. CASE CopyHigh(r)
  BY <1>6 DEF CopyHigh, SlotImages
<1>7. CASE CopyFault(r)
  BY <1>7 DEF CopyFault
<1>8. CASE Deliver(r)
  BY <1>8 DEF Deliver
<1> QED BY <1>1, <1>2, <1>3, <1>4, <1>5, <1>6, <1>7, <1>8 DEF Read

\* Every step keeps the types.
LEMMA NextType == TypeOK /\ [Next]_vars => TypeOK'
<1> SUFFICES ASSUME TypeOK, [Next]_vars PROVE TypeOK'
  OBVIOUS
<1>1. ASSUME NEW c \in Configs, BeginPublish(c) PROVE TypeOK'
  BY <1>1 DEF TypeOK, BeginPublish, readers
<1>2. ASSUME NEW w \in WordNames, FillWord(w) PROVE TypeOK'
  <2>1. WithWord(slots[target], w, next) \in SlotImages
    BY StoreWord DEF TypeOK
  <2> QED BY <1>2, <2>1 DEF TypeOK, FillWord, readers
<1>3. CASE CountSwitch
  BY <1>3, BoundsAssumption DEF TypeOK, CountSwitch, readers
<1>4. CASE Flip
  BY <1>4 DEF TypeOK, Flip, readers
<1>5. CASE PublishFails
  BY <1>5 DEF TypeOK, PublishFails, readers
<1>6. ASSUME NEW r \in Readers, Read(r) PROVE TypeOK'
  BY <1>6, ReadType
<1>7. CASE UNCHANGED vars
  BY <1>7 DEF TypeOK, vars, publisher, readers
<1> QED BY <1>1, <1>2, <1>3, <1>4, <1>5, <1>6, <1>7 DEF Next

\* The state of the publication protocol always has its type.
THEOREM TypeCorrect == Spec => []TypeOK
<1>1. Init => TypeOK
  BY ImageType, BoundsAssumption DEF Init, TypeOK, Untouched
<1> QED BY <1>1, NextType, PTL DEF Spec

-----------------------------------------------------------------------------
(* The inductive invariant.                                                *)

\* Initially no publication is under way and the active slot is whole.
LEMMA InitIInv == Init => IInv
<1> SUFFICES ASSUME Init PROVE IInv
  OBVIOUS
<1>1. TypeOK
  BY ImageType, BoundsAssumption DEF Init, TypeOK, Untouched
<1>2. ActiveInv
  BY ImageType DEF Init, ActiveInv
<1> QED BY <1>1, <1>2 DEF Init, IInv, PublisherInv, ReaderInv, Busy

\* The steps of the publisher.
LEMMA PublisherStep ==
  ASSUME IInv,
         \/ \E c \in Configs : BeginPublish(c)
         \/ \E w \in WordNames : FillWord(w)
         \/ CountSwitch
         \/ Flip
         \/ PublishFails
  PROVE  PublisherInv' /\ ActiveInv' /\ (\A r \in Readers : ReaderInv(r)')
<1> USE DEF IInv
<1>1. ASSUME NEW c \in Configs, BeginPublish(c)
      PROVE  PublisherInv' /\ ActiveInv' /\ (\A r \in Readers : ReaderInv(r)')
  <2>1. PublisherInv'
    BY <1>1 DEF BeginPublish, PublisherInv, TypeOK
  <2>2. ActiveInv'
    BY <1>1 DEF BeginPublish, ActiveInv
  <2>3. ASSUME NEW r \in Readers PROVE ReaderInv(r)'
    BY <1>1, <2>3 DEF BeginPublish, ReaderInv, ActedOn, Busy, readers, TypeOK
  <2> QED BY <2>1, <2>2, <2>3
<1>2. ASSUME NEW w \in WordNames, FillWord(w)
      PROVE  PublisherInv' /\ ActiveInv' /\ (\A r \in Readers : ReaderInv(r)')
  <2> DEFINE j == WithWord(slots[target], w, next)
  <2>1. /\ wpc = "fill" /\ wpc' = "fill" /\ target = 1 - active
        /\ slots' = [slots EXCEPT ![target] = j]
        /\ UNCHANGED <<active, switches, wpc, target, next, readers, lapped>>
        /\ todo' = todo \ {w}
    BY <1>2 DEF FillWord, PublisherInv
  <2>2. /\ j[w] = Image(next)[w]
        /\ \A v \in WordNames \ {w} : j[v] = slots[target][v]
    BY StoreWord DEF TypeOK
  <2>3. slots'[target] = j /\ slots'[active] = slots[active]
    BY <2>1 DEF TypeOK
  <2>4. PublisherInv'
    <3>1. \A v \in WordNames \ todo' : slots'[target][v] = Image(next)[v]
      BY <2>1, <2>2, <2>3 DEF PublisherInv
    <3> QED BY <2>1, <2>3, <3>1 DEF PublisherInv
  <2>5. ActiveInv'
    BY <2>1, <2>3 DEF ActiveInv
  <2>6. ASSUME NEW r \in Readers PROVE ReaderInv(r)'
    <3>1. target # ptr[r] => slots'[ptr[r]] = slots[ptr[r]]
      BY <2>1 DEF TypeOK
    <3> QED BY <2>1, <3>1 DEF ReaderInv, ActedOn, Busy, readers
  <2> QED BY <2>4, <2>5, <2>6
<1>3. CASE CountSwitch
  BY <1>3 DEF CountSwitch, PublisherInv, ActiveInv, ReaderInv, ActedOn, Busy,
              readers
<1>4. CASE Flip
  <2>1. slots[target] = Image(next)
    BY <1>4, AllWordsWritten DEF Flip, PublisherInv, TypeOK
  <2>2. ActiveInv'
    BY <1>4, <2>1, ImageType DEF Flip, ActiveInv, TypeOK
  <2> QED BY <1>4, <2>2 DEF Flip, PublisherInv, ReaderInv, ActedOn, Busy, readers
<1>5. CASE PublishFails
  BY <1>5 DEF PublishFails, PublisherInv, ActiveInv, ReaderInv, ActedOn, Busy,
              readers
<1> QED BY <1>1, <1>2, <1>3, <1>4, <1>5

\* The steps of a reader: nothing of the publication changes, and the reader
\* moves along the image it captured.
LEMMA ReaderStep ==
  ASSUME IInv, NEW r \in Readers, Read(r)
  PROVE  PublisherInv' /\ ActiveInv' /\ (\A q \in Readers : ReaderInv(q)')
<1> USE DEF IInv
<1>1. UNCHANGED <<slots, active, switches, publisher>>
  BY DEF Read, Capture, RejectReply, AcceptReply, CheckMode, CopyLow, CopyHigh,
         CopyFault, Deliver
<1>2. PublisherInv' /\ ActiveInv'
  BY <1>1 DEF PublisherInv, ActiveInv, publisher
<1>3. ASSUME NEW q \in Readers, q # r PROVE ReaderInv(q)'
  <2>1. /\ rpc'[q] = rpc[q] /\ ptr'[q] = ptr[q] /\ payload'[q] = payload[q]
        /\ verdict'[q] = verdict[q] /\ seen'[q] = seen[q]
        /\ lapped'[q] = lapped[q]
    BY <1>3 DEF Read, Capture, RejectReply, AcceptReply, CheckMode, CopyLow,
                CopyHigh, CopyFault, Deliver, Goto, Finish, TypeOK
  <2> QED BY <1>1, <2>1 DEF ReaderInv, ActedOn, Busy, publisher
<1>4. ReaderInv(r)'
  <2> USE <1>1 DEF ReaderInv, Goto, Finish, Busy, TypeOK, publisher
  <2>1. CASE Capture(r)
    BY <2>1 DEF Capture, ActiveInv, PublisherInv
  <2>2. CASE RejectReply(r)
    BY <2>2 DEF RejectReply, ActedOn
  <2>3. CASE AcceptReply(r)
    BY <2>3 DEF AcceptReply, ActedOn
  <2>4. CASE CheckMode(r)
    BY <2>4 DEF CheckMode, ActedOn, Image, Configs
  <2>5. CASE CopyLow(r)
    BY <2>5 DEF CopyLow, ActedOn, Image, Untouched
  <2>6. CASE CopyHigh(r)
    BY <2>6 DEF CopyHigh, ActedOn, Image, Untouched
  <2>7. CASE CopyFault(r)
    BY <2>7 DEF CopyFault, ActedOn, Untouched
  <2>8. CASE Deliver(r)
    BY <2>8 DEF Deliver
  <2> QED BY <2>1, <2>2, <2>3, <2>4, <2>5, <2>6, <2>7, <2>8 DEF Read
<1> QED BY <1>2, <1>3, <1>4

\* IInv is inductive.
LEMMA NextIInv == IInv /\ [Next]_vars => IInv'
<1> SUFFICES ASSUME IInv, [Next]_vars PROVE IInv'
  OBVIOUS
<1>1. TypeOK'
  BY NextType DEF IInv
<1>2. CASE UNCHANGED vars
  BY <1>1, <1>2 DEF IInv, PublisherInv, ActiveInv, ReaderInv, ActedOn, Busy, vars,
                    publisher, readers
<1>3. CASE Next
  BY <1>1, <1>3, PublisherStep, ReaderStep DEF Next, IInv
<1> QED BY <1>2, <1>3

\* A reply whose captured slot was not chosen by a later publication is
\* treated under exactly the configuration in force when it was captured.
THEOREM ReplyCoherence == Spec => []UnlappedReplyCoherent
<1>1. IInv => UnlappedReplyCoherent
  BY DEF IInv, ReaderInv, UnlappedReplyCoherent, Busy
<1> QED BY <1>1, InitIInv, NextIInv, PTL DEF Spec

\* What the hook can read through the active index is AtomicConfig's
\* register: publications that are made of several fallible writes take
\* effect in one step, or not at all.
THEOREM Refinement == Spec => PublicationIsAtomic
<1>1. Init => Register!Init
  BY ImageType DEF Init, Register!Init, Image, ConfigOf, Configs
<1>2. IInv /\ [Next]_vars
        => [Register!Next]_(IF slots[active].lo = slots[active].hi
                              THEN ConfigOf(slots[active]) ELSE Real)
  <2> SUFFICES ASSUME IInv, [Next]_vars
               PROVE  \/ Register!Next
                      \/ /\ slots'[active'] = slots[active]
    BY DEF ConfigOf
  <2> USE DEF IInv
  <2>1. CASE Flip
    <3>1. slots[target] = Image(next)
      BY <2>1, AllWordsWritten DEF Flip, PublisherInv, TypeOK
    <3>2. slots'[active'] = Image(next) /\ ConfigOf(slots'[active']) = next
      BY <2>1, <3>1, ImageType DEF Flip, TypeOK
    <3>3. slots[active].lo = slots[active].hi
      BY DEF ActiveInv, Image, ConfigOf
    <3>4. next.gen > ConfigOf(slots[active]).gen
      BY <2>1 DEF Flip, PublisherInv, ConfigOf
    <3>5. Register!Publish(next)
      BY <3>2, <3>3, <3>4 DEF Register!Publish, Image
    <3> QED BY <3>5 DEF Register!Next, TypeOK
  <2>2. ASSUME NEW w \in WordNames, FillWord(w)
        PROVE  slots'[active'] = slots[active]
    BY <2>2 DEF FillWord, PublisherInv, TypeOK
  <2>3. CASE (\E c \in Configs : BeginPublish(c)) \/ CountSwitch \/ PublishFails
    BY <2>3 DEF BeginPublish, CountSwitch, PublishFails
  <2>4. ASSUME NEW r \in Readers, Read(r)
        PROVE  slots'[active'] = slots[active]
    BY <2>4 DEF Read, Capture, RejectReply, AcceptReply, CheckMode, CopyLow,
                CopyHigh, CopyFault, Deliver
  <2>5. CASE UNCHANGED vars
    BY <2>5 DEF vars
  <2> QED BY <2>1, <2>2, <2>3, <2>4, <2>5 DEF Next
<1> QED BY <1>1, <1>2, InitIInv, NextIInv, PTL DEF Spec, PublicationIsAtomic,
                                                   Register!Spec

\* The reported switch count never falls behind the switches that took
\* effect; CountInv adds the moment between the count and the switch.
THEOREM SwitchCount == Spec => []SwitchesNeverUndercount
<1>1. Init => CountInv
  BY DEF Init, CountInv
<1>2. TypeOK /\ CountInv /\ [Next]_vars => CountInv'
  BY DEF TypeOK, CountInv, Next, vars, publisher, readers, BeginPublish, FillWord,
         CountSwitch, Flip, PublishFails, Read, Capture, RejectReply, AcceptReply,
         CheckMode, CopyLow, CopyHigh, CopyFault, Deliver
<1>3. TypeOK /\ CountInv => SwitchesNeverUndercount
  BY DEF TypeOK, CountInv, SwitchesNeverUndercount
<1> QED BY <1>1, <1>2, <1>3, TypeCorrect, PTL DEF Spec

=============================================================================
