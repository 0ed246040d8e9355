--------------------------- MODULE KeyboardProofs ---------------------------
(***************************************************************************)
(* Proofs about the keyboard, for any size of the buffer and any number of *)
(* keys, pages and programs: the indices of the ring stay in the array and *)
(* it implements the bounded first-in first-out queue of BoundedFifo; what *)
(* is typed for one terminal never reaches another, and keys are taken in  *)
(* order by programs of the visible page only.                             *)
(***************************************************************************)
EXTENDS Keyboard, SequenceTheorems, TLAPS

(* The ring. *)

(* head is the slot after those held: one lap, or two, may lie between. *)
HeadFollows ==
    \E laps \in 0 .. 2 :
        kb_buffer_head = kb_buffer_tail + 1 + kb_buffer_len - laps * KB_BUFFER_MAX

(* What the slots hold are scancodes, not the array's first contents. *)
HeldAreCodes == \A i \in 1 .. kb_buffer_len : kb_buffer[Slot(i)] \in Scancode

KbInv == KbTypeOK /\ HeadFollows /\ HeldAreCodes

USE KbBufferAssumption

(* The slots of different keys differ, and the free slot differs from them. *)
LEMMA SlotsDiffer ==
    ASSUME KbTypeOK, HeadFollows
    PROVE  /\ \A i \in 1 .. kb_buffer_len : Slot(i) \in 0 .. KB_BUFFER_MAX - 1
           /\ kb_buffer_len < KB_BUFFER_MAX =>
                 \A i \in 1 .. kb_buffer_len : Slot(i) # kb_buffer_head
           /\ kb_buffer_len < KB_BUFFER_MAX => Slot(kb_buffer_len + 1) = kb_buffer_head
BY DEF KbTypeOK, HeadFollows, Slot

(* Taking one key moves every other one place forward in the queue. *)
LEMMA PopShifts ==
    ASSUME KbTypeOK, kb_buffer_len # 0,
           kb_buffer_tail' = After(kb_buffer_tail)
    PROVE  /\ After(kb_buffer_tail) = Slot(1)
           /\ \A i \in 1 .. kb_buffer_len - 1 : Slot(i)' = Slot(i + 1)
BY DEF KbTypeOK, Slot, After

LEMMA KbInitInv == KbInit => KbInv
BY DEF KbInit, KbInv, KbTypeOK, HeadFollows, HeldAreCodes, Nul, NoKey

LEMMA PushInv ==
    ASSUME KbInv, NEW s \in Scancode, push_kb_buffer(s), UNCHANGED key
    PROVE  KbInv'
<1>1. CASE UNCHANGED kbvars
  BY <1>1 DEF KbInv, KbTypeOK, HeadFollows, HeldAreCodes, Slot, kbvars
<1>2. CASE /\ kb_buffer_len < KB_BUFFER_MAX
           /\ kb_buffer_len' = kb_buffer_len + 1
           /\ kb_buffer' = [kb_buffer EXCEPT ![kb_buffer_head] = s]
           /\ kb_buffer_head' = After(kb_buffer_head)
           /\ UNCHANGED kb_buffer_tail
  <2>1. KbTypeOK'
    BY <1>2 DEF KbInv, KbTypeOK, After
  <2>2. HeadFollows'
    BY <1>2 DEF KbInv, KbTypeOK, HeadFollows, After
  <2>3. \A i : Slot(i)' = Slot(i)
    BY <1>2 DEF Slot
  <2>4. \A i \in 1 .. kb_buffer_len' : kb_buffer'[Slot(i)] \in Scancode
    <3> SUFFICES ASSUME NEW i \in 1 .. kb_buffer_len' PROVE kb_buffer'[Slot(i)] \in Scancode
      OBVIOUS
    <3>1. CASE i = kb_buffer_len + 1
      BY <1>2, <3>1, SlotsDiffer DEF KbInv, KbTypeOK
    <3>2. CASE i \in 1 .. kb_buffer_len
      BY <1>2, <3>2, SlotsDiffer DEF KbInv, KbTypeOK, HeldAreCodes
    <3> QED
      BY <1>2, <3>1, <3>2 DEF KbInv, KbTypeOK
  <2> QED
    BY <2>1, <2>2, <2>3, <2>4 DEF KbInv, HeldAreCodes
<1> QED
  BY <1>1, <1>2 DEF push_kb_buffer

LEMMA PopInv == KbInv /\ pop_kb_buffer => KbInv'
<1> SUFFICES ASSUME KbInv, pop_kb_buffer PROVE KbInv'
  OBVIOUS
<1>1. CASE key' = NoKey /\ UNCHANGED kbvars
  BY <1>1 DEF KbInv, KbTypeOK, HeadFollows, HeldAreCodes, Slot, kbvars
<1>2. CASE /\ kb_buffer_len # 0
           /\ kb_buffer_len' = kb_buffer_len - 1
           /\ kb_buffer_tail' = After(kb_buffer_tail)
           /\ key' = kb_buffer[After(kb_buffer_tail)]
           /\ UNCHANGED <<kb_buffer, kb_buffer_head>>
  <2>1. /\ After(kb_buffer_tail) = Slot(1)
        /\ \A i \in 1 .. kb_buffer_len - 1 : Slot(i)' = Slot(i + 1)
    BY <1>2, PopShifts DEF KbInv
  <2>2. key' \in Scancode
    BY <1>2, <2>1 DEF KbInv, KbTypeOK, HeldAreCodes
  <2>3. KbTypeOK'
    BY <1>2, <2>2 DEF KbInv, KbTypeOK, After
  <2>4. HeadFollows'
    BY <1>2 DEF KbInv, KbTypeOK, HeadFollows, After
  <2>5. \A i \in 1 .. kb_buffer_len - 1 : kb_buffer[Slot(i + 1)] \in Scancode
    BY DEF KbInv, KbTypeOK, HeldAreCodes
  <2>6. HeldAreCodes'
    BY <1>2, <2>1, <2>5 DEF HeldAreCodes
  <2> QED
    BY <2>3, <2>4, <2>6 DEF KbInv
<1> QED
  BY <1>1, <1>2 DEF pop_kb_buffer

LEMMA ResetInv ==
    ASSUME KbInv, UNCHANGED key,
           reset_kb_buffer \/ \E s \in Scancode : reset_and_push(s)
    PROVE  KbInv'
<1>1. CASE reset_kb_buffer
  BY <1>1 DEF reset_kb_buffer, KbInv, KbTypeOK, HeadFollows, HeldAreCodes, Nul
<1>2. ASSUME NEW s \in Scancode, reset_and_push(s) PROVE KbInv'
  BY <1>2 DEF reset_and_push, KbInv, KbTypeOK, HeadFollows, HeldAreCodes, Slot, After
<1> QED
  BY <1>1, <1>2

LEMMA KbNextInv == KbInv /\ [KbNext]_<<kbvars, key>> => KbInv'
<1> SUFFICES ASSUME KbInv, [KbNext]_<<kbvars, key>> PROVE KbInv'
  OBVIOUS
<1>1. CASE UNCHANGED <<kbvars, key>>
  BY <1>1 DEF KbInv, KbTypeOK, HeadFollows, HeldAreCodes, Slot, kbvars
<1> QED
  BY <1>1, PushInv, PopInv, ResetInv DEF KbNext

(* The indices of the ring never leave the array. *)
THEOREM KbInvariance == KbSpec => []KbInv
BY KbInitInv, KbNextInv, PTL DEF KbSpec

THEOREM KbTypeCorrect == KbSpec => []KbTypeOK
<1>1. KbInv => KbTypeOK
  BY DEF KbInv
<1> QED
  BY <1>1, KbInvariance, PTL

-----------------------------------------------------------------------------
(* Each operation of the buffer does to the queue of the keys it holds what
   the abstract operation of BoundedFifo does. *)
LEMMA ContentsSeq ==
    ASSUME KbInv
    PROVE  Contents \in Seq(Scancode) /\ Len(Contents) = kb_buffer_len
BY DEF KbInv, KbTypeOK, HeldAreCodes, Contents

LEMMA PushPuts ==
    ASSUME KbInv, NEW s \in Scancode, push_kb_buffer(s) PROVE Fifo!Put(s)
<1>1. CASE kb_buffer_len >= KB_BUFFER_MAX /\ UNCHANGED kbvars
  <2>1. Contents' = Contents
    BY <1>1 DEF Contents, Slot, kbvars
  <2> QED
    BY <1>1, <2>1, ContentsSeq DEF Fifo!Put, KbInv, KbTypeOK
<1>2. CASE /\ kb_buffer_len < KB_BUFFER_MAX
           /\ kb_buffer_len' = kb_buffer_len + 1
           /\ kb_buffer' = [kb_buffer EXCEPT ![kb_buffer_head] = s]
           /\ UNCHANGED kb_buffer_tail
  <2>1. \A i : Slot(i)' = Slot(i)
    BY <1>2 DEF Slot
  <2>2. \A i \in 1 .. kb_buffer_len : kb_buffer'[Slot(i)] = kb_buffer[Slot(i)]
    BY <1>2, SlotsDiffer DEF KbInv, KbTypeOK
  <2>3. kb_buffer'[Slot(kb_buffer_len + 1)] = s
    BY <1>2, SlotsDiffer DEF KbInv, KbTypeOK
  <2>4. Contents' = [i \in 1 .. kb_buffer_len + 1 |-> kb_buffer'[Slot(i)]]
    BY <1>2, <2>1 DEF Contents
  <2>5. Contents' = Append(Contents, s)
    <3> DEFINE app == Append(Contents, s)
    <3>1. Contents = [i \in 1 .. kb_buffer_len |-> kb_buffer[Slot(i)]]
      BY DEF Contents
    <3>2. /\ app \in Seq(Scancode) /\ Len(app) = kb_buffer_len + 1
          /\ \A i \in 1 .. kb_buffer_len : app[i] = Contents[i]
          /\ app[kb_buffer_len + 1] = s
      BY ContentsSeq, AppendProperties
    <3>3. app = [i \in 1 .. kb_buffer_len + 1 |-> app[i]]
      BY <3>2, LenProperties
    <3> HIDE DEF app
    <3>4. \A i \in 1 .. kb_buffer_len + 1 : kb_buffer'[Slot(i)] = app[i]
      BY <2>2, <2>3, <3>1, <3>2 DEF KbInv, KbTypeOK
    <3>5. Contents' = app
      BY <2>4, <3>3, <3>4
    <3> QED
      BY <3>5 DEF app
  <2> QED
    BY <1>2, <2>5, ContentsSeq DEF Fifo!Put, KbInv, KbTypeOK
<1> QED
  BY <1>1, <1>2 DEF push_kb_buffer

LEMMA PopGets == ASSUME KbInv, pop_kb_buffer PROVE Fifo!Get
<1>1. CASE kb_buffer_len = 0 /\ key' = NoKey /\ UNCHANGED kbvars
  <2>1. Contents' = Contents
    BY <1>1 DEF Contents, Slot, kbvars
  <2>2. Contents = <<>>
    BY <1>1, ContentsSeq
  <2> QED
    BY <1>1, <2>1, <2>2 DEF Fifo!Get
<1>2. CASE /\ kb_buffer_len # 0
           /\ kb_buffer_len' = kb_buffer_len - 1
           /\ kb_buffer_tail' = After(kb_buffer_tail)
           /\ key' = kb_buffer[After(kb_buffer_tail)]
           /\ UNCHANGED kb_buffer
  <2>1. /\ After(kb_buffer_tail) = Slot(1)
        /\ \A i \in 1 .. kb_buffer_len - 1 : Slot(i)' = Slot(i + 1)
    BY <1>2, PopShifts DEF KbInv
  <2>2. Contents' = [i \in 1 .. kb_buffer_len - 1 |-> kb_buffer[Slot(i + 1)]]
    BY <1>2, <2>1 DEF Contents
  <2>3. Tail(Contents) = [i \in 1 .. kb_buffer_len - 1 |-> Contents[i + 1]]
    BY <1>2, ContentsSeq DEF KbInv, KbTypeOK
  <2>4. \A i \in 1 .. kb_buffer_len - 1 : Contents[i + 1] = kb_buffer[Slot(i + 1)]
    BY DEF Contents, KbInv, KbTypeOK
  <2>5. Contents' = Tail(Contents)
    BY <2>2, <2>3, <2>4
  <2>6. key' = Head(Contents) /\ Contents # <<>>
    BY <1>2, <2>1, ContentsSeq DEF Contents, KbInv, KbTypeOK
  <2> QED
    BY <2>5, <2>6 DEF Fifo!Get
<1> QED
  BY <1>1, <1>2 DEF pop_kb_buffer

LEMMA ResetClears == ASSUME KbInv, reset_kb_buffer PROVE Fifo!Clear
BY DEF reset_kb_buffer, Contents, Fifo!Clear

LEMMA ResetRestarts ==
    ASSUME KbInv, NEW s \in Scancode, reset_and_push(s) PROVE Fifo!Restart(s)
<1>1. Slot(1)' = 0
  BY DEF reset_and_push, Slot
<1>2. kb_buffer_len' = 1 /\ kb_buffer'[0] = s
  BY DEF reset_and_push, KbInv, KbTypeOK
<1>3. Contents' = [i \in 1 .. 1 |-> s]
  BY <1>1, <1>2 DEF Contents
<1> QED
  BY <1>3 DEF Fifo!Restart

(* The ring buffer is a bounded first-in first-out queue. *)
THEOREM KbRefinesFifo == KbSpec => FifoSpec
<1>1. KbInit => Fifo!Init
  BY DEF KbInit, Fifo!Init, Contents
<1>2. KbInv /\ [KbNext]_<<kbvars, key>> => [Fifo!Next]_<<Contents, key>>
  <2> SUFFICES ASSUME KbInv, [KbNext]_<<kbvars, key>>
               PROVE  [Fifo!Next]_<<Contents, key>>
    OBVIOUS
  <2>1. CASE UNCHANGED <<kbvars, key>>
    BY <2>1 DEF Contents, Slot, kbvars
  <2>2. CASE reset_kb_buffer /\ UNCHANGED key
    BY <2>2, ResetClears DEF Fifo!Next
  <2>3. CASE pop_kb_buffer
    BY <2>3, PopGets DEF Fifo!Next
  <2>4. ASSUME NEW s \in Scancode, push_kb_buffer(s) \/ reset_and_push(s), UNCHANGED key
        PROVE  Fifo!Next
    BY <2>4, PushPuts, ResetRestarts DEF Fifo!Next
  <2> QED
    BY <2>1, <2>2, <2>3, <2>4 DEF KbNext
<1> QED
  BY <1>1, <1>2, KbInvariance, PTL DEF KbSpec, FifoSpec, Fifo!Spec

-----------------------------------------------------------------------------
(* Programs and pages around the ring. *)
USE KeyboardAssumption

(* The ring as above, and what was typed into it. *)
KInv == KbInv /\ TypeOK /\ NothingLeftOver

-----------------------------------------------------------------------------
(* A key that is entered finds its slot free, and the stamps of those before
   it smaller. *)
LEMMA EnterKeepsOrder ==
    ASSUME KInv, NEW s \in Scancode, Enter(s), typed' = typed + 1, typed < MaxTyped
    PROVE  /\ NothingLeftOver'
           /\ stamp' \in [0 .. KB_BUFFER_MAX - 1 -> 0 .. typed'] /\ switched' \in 0 .. typed'
<1>1. typed \in Nat /\ typed' = typed + 1 /\ switched' = switched /\ switched \in 0 .. typed
  BY DEF Enter, KInv, TypeOK
<1>2. CASE kb_buffer_len >= KB_BUFFER_MAX
  <2>1. UNCHANGED kbvars /\ stamp' = stamp
    BY <1>2 DEF Enter, push_kb_buffer, KInv, KbInv, KbTypeOK
  <2>2. \A i : Slot(i)' = Slot(i)
    BY <2>1 DEF Slot, kbvars
  <2>3. NothingLeftOver'
    BY <2>1, <2>2, <1>1 DEF KInv, NothingLeftOver, kbvars
  <2> QED
    BY <2>1, <2>3, <1>1 DEF KInv, TypeOK
<1>3. CASE kb_buffer_len < KB_BUFFER_MAX
  <2>1. /\ kb_buffer_len' = kb_buffer_len + 1 /\ UNCHANGED kb_buffer_tail
        /\ stamp' = [stamp EXCEPT ![kb_buffer_head] = typed + 1]
    BY <1>3 DEF Enter, push_kb_buffer, KInv, KbInv, KbTypeOK
  <2>2. stamp' \in [0 .. KB_BUFFER_MAX - 1 -> 0 .. typed']
    <3>1. stamp \in [0 .. KB_BUFFER_MAX - 1 -> 0 .. typed]
      BY DEF KInv, TypeOK
    <3>2. \A n \in 0 .. typed : n \in 0 .. typed'
      BY <1>1
    <3>3. typed + 1 \in 0 .. typed'
      BY <1>1
    <3> QED
      BY <2>1, <3>1, <3>2, <3>3
  <2>3. \A i : Slot(i)' = Slot(i)
    BY <2>1 DEF Slot
  <2>4. \A i \in 1 .. kb_buffer_len : stamp'[Slot(i)] = stamp[Slot(i)]
    BY <1>3, <2>1, SlotsDiffer DEF KInv, KbInv, TypeOK
  <2>5. stamp'[Slot(kb_buffer_len + 1)] = typed + 1
    BY <1>3, <2>1, SlotsDiffer DEF KInv, KbInv, KbTypeOK, TypeOK
  <2>6. \A i \in 1 .. kb_buffer_len : stamp[Slot(i)] \in 0 .. typed
    BY SlotsDiffer DEF KInv, KbInv, TypeOK
  <2>7. kb_buffer_len \in Nat
    BY DEF KInv, KbInv, KbTypeOK
  <2>8. \A i \in 1 .. kb_buffer_len' : stamp'[Slot(i)] >= switched
    BY <2>1, <2>4, <2>5, <2>7, <1>1 DEF KInv, NothingLeftOver
  <2>9. ASSUME NEW i \in 1 .. kb_buffer_len', i > 1
        PROVE  stamp'[Slot(i)] > stamp'[Slot(i - 1)]
    <3>1. CASE i = kb_buffer_len + 1
      <4>1. i - 1 \in 1 .. kb_buffer_len
        BY <2>7, <2>9, <3>1
      <4>2. stamp'[Slot(i - 1)] \in 0 .. typed
        BY <4>1, <2>4, <2>6
      <4> QED
        BY <3>1, <4>2, <2>5, <1>1
    <3>2. CASE i \in 1 .. kb_buffer_len
      <4>1. i - 1 \in 1 .. kb_buffer_len
        BY <2>7, <2>9, <3>2
      <4> QED
        BY <3>2, <4>1, <2>4, <2>9 DEF KInv, NothingLeftOver
    <3> QED
      BY <2>1, <2>7, <3>1, <3>2
  <2> QED
    BY <2>2, <2>3, <2>8, <2>9, <1>1 DEF NothingLeftOver
<1> QED
  BY <1>2, <1>3 DEF KInv, KbInv, KbTypeOK

(* A change of the page leaves one key in the buffer, the newest. *)
LEMMA SwitchKeepsOrder ==
    ASSUME KInv, NEW s \in Scancode, NEW p \in Pages, SwitchPage(s, p), typed' = typed + 1
    PROVE  /\ NothingLeftOver'
           /\ stamp' \in [0 .. KB_BUFFER_MAX - 1 -> 0 .. typed'] /\ switched' \in 0 .. typed'
<1>1. typed \in Nat /\ switched' = typed + 1
  BY DEF SwitchPage, KInv, TypeOK
<1>2. kb_buffer_len' = 1 /\ Slot(1)' = 0
  BY DEF SwitchPage, reset_and_push, Slot
<1>3. stamp' \in [0 .. KB_BUFFER_MAX - 1 -> 0 .. typed'] /\ stamp'[0] = typed + 1
  BY <1>1 DEF SwitchPage, KInv, TypeOK
<1> QED
  BY <1>1, <1>2, <1>3 DEF NothingLeftOver

(* Taking the oldest key keeps the order of the others. *)
LEMMA PopKeepsOrder ==
    ASSUME KInv, pop_kb_buffer, UNCHANGED <<stamp, switched>>
    PROVE  NothingLeftOver'
<1>1. CASE UNCHANGED kbvars
  BY <1>1 DEF KInv, NothingLeftOver, Slot, kbvars
<1>2. CASE /\ kb_buffer_len # 0
           /\ kb_buffer_len' = kb_buffer_len - 1
           /\ kb_buffer_tail' = After(kb_buffer_tail)
  <2>1. \A i \in 1 .. kb_buffer_len - 1 : Slot(i)' = Slot(i + 1)
    BY <1>2, PopShifts DEF KInv, KbInv
  <2>2. kb_buffer_len \in Nat
    BY DEF KInv, KbInv, KbTypeOK
  <2>3. \A i \in 1 .. kb_buffer_len' : stamp'[Slot(i)'] = stamp[Slot(i + 1)]
    BY <1>2, <2>1
  <2>4. ASSUME NEW i \in 1 .. kb_buffer_len'
        PROVE  /\ stamp[Slot(i + 1)] >= switched
               /\ i > 1 => stamp[Slot(i + 1)] > stamp[Slot(i)]
    <3>1. i + 1 \in 1 .. kb_buffer_len /\ i + 1 > 1 /\ (i + 1) - 1 = i
      BY <1>2, <2>2
    <3> QED
      BY <3>1 DEF KInv, NothingLeftOver
  <2>5. ASSUME NEW i \in 1 .. kb_buffer_len', i > 1
        PROVE  stamp'[Slot(i - 1)'] = stamp[Slot(i)]
    <3>1. i - 1 \in 1 .. kb_buffer_len' /\ (i - 1) + 1 = i
      BY <1>2, <2>2, <2>5
    <3> QED
      BY <3>1, <2>3
  <2> QED
    BY <2>3, <2>4, <2>5 DEF NothingLeftOver
<1> QED
  BY <1>1, <1>2 DEF pop_kb_buffer

-----------------------------------------------------------------------------
LEMMA InitKInv == Init => KInv
<1> SUFFICES ASSUME Init PROVE KInv
  OBVIOUS
<1>1. KbInv
  BY KbInitInv DEF Init
<1>2. kb_buffer_len = 0
  BY DEF Init, KbInit
<1>3. ctrl \in BOOLEAN /\ alt \in BOOLEAN
  BY ZenonT(10) DEF Init
<1>4. TypeOK
  BY <1>1, <1>3 DEF Init, TypeOK, KbInv
<1> QED
  BY <1>1, <1>2, <1>4 DEF KInv, NothingLeftOver

(* The slots and the stamps stay as they are: a released key, a program of
   another page, a stutter. *)
LEMMA KeepsBuffer ==
    ASSUME KInv, UNCHANGED <<kbvars, typed, stamp, switched>>, key' \in Scancode \cup {NoKey}
    PROVE  /\ KbInv' /\ NothingLeftOver'
           /\ typed' \in 0 .. MaxTyped /\ switched' \in 0 .. typed'
           /\ stamp' \in [0 .. KB_BUFFER_MAX - 1 -> 0 .. typed']
<1>1. KbInv'
  BY DEF KInv, KbInv, KbTypeOK, HeadFollows, HeldAreCodes, Slot, kbvars
<1>2. NothingLeftOver'
  BY DEF KInv, NothingLeftOver, Slot, kbvars
<1> QED
  BY <1>1, <1>2 DEF KInv, TypeOK

LEMMA ReleaseKInv == ASSUME KInv, NEW s \in Scancode, Release(s) PROVE KInv'
<1>1. UNCHANGED <<kbvars, typed, stamp, switched, key, cur_video_page, eax>>
  BY DEF Release
<1>2. /\ KbInv' /\ NothingLeftOver' /\ typed' \in 0 .. MaxTyped /\ switched' \in 0 .. typed'
      /\ stamp' \in [0 .. KB_BUFFER_MAX - 1 -> 0 .. typed']
  BY <1>1, KeepsBuffer DEF KInv, KbInv, KbTypeOK
<1>3. ctrl' \in BOOLEAN /\ alt' \in BOOLEAN
  BY Zenon DEF Release
<1> QED
  BY <1>1, <1>2, <1>3 DEF KInv, KbInv, TypeOK

LEMMA PressKInv == ASSUME KInv, NEW s \in Scancode, Press(s) PROVE KInv'
<1>1. typed' = typed + 1 /\ typed < MaxTyped /\ UNCHANGED <<key, eax>>
  BY DEF Press
<1>2. ctrl' \in BOOLEAN /\ alt' \in BOOLEAN
  BY Zenon DEF Press
<1> DEFINE Kept == /\ KbInv' /\ NothingLeftOver'
                   /\ cur_video_page' \in Pages /\ switched' \in 0 .. typed'
                   /\ stamp' \in [0 .. KB_BUFFER_MAX - 1 -> 0 .. typed']
<1>3. Kept
  <2>1. ASSUME NEW p \in Selected(s), SwitchPage(s, p)
        PROVE  Kept
    <3>1. p \in Pages /\ cur_video_page' = p
      BY <2>1 DEF Selected, SwitchPage
    <3>2. KbInv'
      BY <1>1, <2>1, ResetInv DEF SwitchPage, KInv
    <3> QED
      BY <1>1, <2>1, <3>1, <3>2, SwitchKeepsOrder
  <2>2. CASE Enter(s)
    <3>1. KbInv'
      BY <1>1, <2>2, PushInv DEF Enter, KInv
    <3>2. cur_video_page' \in Pages
      BY <2>2 DEF Enter, KInv, TypeOK
    <3> QED
      BY <1>1, <2>2, <3>1, <3>2, EnterKeepsOrder
  <2>3. (\E p \in Selected(s) : SwitchPage(s, p)) \/ Enter(s)
    BY ZenonT(20) DEF Press
  <2> HIDE DEF Kept
  <2> QED
    BY <2>1, <2>2, <2>3
<1>4. typed' \in 0 .. MaxTyped
  BY <1>1 DEF KInv, TypeOK
<1> QED
  BY <1>1, <1>2, <1>3, <1>4 DEF KInv, KbInv, TypeOK

LEMMA GetKeyKInv == ASSUME KInv, NEW r \in Reader, get_key_for_syscall(r) PROVE KInv'
<1>1. UNCHANGED <<ctrl, alt, cur_video_page, typed, stamp, switched>> /\ eax' = [eax EXCEPT ![r] = key']
  BY DEF get_key_for_syscall
<1>2. KbInv' /\ NothingLeftOver'
  <2>1. CASE key' = NoKey /\ UNCHANGED kbvars
    BY <1>1, <2>1, KeepsBuffer
  <2>2. CASE pop_kb_buffer
    BY <1>1, <2>2, PopInv, PopKeepsOrder DEF KInv
  <2> QED
    BY <2>1, <2>2 DEF get_key_for_syscall
<1>3. eax' \in [Reader -> Scancode \cup {NoKey}]
  BY <1>1, <1>2 DEF KInv, KbInv, KbTypeOK, TypeOK
<1>4. ctrl' \in BOOLEAN /\ alt' \in BOOLEAN
  BY <1>1 DEF KInv, TypeOK
<1> QED
  BY <1>1, <1>2, <1>3, <1>4 DEF KInv, KbInv, TypeOK

LEMMA NextKInv == KInv /\ [Next]_vars => KInv'
<1> SUFFICES ASSUME KInv, [Next]_vars PROVE KInv'
  OBVIOUS
<1>1. CASE UNCHANGED vars
  <2>1. UNCHANGED <<kbvars, key, cur_video_page, eax, typed, stamp, switched>>
    BY <1>1 DEF vars
  <2>2. /\ KbInv' /\ NothingLeftOver' /\ typed' \in 0 .. MaxTyped /\ switched' \in 0 .. typed'
        /\ stamp' \in [0 .. KB_BUFFER_MAX - 1 -> 0 .. typed']
    BY <2>1, KeepsBuffer DEF KInv, KbInv, KbTypeOK
  <2>3. ctrl' \in BOOLEAN /\ alt' \in BOOLEAN
    BY <1>1 DEF vars, KInv, TypeOK
  <2> QED
    BY <2>1, <2>2, <2>3 DEF KInv, KbInv, TypeOK
<1> QED
  BY <1>1, PressKInv, ReleaseKInv, GetKeyKInv DEF Next, keyboard_handler

LEMMA KeyboardInvariance == Spec => []KInv
BY InitKInv, NextKInv, PTL DEF Spec

-----------------------------------------------------------------------------
(* The buffer, the pages and the answers of get_key stay what they are. *)
THEOREM KeyboardTypeCorrect == Spec => []TypeOK
<1>1. KInv => TypeOK
  BY DEF KInv
<1> QED
  BY <1>1, KeyboardInvariance, PTL

(* Nothing typed for one terminal is in the buffer once another one is shown. *)
THEOREM LeftOverTheorem == Spec => []NothingLeftOver
<1>1. KInv => NothingLeftOver
  BY DEF KInv
<1> QED
  BY <1>1, KeyboardInvariance, PTL

(* A key leaves the buffer by one way only besides a change of the page: as the
   oldest, into the answer of a program of the visible page. *)
THEOREM TakenTheorem == Spec => TakenWhereVisible
<1> DEFINE Taken ==
      kb_buffer_len' < kb_buffer_len =>
          \/ switched' # switched
          \/ /\ kb_buffer_len' = kb_buffer_len - 1
             /\ \E r \in Reader : /\ video_page[r] = cur_video_page
                                  /\ eax'[r] = kb_buffer[Slot(1)]
<1>1. KInv /\ [Next]_vars => [Taken]_vars
  <2> SUFFICES ASSUME KInv, Next, kb_buffer_len' < kb_buffer_len PROVE Taken
    BY DEF KInv
  <2>0. kb_buffer_len \in Nat
    BY DEF KInv, KbInv, KbTypeOK
  <2>1. ASSUME NEW s \in Scancode, Press(s) PROVE Taken
    <3>1. ASSUME NEW p \in Selected(s), SwitchPage(s, p) PROVE switched' # switched
      BY <3>1 DEF SwitchPage, KInv, TypeOK
    <3>2. CASE Enter(s)
      BY <2>0, <3>2 DEF Enter, push_kb_buffer, kbvars
    <3> QED
      BY <2>1, <3>1, <3>2 DEF Press
  <2>2. ASSUME NEW s \in Scancode, Release(s) PROVE FALSE
    BY <2>0, <2>2 DEF Release, kbvars
  <2>3. ASSUME NEW r \in Reader, get_key_for_syscall(r) PROVE Taken
    <3>1. video_page[r] = cur_video_page /\ pop_kb_buffer /\ eax' = [eax EXCEPT ![r] = key']
      BY <2>0, <2>3 DEF get_key_for_syscall, kbvars
    <3>2. /\ kb_buffer_len # 0 /\ kb_buffer_len' = kb_buffer_len - 1
          /\ kb_buffer_tail' = After(kb_buffer_tail) /\ key' = kb_buffer[After(kb_buffer_tail)]
      BY <2>0, <3>1 DEF pop_kb_buffer, kbvars
    <3>3. key' = kb_buffer[Slot(1)]
      BY <3>2, PopShifts DEF KInv, KbInv
    <3>4. eax'[r] = key'
      BY <3>1 DEF KInv, TypeOK
    <3> QED
      BY <3>1, <3>2, <3>3, <3>4
  <2> QED
    BY <2>1, <2>2, <2>3 DEF Next, keyboard_handler
<1> QED
  BY <1>1, KeyboardInvariance, PTL DEF Spec, TakenWhereVisible

(* With the handler, the pages and the programs around it the ring still is a
   bounded first-in first-out queue; a program of a hidden page is refused. *)
THEOREM KeyboardRefinesFifo == Spec => FifoSpec
<1>1. Init => Fifo!Init
  BY DEF Init, KbInit, Fifo!Init, Contents
<1>2. KInv /\ [Next]_vars => [Fifo!Next]_<<Contents, key>>
  <2> SUFFICES ASSUME KInv, [Next]_vars PROVE [Fifo!Next]_<<Contents, key>>
    OBVIOUS
  <2>1. UNCHANGED kbvars => UNCHANGED Contents
    BY DEF Contents, Slot, kbvars
  <2>2. ASSUME NEW s \in Scancode, Press(s) PROVE Fifo!Next
    <3>1. UNCHANGED key
      BY <2>2 DEF Press
    <3>2. (\E p \in Selected(s) : SwitchPage(s, p)) \/ Enter(s)
      BY <2>2, ZenonT(20) DEF Press
    <3>3. reset_and_push(s) \/ push_kb_buffer(s)
      BY <3>2 DEF SwitchPage, Enter
    <3> QED
      BY <3>1, <3>3, PushPuts, ResetRestarts DEF KInv, Fifo!Next
  <2>3. ASSUME NEW s \in Scancode, Release(s) PROVE UNCHANGED <<Contents, key>>
    BY <2>1, <2>3 DEF Release
  <2>4. ASSUME NEW r \in Reader, get_key_for_syscall(r) PROVE Fifo!Next
    <3>1. CASE key' = NoKey /\ UNCHANGED kbvars
      BY <2>1, <3>1 DEF Fifo!Next, Fifo!Refuse
    <3>2. CASE pop_kb_buffer
      BY <3>2, PopGets DEF KInv, Fifo!Next
    <3> QED
      BY <2>4, <3>1, <3>2 DEF get_key_for_syscall
  <2>5. CASE UNCHANGED vars
    BY <2>1, <2>5 DEF vars
  <2> QED
    BY <2>2, <2>3, <2>4, <2>5 DEF Next, keyboard_handler
<1> QED
  BY <1>1, <1>2, KeyboardInvariance, PTL DEF Spec, FifoSpec, Fifo!Spec
=============================================================================
