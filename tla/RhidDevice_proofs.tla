------------------------- MODULE RhidDevice_proofs --------------------------
(***************************************************************************)
(* Proofs about RhidDevice for every set of usages, queue length, number   *)
(* of reports and number of faults.                                        *)
(***************************************************************************)
EXTENDS RhidDevice, FiniteSetTheorems, TLAPS

USE DEF Blank, Garbage

(* Usages are fields other than the id byte; ids are numbers. *)
LEMMA FieldFacts ==
    /\ Usages \subseteq Fields
    /\ Buttons \subseteq Usages /\ Values \subseteq Usages
    /\ IdByte \in Fields /\ IdByte \notin Usages
    /\ ReportIds \subseteq Int /\ CallId \in Int
  BY DeviceAssumption DEF DeviceAssumption, Usages, Fields

ValueParsed == \E v \in Values : ParseValue(v)

LEMMA TypeInit == Init => TypeOK
  BY DEF Init, TypeOK, AllBlank, AllGarbage

LEMMA TypeStep == TypeOK /\ [Next]_vars => TypeOK'
  <1> SUFFICES ASSUME TypeOK, [Next]_vars PROVE TypeOK'
    OBVIOUS
  <1> USE DEF TypeOK
  <1>1. CASE DeviceSend
    <2>1. \A r \in ring' : r \in Nat
      <3>1. CASE ring' = ring
        BY <3>1
      <3>2. CASE Enqueue(sent + 1)
        BY <3>2 DEF Enqueue
      <3> QED
        BY <1>1, <3>1, <3>2 DEF DeviceSend, driver
    <2>2. copy' \in Nat /\ left' \subseteq Fields
      BY <1>1 DEF DeviceSend, driver
    <2> QED
      BY <1>1, <2>1, <2>2 DEF DeviceSend, driver, caller
  <1>2. CASE Copying
    BY <1>2, FieldFacts DEF Copying, KernelCopy, Whole, caller, device
  <1>3. CASE Unplug
    BY <1>3 DEF Unplug, Cancelled, caller
  <1>4. CASE Replug
    BY <1>4 DEF Replug, caller, driver
  <1>5. CASE PendingFails
    BY <1>5 DEF PendingFails, caller
  <1>6. CASE Opening
    BY <1>6 DEF Opening, OpenBegin, OpenFail, OpenFlush, HandleClosed, device
  <1>7. CASE OpenEnd
    BY <1>7, FieldFacts DEF OpenEnd, AllBlank, AllGarbage, Whole, driver,
       device
  <1>8. CASE Close
    BY <1>8 DEF Close, AllBlank, AllGarbage, Cancelled, HandleClosed
  <1>9. CASE ReadQueued
    BY <1>9, FieldFacts DEF ReadQueued, CanRead, Whole, device
  <1>10. CASE ReadPending
    BY <1>10, FieldFacts DEF ReadPending, CanRead, device
  <1>11. CASE ReadError
    BY <1>11, FieldFacts DEF ReadError, CanRead
  <1>12. CASE ParseButtons
    BY <1>12, FieldFacts DEF ParseButtons, driver, device
  <1>13. CASE ValueParsed
    BY <1>13, FieldFacts DEF ValueParsed, ParseValue, driver, device
  <1>14. CASE UNCHANGED vars
    BY <1>14 DEF vars
  <1> QED
    BY <1>1, <1>2, <1>3, <1>4, <1>5, <1>6, <1>7, <1>8, <1>9, <1>10, <1>11,
       <1>12, <1>13, <1>14 DEF Next, Reading, Parsing, ValueParsed

(* The caller, the driver and the device never leave their types; the      *)
(* parsing loop is on exactly while values are unread.                     *)
THEOREM TypeCorrect == Spec => []TypeOK
  BY TypeInit, TypeStep, PTL DEF Spec

LEMMA OneReadOutstandingStep ==
    ASSUME TypeOK, TypeOK', [Next]_vars, OneReadOutstanding, OpeningIsClosed
    PROVE  OneReadOutstanding'
  <1> USE FieldFacts DEF TypeOK, OneReadOutstanding, OpeningIsClosed
  <1>1. CASE DeviceSend
    BY <1>1 DEF DeviceSend, Enqueue, driver, caller
  <1>2. CASE Copying
    BY <1>2 DEF Copying, KernelCopy, Whole, caller, device
  <1>3. CASE OpenEnd
    BY <1>3 DEF OpenEnd, AllBlank, AllGarbage, Whole, driver, device
  <1>4. CASE Close
    BY <1>4 DEF Close, AllBlank, AllGarbage, Cancelled, HandleClosed
  <1>5. CASE ReadQueued
    BY <1>5 DEF ReadQueued, CanRead, Whole, device
  <1>6. CASE ReadPending
    BY <1>6 DEF ReadPending, CanRead, device
  <1>7. CASE ReadError
    BY <1>7 DEF ReadError, CanRead
  <1>8. CASE Unplug \/ Replug \/ PendingFails \/ Opening \/
            ParseButtons \/ ValueParsed \/ UNCHANGED vars
    BY <1>8 DEF Unplug, Cancelled, caller, Replug, driver, PendingFails,
       Opening, OpenBegin, OpenFail, OpenFlush, HandleClosed, ParseButtons,
       device, ValueParsed, ParseValue, vars
  <1> QED
    BY <1>1, <1>2, <1>3, <1>4, <1>5, <1>6, <1>7, <1>8 DEF Next, Reading,
       Parsing, ValueParsed

LEMMA OpeningIsClosedStep ==
    ASSUME TypeOK, TypeOK', [Next]_vars, OpeningIsClosed
    PROVE  OpeningIsClosed'
  <1> USE FieldFacts DEF TypeOK, OpeningIsClosed
  <1>1. CASE Opening
    BY <1>1 DEF Opening, OpenBegin, OpenFail, OpenFlush, HandleClosed, device
  <1>2. CASE OpenEnd
    BY <1>2 DEF OpenEnd, AllBlank, AllGarbage, Whole, driver, device
  <1>3. CASE DeviceSend \/ Copying \/ Unplug \/ Replug \/ PendingFails \/
            Close \/ ReadQueued \/ ReadPending \/ ReadError \/
            ParseButtons \/ ValueParsed \/ UNCHANGED vars
    BY <1>3 DEF DeviceSend, Enqueue, driver, caller, Copying, KernelCopy,
       Whole, device, Unplug, Cancelled, Replug, PendingFails,
       HandleClosed, Close, AllBlank, AllGarbage, ReadQueued, CanRead,
       ReadPending, ReadError, ParseButtons, ValueParsed, ParseValue, vars
  <1> QED
    BY <1>1, <1>2, <1>3 DEF Next, Reading, Parsing, ValueParsed

LEMMA QueueIsSentStep ==
    ASSUME TypeOK, TypeOK', [Next]_vars, QueueIsSent
    PROVE  QueueIsSent'
  <1> USE FieldFacts DEF TypeOK, QueueIsSent
  <1>1. CASE DeviceSend
    BY <1>1 DEF DeviceSend, Enqueue, driver, caller
  <1>2. CASE ReadQueued
    BY <1>2 DEF ReadQueued, CanRead, Whole, device
  <1>3. CASE Copying \/ Unplug \/ Replug \/ PendingFails \/ OpenEnd \/ Close \/
             ReadPending \/ ReadError \/ ParseButtons \/ ValueParsed \/
             UNCHANGED vars
    BY <1>3 DEF Copying, KernelCopy, Whole, caller, device, Unplug,
       Cancelled, Replug, driver, PendingFails,
       HandleClosed, OpenEnd, AllBlank, AllGarbage, Close, ReadPending,
       CanRead, ReadError, ParseButtons, ValueParsed, ParseValue, vars
  <1>4. CASE Opening
    BY <1>4 DEF Opening, OpenBegin, OpenFail, OpenFlush, HandleClosed, device
  <1> QED
    BY <1>1, <1>2, <1>3, <1>4 DEF Next, Reading, Parsing, ValueParsed

LEMMA PendingMeansDrainedStep ==
    ASSUME TypeOK, TypeOK', [Next]_vars, PendingMeansDrained
    PROVE  PendingMeansDrained'
  <1> USE FieldFacts DEF TypeOK, PendingMeansDrained
  <1>1. CASE DeviceSend
    BY <1>1 DEF DeviceSend, Enqueue, driver, caller
  <1>2. CASE ReadQueued
    BY <1>2 DEF ReadQueued, CanRead, Whole, device
  <1>3. CASE ReadPending
    BY <1>3 DEF ReadPending, CanRead, device
  <1>4. CASE Copying \/ Unplug \/ Replug \/ PendingFails \/ OpenEnd \/ Close \/
             ReadError \/ ParseButtons \/ ValueParsed \/ UNCHANGED vars
    BY <1>4 DEF Copying, KernelCopy, Whole, caller, device, Unplug,
       Cancelled, Replug, driver, PendingFails,
       HandleClosed, OpenEnd, AllBlank, AllGarbage, Close, ReadError,
       CanRead, ParseButtons, ValueParsed, ParseValue, vars
  <1>5. CASE Opening
    BY <1>5 DEF Opening, OpenBegin, OpenFail, OpenFlush, HandleClosed, device
  <1> QED
    BY <1>1, <1>2, <1>3, <1>4, <1>5 DEF Next, Reading, Parsing, ValueParsed

LEMMA CopyIsOldestStep ==
    ASSUME TypeOK, TypeOK', [Next]_vars, CopyIsOldest, QueueIsSent,
           PendingMeansDrained
    PROVE  CopyIsOldest'
  <1> USE FieldFacts DEF TypeOK, CopyIsOldest, QueueIsSent, PendingMeansDrained
  <1>1. CASE DeviceSend
    BY <1>1 DEF DeviceSend, Enqueue, driver, caller
  <1>2. CASE Copying
    BY <1>2 DEF Copying, KernelCopy, Whole, caller, device
  <1>3. CASE Unplug \/ Replug \/ PendingFails \/ Opening \/
            OpenEnd \/ Close \/ ReadQueued \/ ReadPending \/ ReadError \/
            ParseButtons \/ ValueParsed \/ UNCHANGED vars
    BY <1>3 DEF Unplug, Cancelled, caller, Replug, driver, PendingFails,
       Opening, OpenBegin, OpenFail, OpenFlush, HandleClosed, OpenEnd,
       AllBlank, AllGarbage, Whole, device, Close, ReadQueued, CanRead,
       ReadPending, ReadError, ParseButtons, ValueParsed, ParseValue, vars
  <1> QED
    BY <1>1, <1>2, <1>3 DEF Next, Reading, Parsing, ValueParsed

LEMMA BufferIsSentStep ==
    ASSUME TypeOK, TypeOK', [Next]_vars, BufferIsSent, QueueIsSent,
           CopyIsOldest
    PROVE  BufferIsSent'
  <1> USE FieldFacts DEF TypeOK, BufferIsSent, QueueIsSent, CopyIsOldest
  <1>1. CASE DeviceSend
    BY <1>1 DEF DeviceSend, Enqueue, driver, caller
  <1>2. CASE Copying
    BY <1>2 DEF Copying, KernelCopy, Whole, caller, device
  <1>3. CASE OpenEnd
    BY <1>3 DEF OpenEnd, AllBlank, AllGarbage, Whole, driver, device
  <1>4. CASE Close
    BY <1>4 DEF Close, AllBlank, AllGarbage, Cancelled, HandleClosed
  <1>5. CASE ReadQueued
    BY <1>5 DEF ReadQueued, CanRead, Whole, device
  <1>6. CASE Unplug \/ Replug \/ PendingFails \/ Opening \/
            ReadPending \/ ReadError \/ ParseButtons \/ ValueParsed \/
            UNCHANGED vars
    BY <1>6 DEF Unplug, Cancelled, caller, Replug, driver, PendingFails,
       Opening, OpenBegin, OpenFail, OpenFlush, HandleClosed, ReadPending,
       CanRead, device, ReadError, ParseButtons, ValueParsed, ParseValue, vars
  <1> QED
    BY <1>1, <1>2, <1>3, <1>4, <1>5, <1>6 DEF Next, Reading, Parsing,
       ValueParsed

LEMMA BufferBeforeQueueStep ==
    ASSUME TypeOK, TypeOK', [Next]_vars, BufferBeforeQueue, BufferIsSent,
           OneReadOutstanding, CopyIsOldest
    PROVE  BufferBeforeQueue'
  <1> USE FieldFacts
      DEF TypeOK, BufferBeforeQueue, BufferIsSent, OneReadOutstanding,
          CopyIsOldest, Begun
  <1>1. CASE DeviceSend
    BY <1>1 DEF DeviceSend, Enqueue, driver, caller
  <1>2. CASE Copying
    BY <1>2 DEF Copying, KernelCopy, Whole, caller, device
  <1>3. CASE OpenEnd
    BY <1>3 DEF OpenEnd, AllBlank, AllGarbage, Whole, driver, device
  <1>4. CASE Close
    BY <1>4 DEF Close, AllBlank, AllGarbage, Cancelled, HandleClosed
  <1>5. CASE ReadQueued
    BY <1>5 DEF ReadQueued, CanRead, Whole, device
  <1>6. CASE ReadPending
    BY <1>6 DEF ReadPending, CanRead, device
  <1>7. CASE ReadError
    BY <1>7 DEF ReadError, CanRead
  <1>8. CASE ParseButtons
    BY <1>8 DEF ParseButtons, driver, device
  <1>9. CASE ValueParsed
    BY <1>9 DEF ValueParsed, ParseValue, driver, device
  <1>10. CASE Unplug \/ Replug \/ PendingFails \/ Opening \/
            UNCHANGED vars
    BY <1>10 DEF Unplug, Cancelled, caller, Replug, driver, PendingFails,
       Opening, OpenBegin, OpenFail, OpenFlush, HandleClosed, vars
  <1> QED
    BY <1>1, <1>2, <1>3, <1>4, <1>5, <1>6, <1>7, <1>8, <1>9, <1>10 DEF
       Next, Reading, Parsing, ValueParsed

LEMMA ShownBehindBufferStep ==
    ASSUME TypeOK, TypeOK', [Next]_vars, ShownBehindBuffer,
           BufferBeforeQueue, BufferIsSent, OneReadOutstanding,
           CopyIsOldest
    PROVE  ShownBehindBuffer'
  <1> USE FieldFacts
      DEF TypeOK, ShownBehindBuffer, BufferBeforeQueue, BufferIsSent,
          OneReadOutstanding, CopyIsOldest, Begun
  <1>1. CASE Copying
    BY <1>1 DEF Copying, KernelCopy, Whole, caller, device
  <1>2. CASE OpenEnd
    BY <1>2 DEF OpenEnd, AllBlank, AllGarbage, Whole, driver, device
  <1>3. CASE Close
    BY <1>3 DEF Close, AllBlank, AllGarbage, Cancelled, HandleClosed
  <1>4. CASE ReadQueued
    BY <1>4 DEF ReadQueued, CanRead, Whole, device
  <1>5. CASE ParseButtons
    BY <1>5 DEF ParseButtons, driver, device
  <1>6. CASE ValueParsed
    BY <1>6 DEF ValueParsed, ParseValue, driver, device
  <1>7. CASE DeviceSend \/ Unplug \/ Replug \/ PendingFails \/ Opening \/
             ReadPending \/ ReadError \/ UNCHANGED vars
    BY <1>7 DEF DeviceSend, Enqueue, driver, caller, Unplug, Cancelled, Replug,
       PendingFails, Opening, OpenBegin, OpenFail, OpenFlush, HandleClosed,
       ReadPending, CanRead, device, ReadError, vars
  <1> QED
    BY <1>1, <1>2, <1>3, <1>4, <1>5, <1>6, <1>7 DEF Next, Reading,
       Parsing, ValueParsed

LEMMA InvInit == Init => IInv
  <1> SUFFICES ASSUME Init PROVE IInv
    OBVIOUS
  <1>1. OneReadOutstanding /\ OpeningIsClosed /\ PendingMeansDrained
    BY DEF Init, OneReadOutstanding, OpeningIsClosed, PendingMeansDrained
  <1>2. QueueIsSent /\ CopyIsOldest
    BY DEF Init, QueueIsSent, CopyIsOldest
  <1>3. BufferIsSent /\ ShownBehindBuffer
    BY FieldFacts
    DEF Init, BufferIsSent, ShownBehindBuffer, AllBlank, AllGarbage
  <1>4. BufferBeforeQueue
    BY DEF Init, BufferBeforeQueue
  <1> QED
    BY TypeInit, <1>1, <1>2, <1>3, <1>4 DEF IInv

(* The conjuncts of IInv are preserved together. *)
LEMMA InvStep == IInv /\ [Next]_vars => IInv'
  <1> SUFFICES ASSUME IInv, [Next]_vars PROVE IInv'
    OBVIOUS
  <1>1. TypeOK'
    BY TypeStep DEF IInv
  <1> QED
    BY <1>1, OneReadOutstandingStep, OpeningIsClosedStep, QueueIsSentStep,
       PendingMeansDrainedStep, CopyIsOldestStep, BufferIsSentStep,
       BufferBeforeQueueStep, ShownBehindBufferStep DEF IInv

(* The strengthening holds in every reachable state. *)
THEOREM Invariance == Spec => []IInv
  BY InvInit, InvStep, PTL DEF Spec

(* The driver never holds the global OVERLAPPED, or a buffer, of a device  *)
(* that is closed or that does not know it is reading (rhid_read_report,   *)
(* rhid_close).                                                            *)
THEOREM OneReadAtATime == Spec => []OneReadOutstanding
  BY Invariance, PTL DEF IInv

LEMMA StreamInit == Init => Stream!Init
  BY DEF Init, Stream!Init, Stream!Nothing, AllBlank

(* Every step of the device, the driver and rhid_win.c is a step of        *)
(* ReportStream or leaves the view alone.                                  *)
LEMMA StreamStep ==
    ASSUME IInv, IInv', [Next]_vars
    PROVE  [Stream!Next]_(Stream!vars)
  <1> USE DEF Stream!Next, Stream!vars
  <1>1. CASE DeviceSend
    BY <1>1 DEF DeviceSend, caller, Stream!Send
  <1>2. CASE OpenEnd \/ Close
    BY <1>2 DEF OpenEnd, Close, device, AllBlank, Stream!Reset, Stream!Nothing
  <1>3. CASE ParseButtons
    <2>1. shown' \in [Usages -> Int] /\ sent' = sent
      BY <1>3 DEF IInv, TypeOK, ParseButtons, device
    <2>2. ASSUME NEW u \in Usages
          PROVE  shown[u] <= shown'[u] /\ shown'[u] <= sent
      BY <1>3, FieldFacts
      DEF IInv, TypeOK, ParseButtons, BufferIsSent, ShownBehindBuffer
    <2> QED
      BY <2>1, <2>2 DEF Stream!Show
  <1>4. CASE ValueParsed
    <2>1. shown' \in [Usages -> Int] /\ sent' = sent
      BY <1>4 DEF IInv, TypeOK, ValueParsed, ParseValue, device
    <2>2. ASSUME NEW u \in Usages
          PROVE  shown[u] <= shown'[u] /\ shown'[u] <= sent
      BY <1>4, FieldFacts
      DEF IInv, TypeOK, ValueParsed, ParseValue, BufferIsSent,
          ShownBehindBuffer
    <2> QED
      BY <2>1, <2>2 DEF Stream!Show
  <1>5. CASE Copying \/ Unplug \/ Replug \/ PendingFails \/ Opening \/
             ReadQueued \/ ReadPending \/ ReadError \/ UNCHANGED vars
    BY <1>5 DEF Copying, KernelCopy, Unplug, Replug, PendingFails, Opening,
       OpenBegin, OpenFail, OpenFlush, ReadQueued, ReadPending, ReadError,
       caller, device, vars
  <1> QED
    BY <1>1, <1>2, <1>3, <1>4, <1>5 DEF Next, Reading, Parsing, ValueParsed

(* The view rhid_win.c offers never goes back in a session and never       *)
(* runs ahead of the device: RhidDevice implements ReportStream.           *)
THEOREM ImplementsStream == Spec => StreamSpec
  BY StreamInit, StreamStep, Invariance, PTL
  DEF Spec, StreamSpec, Stream!Spec

-----------------------------------------------------------------------------
(* TornOnceAtMost *)

(* A set of at most two elements, named or not.                            *)
LEMMA PairCardinality ==
    ASSUME NEW a, NEW b, NEW S, S \subseteq {a, b}
    PROVE  Cardinality(S) <= 2
  <1>1. IsFiniteSet({a}) /\ Cardinality({a}) = 1
    BY FS_Singleton
  <1>2. IsFiniteSet({a} \cup {b}) /\ Cardinality({a} \cup {b}) <= 2
    BY <1>1, FS_AddElement
  <1>3. {a} \cup {b} = {a, b}
    OBVIOUS
  <1>4. Cardinality(S) <= Cardinality({a, b}) /\ IsFiniteSet(S)
    BY <1>2, <1>3, FS_Subset
  <1>5. Cardinality(S) \in Nat /\ Cardinality({a, b}) \in Nat
    BY <1>2, <1>3, <1>4, FS_CardinalityType
  <1> QED
    BY <1>2, <1>3, <1>4, <1>5

LEMMA IdHoldsStep ==
    ASSUME TypeOK, IdHolds, [Next]_vars
    PROVE  IdHolds'
  <1> USE FieldFacts DEF TypeOK, IdHolds
  <1>1. CASE Copying
    BY <1>1 DEF Copying, KernelCopy, Whole, caller, device
  <1>2. CASE ParseButtons
    BY <1>2 DEF ParseButtons, device
  <1>3. CASE ValueParsed
    BY <1>3 DEF ValueParsed, ParseValue, device
  <1>4. CASE Opening \/ OpenEnd \/ Close
    BY <1>4 DEF Opening, OpenBegin, OpenFail, OpenFlush, OpenEnd, Close
  <1>5. CASE ReadQueued \/ ReadPending \/ ReadError
    BY <1>5 DEF ReadQueued, ReadPending, ReadError, CanRead
  <1>6. CASE DeviceSend \/ Unplug \/ Replug \/ PendingFails \/ UNCHANGED vars
    BY <1>6 DEF DeviceSend, Unplug, Replug, PendingFails, caller, vars
  <1> QED
    BY <1>1, <1>2, <1>3, <1>4, <1>5, <1>6 DEF Next, Reading, Parsing,
       ValueParsed

(* The two reports of BufferOfTwo, named.                                  *)
TwoAre(old, new) ==
    /\ \A u \in Usages :
          report[u] = IF ovl = "copying" /\ u \in left THEN old ELSE new
    /\ ovl = "copying" => new = copy
    /\ ovl = "pending" => old = new
    /\ pc = "values" => \A u \in Usages \ unread : shown[u] \in {old, new}

LEMMA BufferOfTwoStep ==
    ASSUME TypeOK, TypeOK', OneReadOutstanding, OpeningIsClosed, IdHolds,
           BufferOfTwo, [Next]_vars
    PROVE  BufferOfTwo'
  <1>1. PICK old \in Int, new \in Int : TwoAre(old, new)
    BY DEF BufferOfTwo, TwoAre
  <1>2. SUFFICES \E o \in Int, n \in Int : TwoAre(o, n)'
    BY DEF BufferOfTwo, TwoAre
  <1> USE FieldFacts DEF TypeOK, TwoAre
  <1>3. CASE DeviceSend
    <2>1. CASE plug = "live" /\ ovl = "pending"
      <3>1. PICK n \in Int : n = copy'
        OBVIOUS
      <3>2. /\ ovl' = "copying" /\ left' = Fields
            /\ UNCHANGED <<report, shown, unread, pc>>
        BY <1>3, <2>1 DEF DeviceSend, caller
      <3>3. \A u \in Usages : report'[u] = old
        BY <1>1, <2>1, <3>2
      <3>4. pc' = "values" => \A u \in Usages \ unread' : shown'[u] = old
        BY <1>1, <2>1, <3>2
      <3>5. TwoAre(old, n)'
        BY <3>1, <3>2, <3>3, <3>4
      <3> QED
        BY <3>5
    <2>2. CASE ~(plug = "live" /\ ovl = "pending")
      <3>1. TwoAre(old, new)'
        BY <1>1, <1>3, <2>2 DEF DeviceSend, driver, caller
      <3> QED
        BY <3>1
    <2> QED
      BY <2>1, <2>2
  <1>4. CASE Copying
    <2>1. TwoAre(old, new)'
      BY <1>1, <1>4 DEF Copying, KernelCopy, Whole, caller
    <2> QED
      BY <2>1
  <1>5. CASE Unplug \/ PendingFails \/ Replug \/ UNCHANGED vars
    <2>1. TwoAre(old, new)'
      BY <1>1, <1>5 DEF Unplug, PendingFails, Replug, Cancelled, caller, driver,
         vars
    <2> QED
      BY <2>1
  <1>6. CASE Opening
    <2>1. TwoAre(old, new)'
      BY <1>1, <1>6 DEF Opening, OpenBegin, OpenFail, OpenFlush
    <2> QED
      BY <2>1
  <1>7. CASE OpenEnd
    <2>1. ovl \notin {"pending", "copying"}
      BY <1>7 DEF OpenEnd, OneReadOutstanding, OpeningIsClosed
    <2>2. TwoAre(sent, sent)' \/ TwoAre(Garbage, Garbage)'
      BY <1>7, <2>1 DEF OpenEnd, Whole, AllGarbage, driver, device
    <2> QED
      BY <2>2
  <1>8. CASE Close
    <2>1. TwoAre(Garbage, Garbage)'
      BY <1>8 DEF Close, AllGarbage, Cancelled
    <2> QED
      BY <2>1
  <1>9. CASE ReadQueued
    <2>1. PICK r \in ring : report' = Whole(r)
      BY <1>9 DEF ReadQueued
    <2>2. TwoAre(r, r)'
      BY <1>9, <2>1 DEF ReadQueued, Whole
    <2> QED
      BY <2>1, <2>2
  <1>10. CASE ReadPending \/ ReadError
    <2>1. ovl # "copying" /\ pc = "idle"
      BY <1>10 DEF ReadPending, ReadError, CanRead, OneReadOutstanding
    <2>2. TwoAre(new, new)'
      BY <1>1, <1>10, <2>1 DEF ReadPending, ReadError
    <2> QED
      BY <2>2
  <1>11. CASE ParseButtons
    <2>1. UNCHANGED <<report, ovl, copy, left>>
      BY <1>11 DEF ParseButtons, driver
    <2>2. ASSUME pc' = "values", NEW u \in Usages \ unread'
          PROVE  shown'[u] = report[u]
      BY <1>11, <2>2 DEF ParseButtons, Usages
    <2>3. TwoAre(old, new)'
      BY <1>1, <2>1, <2>2
    <2> QED
      BY <2>3
  <1>12. CASE ValueParsed
    <2>1. UNCHANGED <<report, ovl, copy, left>>
      BY <1>12 DEF ValueParsed, ParseValue, driver
    <2>2. PICK v \in Values : ParseValue(v)
      BY <1>12 DEF ValueParsed
    <2>3. ASSUME NEW u \in Usages \ unread'
          PROVE  shown'[u] \in {old, new}
      <3>1. CASE u = v
        BY <1>1, <2>2, <3>1, IdHolds DEF ParseValue, IdHolds
      <3>2. CASE u # v
        BY <1>1, <2>2, <3>2 DEF ParseValue
      <3> QED
        BY <3>1, <3>2
    <2>4. TwoAre(old, new)'
      BY <1>1, <2>1, <2>3
    <2> QED
      BY <2>4
  <1> QED
    BY <1>3, <1>4, <1>5, <1>6, <1>7, <1>8, <1>9, <1>10, <1>11, <1>12
    DEF Next, Reading, Parsing, ValueParsed

(* The last value parsed completes a view of the two.                      *)
LEMMA ViewOfTwoStep ==
    ASSUME TypeOK, TypeOK', IdHolds, BufferOfTwo, ViewOfTwo, [Next]_vars
    PROVE  ViewOfTwo'
  <1>1. PICK old \in Int, new \in Int : TwoAre(old, new)
    BY DEF BufferOfTwo, TwoAre
  <1> USE FieldFacts DEF TypeOK, ViewOfTwo
  <1>2. CASE OpenEnd \/ Close
    BY <1>2 DEF OpenEnd, Close, AllBlank
  <1>3. CASE ParseButtons
    <2>1. CASE pc' = "idle" /\ report[IdByte] = dev_id
      <3>1. Usages = Buttons
        BY <1>3, <2>1 DEF ParseButtons, Usages
      <3>2. \A u \in Usages : shown'[u] \in {old, new}
        BY <1>1, <1>3, <2>1, <3>1 DEF ParseButtons, TwoAre
      <3> QED
        BY <3>2
    <2>2. CASE report[IdByte] # dev_id
      BY <1>3, <2>2 DEF ParseButtons
    <2> QED
      BY <1>3, <2>1, <2>2 DEF ParseButtons
  <1>4. CASE ValueParsed
    <2>1. PICK v \in Values : ParseValue(v)
      BY <1>4 DEF ValueParsed
    <2>2. CASE unread' = {}
      <3>1. \A u \in Usages : u = v \/ u \in Usages \ unread
        BY <2>1, <2>2 DEF ParseValue
      <3>2. shown' = [shown EXCEPT ![v] = report[v]] /\ pc = "values"
        BY <2>1 DEF ParseValue, IdHolds
      <3>3. \A u \in Usages : shown'[u] \in {old, new}
        BY <1>1, <3>1, <3>2 DEF TwoAre
      <3> QED
        BY <3>3
    <2>3. CASE unread' # {}
      BY <2>1, <2>3 DEF ParseValue
    <2> QED
      BY <2>2, <2>3
  <1>5. CASE Opening \/ Reading
    BY <1>5 DEF Opening, OpenBegin, OpenFail, OpenFlush, Reading, ReadQueued,
       ReadPending, ReadError, CanRead
  <1>6. CASE DeviceSend \/ Copying \/ Unplug \/ Replug \/ PendingFails
             \/ UNCHANGED vars
    BY <1>6 DEF DeviceSend, Copying, KernelCopy, Unplug, Replug, PendingFails,
       caller, vars
  <1> QED
    BY <1>2, <1>3, <1>4, <1>5, <1>6 DEF Next, Parsing, ValueParsed

LEMMA TornInit == Init => TornInv
  <1> SUFFICES ASSUME Init PROVE TornInv
    OBVIOUS
  <1> USE FieldFacts DEF Init
  <1>1. IdHolds
    BY DEF IdHolds
  <1>2. TwoAre(Garbage, Garbage)
    BY DEF TwoAre, AllGarbage
  <1>3. BufferOfTwo
    BY <1>2 DEF BufferOfTwo, TwoAre
  <1>4. ViewOfTwo
    BY DEF ViewOfTwo, AllBlank
  <1> QED
    BY <1>1, <1>3, <1>4 DEF TornInv

LEMMA TornStep == IInv /\ IInv' /\ TornInv /\ [Next]_vars => TornInv'
  BY IdHoldsStep, BufferOfTwoStep, ViewOfTwoStep DEF IInv, TornInv

(* A finished rhid_report shows parts of two reports at most, for any      *)
(* number of buttons and values and wherever the driver's copy meets the   *)
(* parsing.                                                                *)
THEOREM TwoReportsAtMost == Spec => []TornOnceAtMost
  <1>1. TypeOK /\ TornInv => TornOnceAtMost
    <2> SUFFICES ASSUME TypeOK, TornInv, pc = "idle"
                 PROVE  Cardinality({shown[u] : u \in Usages}) <= 2
      BY DEF TornOnceAtMost
    <2>1. PICK a \in Int, b \in Int : \A u \in Usages : shown[u] \in {a, b}
      BY DEF TornInv, ViewOfTwo
    <2> QED
      BY <2>1, PairCardinality
  <1>2. IInv => TypeOK
    BY DEF IInv
  <1> QED
    BY <1>1, <1>2, TornInit, TornStep, Invariance, PTL DEF Spec
=============================================================================
