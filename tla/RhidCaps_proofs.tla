-------------------------- MODULE RhidCaps_proofs --------------------------
(***************************************************************************)
(* Proofs about RhidCaps for every device, number of descriptors, limit of *)
(* capabilities and range of usages.                                       *)
(***************************************************************************)
EXTENDS RhidCaps, FiniteSetTheorems, TLAPS

LEMMA CapsFacts ==
    ASSUME device \in Devices
    PROVE  /\ UsageLimit \in Nat \ {0} /\ MaxButtons \in Nat
           /\ MaxCaps \in Nat /\ MaxValues \in Nat
           /\ device.values \in Nat /\ device.length \in Nat
           /\ Len(Caps) \in Nat /\ DOMAIN Caps = 1..Len(Caps)
           /\ \A n \in DOMAIN Caps :
                 /\ Caps[n].range \in BOOLEAN
                 /\ Caps[n].min \in Nat /\ Caps[n].max \in Nat
                 /\ 0 < Caps[n].min /\ Caps[n].min <= Caps[n].max
                 /\ Caps[n].max < UsageLimit
                 /\ ~Caps[n].range => Caps[n].min = Caps[n].max
  <1> USE CapsAssumption DEF CapsAssumption, Caps
  <1>1. Caps \in Seq(CapRecords)
    OBVIOUS
  <1>2. Len(Caps) \in Nat /\ DOMAIN Caps = 1..Len(Caps)
    BY <1>1
  <1>3. ASSUME NEW n \in DOMAIN Caps
        PROVE  Caps[n] \in CapRecords
    BY <1>1, <1>2, <1>3
  <1> QED
    BY <1>2, <1>3 DEF CapRecords

-----------------------------------------------------------------------------
(* The reference: positions in the order of the capabilities               *)

LEMMA ButtonFacts ==
    ASSUME device \in Devices
    PROVE  /\ \A b \in Buttons :
                 /\ b = <<b[1], b[2]>> /\ b[1] \in DOMAIN Caps
                 /\ b[1] \in 1..Len(Caps) /\ b[2] \in Nat /\ b[2] > 0
                 /\ Caps[b[1]].min <= b[2] /\ b[2] <= Caps[b[1]].max
                 /\ b[2] \in Usages
           /\ \A n \in DOMAIN Caps : \A v \in Nat :
                 Caps[n].min <= v /\ v <= Caps[n].max => <<n, v>> \in Buttons
           /\ \A v \in Usages : v \in Nat /\ v > 0 /\ v < UsageLimit
                                /\ \E b \in Buttons : b[2] = v
  <1> USE CapsFacts
  <1>1. \A n \in DOMAIN Caps : \A v \in Nat :
           Caps[n].min <= v /\ v <= Caps[n].max =>
              v \in Usages /\ <<n, v>> \in Buttons
    BY DEF Buttons, Usages
  <1>2. ASSUME NEW b \in Buttons
        PROVE  /\ b = <<b[1], b[2]>> /\ b[1] \in DOMAIN Caps
               /\ b[1] \in 1..Len(Caps) /\ b[2] \in Nat /\ b[2] > 0
               /\ Caps[b[1]].min <= b[2] /\ b[2] <= Caps[b[1]].max
               /\ b[2] \in Usages
    BY DEF Buttons
  <1>3. ASSUME NEW v \in Usages
        PROVE  /\ v \in Nat /\ v > 0 /\ v < UsageLimit
               /\ \E b \in Buttons : b[2] = v
    <2>1. PICK n \in DOMAIN Caps : v \in Caps[n].min..Caps[n].max
      BY DEF Usages
    <2>2. v \in Nat /\ v > 0 /\ v < UsageLimit
      BY <2>1
    <2>3. <<n, v>> \in Buttons /\ <<n, v>>[2] = v
      BY <1>1, <2>1, <2>2
    <2> QED
      BY <2>2, <2>3
  <1> QED
    BY <1>1, <1>2, <1>3

(* The order of the buttons is total.                                      *)
LEMMA BeforeIsTotal ==
    ASSUME device \in Devices, NEW a \in Buttons, NEW b \in Buttons
    PROVE  /\ a = b \/ Before(a, b) \/ Before(b, a)
           /\ ~(Before(a, b) /\ Before(b, a)) /\ ~Before(a, a)
           /\ \A c \in Buttons : Before(a, b) /\ Before(b, c) => Before(a, c)
  <1>1. \A c \in Buttons : /\ c = <<c[1], c[2]>>
                            /\ c[1] \in Int /\ c[2] \in Int
    BY ButtonFacts, CapsFacts
  <1>2. a[1] = b[1] /\ a[2] = b[2] => a = b
    BY <1>1
  <1>3. a = b \/ Before(a, b) \/ Before(b, a)
    BY <1>1, <1>2 DEF Before
  <1> QED
    BY <1>1, <1>3 DEF Before

Ahead(b)  == {a \in Buttons : Before(a, b)}
Ranges(n) == {m \in DOMAIN Caps : m < n /\ Caps[m].range}

LEMMA NumberIsSum ==
    ASSUME NEW b
    PROVE  Number(b) = Cardinality(Ahead(b)) + Cardinality(Ranges(b[1]))
  BY DEF Number, Ahead, Ranges

LEMMA ReferenceIsFinite ==
    ASSUME device \in Devices
    PROVE  /\ \A b : IsFiniteSet(Ahead(b)) /\ Cardinality(Ahead(b)) \in Nat
           /\ \A n : IsFiniteSet(Ranges(n)) /\ Cardinality(Ranges(n)) \in Nat
           /\ \A b : Number(b) \in Nat
  <1>1. IsFiniteSet(1..Len(Caps)) /\ IsFiniteSet(0..UsageLimit)
    <2>1. Len(Caps) \in Int /\ UsageLimit \in Int
      BY CapsFacts
    <2> QED
      BY <2>1, FS_Interval
  <1>2. IsFiniteSet((1..Len(Caps)) \X (0..UsageLimit))
    BY <1>1, FS_Product
  <1>3. Buttons \subseteq (1..Len(Caps)) \X (0..UsageLimit)
    BY ButtonFacts, CapsFacts
  <1>4. ASSUME NEW b
        PROVE  IsFiniteSet(Ahead(b)) /\ Cardinality(Ahead(b)) \in Nat
    <2>1. Ahead(b) \in SUBSET ((1..Len(Caps)) \X (0..UsageLimit))
      BY <1>3 DEF Ahead
    <2> QED
      BY <1>2, <2>1, FS_Subset, FS_CardinalityType
  <1>5. ASSUME NEW n
        PROVE  IsFiniteSet(Ranges(n)) /\ Cardinality(Ranges(n)) \in Nat
    <2>1. Ranges(n) \in SUBSET (1..Len(Caps))
      BY DEF Ranges
    <2> QED
      BY <1>1, <2>1, FS_Subset, FS_CardinalityType
  <1> QED
    BY <1>4, <1>5, NumberIsSum

(* A button that comes later has a greater number.                         *)
LEMMA NumberIsMonotone ==
    ASSUME device \in Devices, NEW a \in Buttons, NEW b \in Buttons,
           Before(a, b)
    PROVE  Number(a) < Number(b)
  <1>1. Ahead(a) \cup {a} \in SUBSET Ahead(b) /\ a \notin Ahead(a)
    BY BeforeIsTotal DEF Ahead
  <1>2. Cardinality(Ahead(a) \cup {a}) = Cardinality(Ahead(a)) + 1
    BY <1>1, ReferenceIsFinite, FS_AddElement
  <1>3. Cardinality(Ahead(a) \cup {a}) <= Cardinality(Ahead(b))
    BY <1>1, ReferenceIsFinite, FS_Subset
  <1>4. Ranges(a[1]) \in SUBSET Ranges(b[1])
    BY ButtonFacts, CapsFacts DEF Ranges, Before
  <1>5. Cardinality(Ranges(a[1])) <= Cardinality(Ranges(b[1]))
    BY <1>4, ReferenceIsFinite, FS_Subset
  <1> QED
    BY <1>2, <1>3, <1>5, ReferenceIsFinite, NumberIsSum

(* Numbering begins at 0, ...                                              *)
LEMMA FirstNumber ==
    ASSUME device \in Devices, Len(Caps) > 0
    PROVE  /\ <<1, Caps[1].min>> \in Buttons
           /\ Number(<<1, Caps[1].min>>) = 0
           /\ Ahead(<<1, Caps[1].min>>) = {}
  <1> DEFINE b == <<1, Caps[1].min>>
  <1>1. b \in Buttons
    BY ButtonFacts, CapsFacts
  <1>2. Ahead(b) = {}
    <2>1. ASSUME NEW c \in Buttons
          PROVE  ~Before(c, b)
      <3>1. /\ c[1] \in 1..Len(Caps) /\ c[2] \in Nat
            /\ Caps[c[1]].min <= c[2] /\ Caps[1].min \in Nat
        BY ButtonFacts, CapsFacts
      <3> QED
        BY <3>1 DEF Before
    <2> QED
      BY <2>1 DEF Ahead
  <1>3. Ranges(1) = {}
    BY CapsFacts DEF Ranges
  <1>4. Number(b) = Cardinality(Ahead(b)) + Cardinality(Ranges(1))
    BY NumberIsSum
  <1>5. Number(b) = 0
    <2> HIDE DEF b
    <2>1. Cardinality(Ahead(b)) = 0 /\ Cardinality(Ranges(1)) = 0
      BY <1>2, <1>3, FS_EmptySet, Zenon
    <2> QED
      BY <1>4, <2>1
  <1> QED
    BY <1>1, <1>2, <1>5

(* ... advances by one within a capability, ...                            *)
LEMMA NextInRange ==
    ASSUME device \in Devices, NEW n \in DOMAIN Caps, NEW v \in Nat,
           Caps[n].min <= v, v < Caps[n].max
    PROVE  /\ <<n, v + 1>> \in Buttons
           /\ Ahead(<<n, v + 1>>) = Ahead(<<n, v>>) \cup {<<n, v>>}
           /\ Number(<<n, v + 1>>) = Number(<<n, v>>) + 1
  <1> DEFINE a == <<n, v>>
             b == <<n, v + 1>>
  <1>1. a \in Buttons /\ b \in Buttons
    <2>1. Caps[n].min \in Nat /\ Caps[n].max \in Nat
      BY CapsFacts
    <2>2. /\ v + 1 \in Nat /\ v <= Caps[n].max
          /\ Caps[n].min <= v + 1 /\ v + 1 <= Caps[n].max
      BY <2>1
    <2> QED
      BY <2>2, ButtonFacts
  <1>2. Ahead(b) = Ahead(a) \cup {a} /\ a \notin Ahead(a)
    <2>1. ASSUME NEW c \in Buttons
          PROVE  Before(c, b) <=> Before(c, a) \/ c = a
      <3>1. c = <<c[1], c[2]>> /\ c[2] \in Nat
        BY ButtonFacts
      <3>2. c = a <=> c[1] = n /\ c[2] = v
        BY <3>1
      <3> QED
        BY <3>1, <3>2 DEF Before
    <2>2. ~Before(a, a)
      BY <1>1, BeforeIsTotal
    <2> QED
      BY <1>1, <2>1, <2>2 DEF Ahead
  <1>3. Cardinality(Ahead(b)) = Cardinality(Ahead(a)) + 1
    BY <1>2, ReferenceIsFinite, FS_AddElement
  <1> QED
    BY <1>1, <1>2, <1>3, ReferenceIsFinite, NumberIsSum

(* ... and by one more from a range to the next capability.                *)
LEMMA NextCapNumber ==
    ASSUME device \in Devices, NEW n \in DOMAIN Caps, n < Len(Caps)
    PROVE  LET a == <<n, Caps[n].max>>
               b == <<n + 1, Caps[n + 1].min>>
           IN  /\ b \in Buttons
               /\ Ahead(b) = Ahead(a) \cup {a}
               /\ Number(b) = Number(a) + (IF Caps[n].range THEN 2 ELSE 1)
  <1> DEFINE a == <<n, Caps[n].max>>
             b == <<n + 1, Caps[n + 1].min>>
  <1>1. a \in Buttons /\ b \in Buttons /\ n + 1 \in DOMAIN Caps
    <2>1. n + 1 \in DOMAIN Caps
      BY CapsFacts
    <2>2. ASSUME NEW m \in DOMAIN Caps
          PROVE  /\ <<m, Caps[m].min>> \in Buttons
                 /\ <<m, Caps[m].max>> \in Buttons
      <3>1. /\ Caps[m].min \in Nat /\ Caps[m].max \in Nat
            /\ Caps[m].min <= Caps[m].max
        BY CapsFacts
      <3>2. Caps[m].min <= Caps[m].min /\ Caps[m].max <= Caps[m].max
        BY <3>1
      <3> QED
        BY <3>1, <3>2, ButtonFacts
    <2> QED
      BY <2>1, <2>2
  <1>2. Ahead(b) = Ahead(a) \cup {a} /\ a \notin Ahead(a)
    <2>1. ASSUME NEW c \in Buttons
          PROVE  Before(c, b) <=> Before(c, a) \/ c = a
      <3>1. /\ c = <<c[1], c[2]>> /\ c[1] \in DOMAIN Caps /\ c[2] \in Nat
            /\ Caps[c[1]].min <= c[2] /\ c[2] <= Caps[c[1]].max
        BY ButtonFacts
      <3>2. Before(c, b) <=> c[1] < n + 1
        BY <1>1, <3>1, CapsFacts DEF Before
      <3>3. Before(c, a) <=> c[1] < n \/ (c[1] = n /\ c[2] < Caps[n].max)
        BY DEF Before
      <3>4. c = a <=> c[1] = n /\ c[2] = Caps[n].max
        BY <3>1
      <3> QED
        BY <3>1, <3>2, <3>3, <3>4, CapsFacts
    <2>2. ~Before(a, a)
      BY <1>1, BeforeIsTotal
    <2> QED
      BY <1>1, <2>1, <2>2 DEF Ahead
  <1>3. Cardinality(Ahead(b)) = Cardinality(Ahead(a)) + 1
    BY <1>2, ReferenceIsFinite, FS_AddElement
  <1>4. Cardinality(Ranges(n + 1)) = Cardinality(Ranges(n))
                                        + (IF Caps[n].range THEN 1 ELSE 0)
    <2>1. CASE Caps[n].range
      <3>1. Ranges(n + 1) = Ranges(n) \cup {n} /\ n \notin Ranges(n)
        BY <2>1, CapsFacts DEF Ranges
      <3> QED
        BY <2>1, <3>1, ReferenceIsFinite, FS_AddElement
    <2>2. CASE ~Caps[n].range
      <3>1. Ranges(n + 1) = Ranges(n)
        BY <2>2, CapsFacts DEF Ranges
      <3> QED
        BY <2>2, <3>1, ReferenceIsFinite
    <2> QED
      BY <2>1, <2>2
  <1>5. /\ Number(a) = Cardinality(Ahead(a)) + Cardinality(Ranges(n))
        /\ Number(b) = Cardinality(Ahead(b)) + Cardinality(Ranges(n + 1))
    BY NumberIsSum
  <1>6. Number(b) = Number(a) + (IF Caps[n].range THEN 2 ELSE 1)
    <2> HIDE DEF a, b
    <2> QED
      BY <1>3, <1>4, <1>5, ReferenceIsFinite
  <1> QED
    BY <1>1, <1>2, <1>6

(* The last button of the last capability is behind all others.            *)
LEMMA LastButton ==
    ASSUME device \in Devices, Len(Caps) > 0
    PROVE  LET a == <<Len(Caps), Caps[Len(Caps)].max>>
           IN  Buttons = Ahead(a) \cup {a}
  <1> DEFINE a == <<Len(Caps), Caps[Len(Caps)].max>>
  <1>1. Len(Caps) \in DOMAIN Caps /\ a \in Buttons
    BY ButtonFacts, CapsFacts
  <1>2. ASSUME NEW c \in Buttons
        PROVE  Before(c, a) \/ c = a
    <2>1. /\ c = <<c[1], c[2]>> /\ c[1] \in 1..Len(Caps) /\ c[2] \in Nat
          /\ c[2] <= Caps[c[1]].max
      BY ButtonFacts
    <2>2. Len(Caps) \in Nat /\ Caps[Len(Caps)].max \in Nat
      BY <1>1, CapsFacts
    <2> QED
      BY <2>1, <2>2 DEF Before
  <1> QED
    BY <1>1, <1>2 DEF Ahead

-----------------------------------------------------------------------------
(* The steps *)

LEMMA Wrapped ==
    ASSUME NEW m \in Nat \ {0}, NEW a \in Nat
    PROVE  /\ a % m \in 0..(m - 1)
           /\ a < m => a % m = a
           /\ a = m => a % m = 0
  OBVIOUS

(* The device, and with it the reference, does not change.                 *)
LEMMA DeviceStays ==
    ASSUME [Next]_vars
    PROVE  device' = device
  BY DEF Next, Enumerate, GetButtonCaps, NumberInRange, NumberLast, Overrun,
     GetValueCaps, SetCounts, Report, ReportOverrun, vars

LEMMA ReferenceStays ==
    ASSUME device' = device
    PROVE  /\ Caps' = Caps /\ Buttons' = Buttons /\ Usages' = Usages
           /\ \A b : Number(b)' = Number(b)
           /\ \A v : First(v)' = First(v)
           /\ \A n : Endless(n)' <=> Endless(n)
           /\ Unfit' <=> Unfit
  <1>1. Caps' = Caps
    BY DEF Caps
  <1>2. Buttons' = Buttons /\ Usages' = Usages
    BY <1>1 DEF Buttons, Usages
  <1>3. \A b : Number(b)' = Number(b)
    BY <1>1, <1>2 DEF Number
  <1>4. \A v : First(v)' = First(v)
    BY <1>2 DEF First
  <1>5. \A n : Endless(n)' <=> Endless(n)
    BY <1>1 DEF Endless
  <1>6. Unfit' <=> Unfit
    BY <1>1, <1>2, <1>3, <1>5 DEF Unfit
  <1> QED
    BY <1>1, <1>2, <1>3, <1>4, <1>5, <1>6

(* One descriptor: Here gets its number, and the usage that comes next has *)
(* the number the index moves to.                                          *)
LEMMA OneDescriptor ==
    ASSUME TypeOK, NumberingIsOrdered, ~Endless(k), pc = "number",
           NumberInRange \/ NumberLast
    PROVE  /\ Here \in Buttons /\ btn_desc_idx = Number(Here)
           /\ btn_desc_idx \in Indices /\ btn_desc_idx < btn_desc_idx'
           /\ descriptors' = [descriptors EXCEPT ![Number(Here)] =
                                [usage |-> Here[2], index |-> Number(Here)]]
           /\ Described' = Described \cup {Here}
           /\ pc' = "number" =>
                 /\ k' \in DOMAIN Caps
                 /\ Here' \in Buttons /\ btn_desc_idx' = Number(Here')
                 /\ k' = k \/ k' = k + 1
           /\ pc' # "number" => pc' = "value_caps" /\ k = Len(Caps)
  <1>1. device' = device /\ device \in Devices
    BY DEF TypeOK, NumberInRange, NumberLast
  <1>2. /\ k \in DOMAIN Caps /\ k \in 1..Len(Caps) /\ Len(Caps) > 0
        /\ Here \in Buttons /\ btn_desc_idx = Number(Here)
        /\ Here = <<k, u>> /\ u \in Nat /\ btn_desc_idx \in Nat
    BY <1>1, CapsFacts DEF TypeOK, NumberingIsOrdered, Here
  <1>3. Caps[k].min <= u /\ u <= Caps[k].max
    BY <1>1, <1>2, ButtonFacts
  <1>4. btn_desc_idx \in Indices
        /\ descriptors' = [descriptors EXCEPT ![Number(Here)] =
                             [usage |-> Here[2], index |-> Number(Here)]]
    BY <1>2 DEF NumberInRange, NumberLast, Describe
  <1>5. Described = Ahead(Here)
    BY DEF Described, Ahead
  <1>6. pc' = "number" => Described' = Ahead(<<k', u'>>)
    BY <1>1, ReferenceStays DEF Described, Ahead, Here
  <1>7. Caps[k].max \in Nat /\ Caps[k].max < UsageLimit
        /\ UsageLimit \in Nat \ {0}
    BY <1>1, <1>2, CapsFacts
  <1>8. Caps[k].range => (u + 1) % UsageLimit = u + 1
    <2>1. Caps[k].range => u + 1 < UsageLimit /\ u + 1 \in Nat
      BY <1>2, <1>3, <1>7 DEF Endless
    <2> QED
      BY <1>7, <2>1, Wrapped
  <1>9. CASE NumberInRange
    <2>1. (u + 1) % UsageLimit = u + 1
      BY <1>9, <1>8 DEF NumberInRange
    <2>2. u' = u + 1 /\ u < Caps[k].max
      BY <1>2, <1>9, <1>7, <2>1 DEF NumberInRange, InRange
    <2>3. pc' = "number" /\ k' = k /\ btn_desc_idx' = btn_desc_idx + 1
      BY <1>9 DEF NumberInRange
    <2>4. /\ <<k, u + 1>> \in Buttons
          /\ Ahead(<<k, u + 1>>) = Ahead(<<k, u>>) \cup {<<k, u>>}
          /\ Number(<<k, u + 1>>) = Number(<<k, u>>) + 1
      BY <1>1, <1>2, <1>3, <2>2, NextInRange
    <2>5. Here' = <<k, u + 1>>
      BY <2>2, <2>3 DEF Here
    <2> QED
      BY <1>2, <1>4, <1>5, <1>6, <2>2, <2>3, <2>4, <2>5
  <1>10. CASE NumberLast
    <2>1. u = Caps[k].max
      <3>1. CASE Caps[k].range
        <4>1. (u + 1) % UsageLimit = u + 1
          BY <1>8, <3>1
        <4>2. ~(u + 1 <= Caps[k].max)
          BY <1>10, <3>1, <4>1 DEF NumberLast, InRange
        <4> QED
          BY <1>2, <1>3, <1>7, <4>2
      <3>2. CASE ~Caps[k].range
        BY <1>1, <1>2, <1>3, <3>2, CapsFacts
      <3> QED
        BY <3>1, <3>2
    <2>2. /\ k' = k + 1
          /\ btn_desc_idx' = btn_desc_idx + (IF Caps[k].range THEN 2 ELSE 1)
      BY <1>10 DEF NumberLast, NextCap
    <2>3. CASE k < Len(Caps)
      <3>1. pc' = "number" /\ u' = Caps[k + 1].min
        BY <1>10, <2>3 DEF NumberLast, NextCap
      <3>2. /\ <<k + 1, Caps[k + 1].min>> \in Buttons
            /\ Ahead(<<k + 1, Caps[k + 1].min>>)
                  = Ahead(<<k, u>>) \cup {<<k, u>>}
            /\ Number(<<k + 1, Caps[k + 1].min>>)
                  = Number(<<k, u>>) + (IF Caps[k].range THEN 2 ELSE 1)
        BY <1>1, <1>2, <2>1, <2>3, NextCapNumber
      <3>3. Here' = <<k + 1, Caps[k + 1].min>>
        BY <2>2, <3>1 DEF Here
      <3>4. k' \in DOMAIN Caps
        BY <1>1, <1>2, <2>2, <2>3, CapsFacts
      <3> QED
        BY <1>2, <1>4, <1>5, <1>6, <2>2, <3>1, <3>2, <3>3, <3>4
    <2>4. CASE ~(k < Len(Caps))
      <3>1. pc' = "value_caps" /\ k = Len(Caps)
        BY <1>2, <1>10, <2>4 DEF NumberLast, NextCap
      <3>2. btn_desc_idx' > btn_desc_idx /\ btn_desc_idx' > 0
        BY <1>2, <2>2
      <3>3. Described' = Buttons
        BY <1>1, <3>1, <3>2, ReferenceStays DEF Described
      <3>4. Buttons = Ahead(Here) \cup {Here}
        BY <1>1, <1>2, <2>1, <3>1, LastButton
      <3> QED
        BY <1>2, <1>4, <1>5, <3>1, <3>2, <3>3, <3>4
    <2> QED
      BY <2>3, <2>4
  <1> QED
    BY <1>9, <1>10

LEMMA InvInit ==
    ASSUME Init
    PROVE  IInv
  <1>1. device \in Devices /\ pc = "idle" /\ k = 0 /\ u = 0
        /\ btn_desc_idx = 0 /\ descriptors = [n \in Indices |-> Zero]
        /\ button_count = 0 /\ value_count = 0 /\ down = {} /\ buttons = {}
    BY DEF Init
  <1>2. TypeOK
    BY <1>1, CapsFacts DEF TypeOK, Indices, Zero
  <1>3. ButtonsShown /\ OverrunExactly /\ CountsWhenReady /\ NothingYet
        /\ NumberingIsOrdered
    BY <1>1 DEF ButtonsShown, OverrunExactly, CountsWhenReady, NothingYet,
       NumberingIsOrdered
  <1>4. IndexIsPlace
    BY <1>1 DEF IndexIsPlace, Zero
  <1>5. Described = {}
    BY <1>1 DEF Described
  <1>6. DescribedInOrder
    BY <1>1, <1>5 DEF DescribedInOrder, DescriptorsAreNumbered,
       FirstsAreDescribed
  <1> QED
    BY <1>2, <1>3, <1>4, <1>6 DEF IInv

(* A report finds a descriptor only below the count, and its index is its  *)
(* place or 0.                                                             *)
LEMMA ReportWithinCount ==
    ASSUME TypeOK, IndexIsPlace, Report
    PROVE  buttons' \subseteq 0..(button_count - 1)
  <1>1. button_count \in Nat /\ MaxButtons \in Nat
    BY CapsFacts DEF TypeOK
  <1>2. ASSUME NEW n \in Indices, NEW v, n \in Found(v)
        PROVE  descriptors[n].index \in 0..(button_count - 1)
    BY <1>1, <1>2 DEF IndexIsPlace, Found, Indices
  <1> QED
    BY <1>2 DEF Report

(* The first usage of a button cap is a usage.                             *)
LEMMA FirstUsage ==
    ASSUME device \in Devices, NEW n \in DOMAIN Caps
    PROVE  Caps[n].min \in 0..(UsageLimit - 1)
  <1>1. /\ Caps[n].min \in Nat /\ Caps[n].max \in Nat
        /\ Caps[n].min <= Caps[n].max /\ Caps[n].max < UsageLimit
    BY CapsFacts
  <1>2. UsageLimit \in Nat \ {0}
    BY CapsFacts
  <1> QED
    BY <1>1, <1>2

LEMMA TypeStep ==
    ASSUME TypeOK, IndexIsPlace, CountsWhenReady, NumberingIsOrdered,
           [Next]_vars
    PROVE  TypeOK'
  <1>1. device \in Devices /\ device' = device /\ Caps' = Caps
        /\ Usages' = Usages
    BY DeviceStays, ReferenceStays DEF TypeOK
  <1>2. pc' \in {"idle", "button_caps", "number", "value_caps", "counts",
                 "ready", "refused", "overrun"}
    BY DEF TypeOK, Next, Enumerate, GetButtonCaps, Refuse, NumberInRange,
       NumberLast, NextCap, Overrun, GetValueCaps, SetCounts, Report,
       ReportOverrun, vars
  <1>3. k' \in 0..(Len(Caps) + 1)
    <2>1. CASE GetButtonCaps
      BY <1>1, <2>1, CapsFacts DEF GetButtonCaps, TypeOK
    <2>2. CASE NumberLast
      BY <1>1, <2>2, CapsFacts DEF NumberLast, NextCap, NumberingIsOrdered
    <2>3. CASE ~GetButtonCaps /\ ~NumberLast
      BY <2>3 DEF TypeOK, Next, Enumerate, NumberInRange, Overrun,
         GetValueCaps, SetCounts, Report, ReportOverrun, vars
    <2> QED
      BY <2>1, <2>2, <2>3
  <1>4. u' \in 0..(UsageLimit - 1)
    <2>1. CASE GetButtonCaps
      <3>1. u' = u \/ (1 \in DOMAIN Caps /\ u' = Caps[1].min)
        BY <1>1, <2>1, CapsFacts DEF GetButtonCaps
      <3>2. CASE u' = u
        BY <3>2 DEF TypeOK
      <3>3. CASE 1 \in DOMAIN Caps /\ u' = Caps[1].min
        BY <1>1, <3>3, FirstUsage
      <3> QED
        BY <3>1, <3>2, <3>3
    <2>2. CASE NumberInRange
      <3>1. u \in Nat /\ u + 1 \in Nat /\ UsageLimit \in Nat \ {0}
        BY <1>1, CapsFacts DEF TypeOK
      <3> QED
        BY <2>2, <3>1, Wrapped DEF NumberInRange
    <2>3. CASE NumberLast
      <3>1. u' = 0 \/ (k + 1 \in DOMAIN Caps /\ u' = Caps[k + 1].min)
        BY <1>1, <2>3, CapsFacts DEF NumberLast, NextCap, NumberingIsOrdered
      <3>2. CASE u' = 0
        BY <1>1, <3>2, CapsFacts
      <3>3. CASE k + 1 \in DOMAIN Caps /\ u' = Caps[k + 1].min
        BY <1>1, <3>3, FirstUsage
      <3> QED
        BY <3>1, <3>2, <3>3
    <2>4. CASE ~GetButtonCaps /\ ~NumberInRange /\ ~NumberLast
      BY <2>4 DEF TypeOK, Next, Enumerate, Overrun, GetValueCaps, SetCounts,
         Report, ReportOverrun, vars
    <2> QED
      BY <2>1, <2>2, <2>3, <2>4
  <1>5. btn_desc_idx' \in 0..(MaxButtons + 1)
    <2>1. CASE NumberInRange \/ NumberLast
      <3>1. btn_desc_idx \in Indices
            /\ btn_desc_idx' \in {btn_desc_idx + 1, btn_desc_idx + 2}
        BY <2>1 DEF NumberInRange, NumberLast, Describe
      <3> QED
        BY <1>1, <3>1, CapsFacts DEF Indices
    <2>2. CASE ~NumberInRange /\ ~NumberLast
      BY <1>1, <2>2, CapsFacts DEF TypeOK, Next, Enumerate, GetButtonCaps,
         Overrun, GetValueCaps, SetCounts, Report, ReportOverrun, vars
    <2> QED
      BY <2>1, <2>2
  <1>6. descriptors' \in [Indices -> [usage : 0..(UsageLimit - 1),
                                      index : Indices]]
    <2>1. CASE Enumerate
      BY <1>1, <2>1, CapsFacts DEF Enumerate, Zeroed, Zero, Indices
    <2>2. CASE NumberInRange \/ NumberLast
      <3>1. btn_desc_idx \in Indices
            /\ descriptors' = [descriptors EXCEPT ![btn_desc_idx] =
                                 [usage |-> u, index |-> btn_desc_idx]]
        BY <2>2 DEF NumberInRange, NumberLast, Describe
      <3> QED
        BY <3>1 DEF TypeOK
    <2>3. CASE ~Enumerate /\ ~NumberInRange /\ ~NumberLast
      BY <2>3 DEF TypeOK, Next, GetButtonCaps, Overrun, GetValueCaps,
         SetCounts, Report, ReportOverrun, vars
    <2> QED
      BY <2>1, <2>2, <2>3
  <1>7. button_count' \in {0, device.length}
        /\ value_count' \in {0, device.values}
    BY DEF TypeOK, Next, Enumerate, Zeroed, GetButtonCaps, Refuse,
       NumberInRange, NumberLast, Overrun, GetValueCaps, SetCounts, Report,
       ReportOverrun, vars
  <1>8. down' \subseteq Usages
    BY DEF Reported, TypeOK, Next, Enumerate, GetButtonCaps, NumberInRange,
       NumberLast, Overrun, GetValueCaps, SetCounts, Report,
       ReportOverrun, vars
  <1>9. buttons' \subseteq 0..(button_count' - 1)
    <2>1. CASE Report
      BY <2>1, ReportWithinCount DEF Report
    <2>2. CASE Enumerate \/ SetCounts \/ ReportOverrun
      <3>1. buttons' = {}
        BY <2>2 DEF Enumerate, SetCounts, ReportOverrun, CountsWhenReady
      <3> QED
        BY <3>1
    <2>3. CASE ~Report /\ ~Enumerate /\ ~SetCounts /\ ~ReportOverrun
      BY <2>3 DEF TypeOK, Next, GetButtonCaps, Refuse, NumberInRange,
         NumberLast, Overrun, GetValueCaps, vars
    <2> QED
      BY <2>1, <2>2, <2>3
  <1>10. Indices' = Indices
    BY DEF Indices
  <1> QED
    BY <1>1, <1>2, <1>3, <1>4, <1>5, <1>6, <1>7, <1>8, <1>9, <1>10
    DEF TypeOK

LEMMA CountsStep ==
    ASSUME TypeOK, IndexIsPlace, CountsWhenReady, [Next]_vars
    PROVE  CountsWhenReady'
  <1>1. device' = device
    BY DeviceStays
  <1>2. CASE Report
    <2>1. button_count = 0 => buttons' = {}
      BY <1>2, ReportWithinCount
    <2> QED
      BY <1>1, <1>2, <2>1 DEF CountsWhenReady, Report
  <1>3. CASE Enumerate \/ SetCounts
    BY <1>1, <1>3 DEF CountsWhenReady, Enumerate, Zeroed, SetCounts
  <1>4. CASE GetButtonCaps \/ NumberInRange \/ NumberLast
    BY <1>1, <1>4 DEF CountsWhenReady, GetButtonCaps, Refuse, NumberInRange,
       NumberLast, NextCap
  <1>5. CASE Overrun \/ GetValueCaps \/ ReportOverrun \/ UNCHANGED vars
    BY <1>1, <1>5 DEF CountsWhenReady, Overrun, GetValueCaps, Refuse,
       ReportOverrun, vars
  <1> QED
    BY <1>2, <1>3, <1>4, <1>5 DEF Next

LEMMA IndexStep ==
    ASSUME TypeOK, IndexIsPlace, [Next]_vars
    PROVE  IndexIsPlace'
  <1>1. CASE Enumerate
    BY <1>1 DEF IndexIsPlace, Indices, Enumerate, Zeroed, Zero
  <1>2. CASE NumberInRange \/ NumberLast
    <2>1. btn_desc_idx \in Indices
          /\ descriptors' = [descriptors EXCEPT ![btn_desc_idx] =
                               [usage |-> u, index |-> btn_desc_idx]]
      BY <1>2 DEF NumberInRange, NumberLast, Describe
    <2>2. \A n \in Indices : descriptors'[n].index \in {0, n}
      BY <2>1 DEF TypeOK, IndexIsPlace
    <2>3. Indices' = Indices
      BY DEF Indices
    <2> QED
      BY <2>2, <2>3 DEF IndexIsPlace
  <1>3. CASE ~Enumerate /\ ~NumberInRange /\ ~NumberLast
    BY <1>3 DEF IndexIsPlace, Indices, Next, GetButtonCaps, Overrun,
       GetValueCaps, SetCounts, Report,
       ReportOverrun, vars
  <1> QED
    BY <1>1, <1>2, <1>3

LEMMA NothingYetStep ==
    ASSUME TypeOK, NothingYet, [Next]_vars
    PROVE  NothingYet'
  <1>1. CASE Enumerate
    BY <1>1 DEF NothingYet, Indices, Enumerate, Zeroed, Zero
  <1>2. CASE NumberInRange \/ NumberLast
    <2>1. btn_desc_idx \in Indices
          /\ btn_desc_idx' \in {btn_desc_idx + 1, btn_desc_idx + 2}
          /\ pc' \notin {"idle", "button_caps"}
      BY <1>2 DEF NumberInRange, NumberLast, NextCap, Describe
    <2>2. btn_desc_idx' # 0
      BY <2>1, CapsFacts DEF TypeOK
    <2> QED
      BY <2>1, <2>2 DEF NothingYet
  <1>3. CASE ~Enumerate /\ ~NumberInRange /\ ~NumberLast
    BY <1>3 DEF NothingYet, Indices, Zero, Next, GetButtonCaps, Refuse,
       Overrun, GetValueCaps, SetCounts, Report,
       ReportOverrun, vars
  <1> QED
    BY <1>1, <1>2, <1>3

(* Every capability before the one that is numbered next had an end, and a *)
(* range without one is not left.                                          *)
LEMMA OrderStep ==
    ASSUME TypeOK, NothingYet, NumberingIsOrdered, [Next]_vars
    PROVE  NumberingIsOrdered'
  <1>1. device \in Devices /\ device' = device /\ Caps' = Caps
        /\ Buttons' = Buttons /\ (\A n : Endless(n)' <=> Endless(n))
    BY DeviceStays, ReferenceStays DEF TypeOK
  <1>2. CASE NumberInRange \/ NumberLast
    <2>1. pc = "number" /\ k \in DOMAIN Caps /\ k \in Nat
          /\ DOMAIN Caps = 1..Len(Caps)
          /\ \A n \in DOMAIN Caps : n < k => ~Endless(n)
      BY <1>1, <1>2, CapsFacts
      DEF NumberInRange, NumberLast, NumberingIsOrdered
    <2>2. CASE ~Endless(k)
      <3>1. /\ pc' = "number" =>
                  /\ k' \in DOMAIN Caps
                  /\ Here' \in Buttons /\ btn_desc_idx' = Number(Here')
                  /\ k' = k \/ k' = k + 1
            /\ pc' # "number" => pc' = "value_caps" /\ k = Len(Caps)
        BY <1>2, <2>1, <2>2, OneDescriptor
      <3>2. \A n \in DOMAIN Caps : n <= k => ~Endless(n)
        BY <2>1, <2>2
      <3>3. CASE pc' = "number"
        <4>1. Number(Here)' = Number(Here')
          BY <1>1 DEF Number, Before
        <4>2. \A n \in DOMAIN Caps : n < k' => ~Endless(n)
          BY <2>1, <3>1, <3>2, <3>3
        <4> QED
          BY <1>1, <3>1, <3>3, <4>1, <4>2 DEF NumberingIsOrdered
      <3>4. CASE pc' # "number"
        BY <1>1, <2>1, <3>1, <3>2, <3>4 DEF NumberingIsOrdered
      <3> QED
        BY <3>3, <3>4
    <2>3. CASE Endless(k)
      <3>1. ~NumberLast
        <4>1. u + 1 \in Nat /\ UsageLimit \in Nat \ {0}
          BY <1>1, CapsFacts DEF TypeOK
        <4>2. (u + 1) % UsageLimit \in 0..(UsageLimit - 1)
          BY <4>1, Wrapped
        <4> QED
          BY <2>3, <4>1, <4>2 DEF NumberLast, InRange, Endless
      <3>2. pc' = "number" /\ k' = k
        BY <1>2, <2>1, <3>1 DEF NumberInRange
      <3>3. Endless(k)'
        BY <1>1, <2>3, <3>2 DEF Endless
      <3> QED
        BY <1>1, <2>1, <3>2, <3>3 DEF NumberingIsOrdered
    <2> QED
      BY <2>2, <2>3
  <1>3. CASE GetButtonCaps
    <2>1. btn_desc_idx' = 0 /\ pc' \in {"number", "value_caps", "refused"}
      BY <1>3 DEF GetButtonCaps, NothingYet, Refuse
    <2>2. CASE pc' = "number"
      <3>1. k' = 1 /\ u' = Caps[1].min /\ Len(Caps) \in 1..MaxCaps
        BY <1>3, <2>2 DEF GetButtonCaps, Refuse
      <3>2. Here' = <<1, Caps[1].min>> /\ Len(Caps) > 0
        BY <1>1, <3>1, CapsFacts DEF Here
      <3>3. Here' \in Buttons /\ Number(Here') = 0
        BY <1>1, <3>2, FirstNumber
      <3>4. Number(Here)' = Number(Here')
        BY <1>1 DEF Number, Before
      <3>5. 1 \in DOMAIN Caps /\ \A n \in DOMAIN Caps : ~(n < 1)
        BY <1>1, <3>2, CapsFacts
      <3> QED
        BY <1>1, <2>1, <2>2, <3>1, <3>3, <3>4, <3>5 DEF NumberingIsOrdered
    <2>3. CASE pc' # "number"
      BY <2>1, <2>3 DEF NumberingIsOrdered
    <2> QED
      BY <2>2, <2>3
  <1>4. CASE Enumerate \/ Overrun
    BY <1>4 DEF NumberingIsOrdered, Enumerate, Overrun
  <1>5. CASE GetValueCaps \/ SetCounts \/ Report \/ ReportOverrun
    <2>1. /\ pc' # "number" /\ btn_desc_idx' = btn_desc_idx
          /\ pc' \in {"value_caps", "counts", "ready"} =>
                pc \in {"value_caps", "counts", "ready"}
      BY <1>5 DEF GetValueCaps, Refuse, SetCounts, Report, ReportOverrun
    <2> QED
      BY <1>1, <2>1 DEF NumberingIsOrdered
  <1>6. CASE UNCHANGED vars
    <2>1. Number(Here)' = Number(Here)
      BY <1>1, <1>6 DEF vars, Here, Number, Before
    <2>2. (Endless(k)' <=> Endless(k)) /\ Here' = Here
      BY <1>1, <1>6 DEF vars, Endless, Here
    <2> QED
      BY <1>1, <1>6, <2>1, <2>2 DEF vars, NumberingIsOrdered
  <1> QED
    BY <1>2, <1>3, <1>4, <1>5, <1>6 DEF Next

(* What was described and what is in the array say the same of the next    *)
(* state if neither changes.                                               *)
LEMMA SameDescribed ==
    ASSUME device' = device, Described' = Described,
           descriptors' = descriptors, btn_desc_idx' = btn_desc_idx,
           DescriptorsAreNumbered, FirstsAreDescribed
    PROVE  DescriptorsAreNumbered' /\ FirstsAreDescribed'
  <1>1. Buttons' = Buttons /\ (\A b : Number(b)' = Number(b))
    BY ReferenceStays
  <1>2. DescriptorsAreNumbered'
    BY <1>1 DEF DescriptorsAreNumbered, Indices, Zero
  <1>3. FirstsAreDescribed'
    BY <1>1 DEF FirstsAreDescribed, Before
  <1> QED
    BY <1>2, <1>3

(* Nothing is described, and nothing written.                              *)
LEMMA NoneDescribed ==
    ASSUME Described' = {}, descriptors' = [n \in Indices |-> Zero]
    PROVE  DescriptorsAreNumbered' /\ FirstsAreDescribed'
  <1>1. \A n \in Indices : descriptors'[n] = Zero
    OBVIOUS
  <1>2. Indices' = Indices /\ Zero' = Zero
    BY DEF Indices, Zero
  <1> QED
    BY <1>1, <1>2 DEF DescriptorsAreNumbered, FirstsAreDescribed

(* The descriptor written is the one of Here, behind all others; if no     *)
(* other of its usage was described, Here is the first with it.            *)
LEMMA NumberedStep ==
    ASSUME TypeOK, NumberingIsOrdered, ~Endless(k), pc = "number",
           NumberInRange \/ NumberLast,
           DescriptorsAreNumbered, FirstsAreDescribed
    PROVE  DescriptorsAreNumbered' /\ FirstsAreDescribed'
  <1>1. device \in Devices /\ device' = device
    BY DEF TypeOK, NumberInRange, NumberLast
  <1>2. /\ Here \in Buttons /\ btn_desc_idx = Number(Here)
        /\ btn_desc_idx \in Indices /\ btn_desc_idx < btn_desc_idx'
        /\ descriptors' = [descriptors EXCEPT ![Number(Here)] =
                             [usage |-> Here[2], index |-> Number(Here)]]
        /\ Described' = Described \cup {Here}
    BY OneDescriptor
  <1>3. Described = Ahead(Here)
    BY DEF Described, Ahead
  <1>4. Buttons' = Buttons /\ (\A b : Number(b)' = Number(b))
        /\ Indices' = Indices /\ Zero' = Zero
    BY <1>1, ReferenceStays DEF Indices, Zero
  <1>5. DOMAIN descriptors = Indices /\ MaxButtons \in Nat
        /\ btn_desc_idx \in Int /\ btn_desc_idx' \in Int
    <2>1. btn_desc_idx' \in {btn_desc_idx + 1, btn_desc_idx + 2}
      BY DEF NumberInRange, NumberLast
    <2> QED
      BY <1>1, <2>1, CapsFacts DEF TypeOK
  <1>6. ASSUME NEW b \in Described'
        PROVE  /\ Number(b) \in Indices /\ Number(b) < btn_desc_idx'
               /\ descriptors'[Number(b)]
                     = [usage |-> b[2], index |-> Number(b)]
    <2>1. CASE b = Here
      BY <1>2, <1>5, <2>1
    <2>2. CASE b \in Described
      <3>1. /\ Number(b) \in Indices /\ Number(b) < btn_desc_idx
            /\ descriptors[Number(b)] = [usage |-> b[2], index |-> Number(b)]
        BY <2>2 DEF DescriptorsAreNumbered
      <3>2. Number(b) \in Int /\ Number(b) < btn_desc_idx'
            /\ Number(b) # Number(Here)
        BY <1>2, <1>5, <3>1 DEF Indices
      <3> QED
        BY <1>2, <1>5, <3>1, <3>2
    <2> QED
      BY <1>2, <2>1, <2>2
  <1>7. ASSUME NEW n \in Indices
        PROVE  descriptors'[n] = Zero \/ \E b \in Described' : n = Number(b)
    BY <1>2, <1>5 DEF DescriptorsAreNumbered
  <1>8. DescriptorsAreNumbered'
    BY <1>4, <1>6, <1>7 DEF DescriptorsAreNumbered
  <1>9. ASSUME NEW b \in Described'
        PROVE  \E a \in Described' :
                  /\ a[2] = b[2]
                  /\ \A c \in Buttons : c[2] = b[2] => ~Before(c, a)
    <2>1. CASE \E d \in Described : d[2] = b[2]
      BY <1>2, <2>1 DEF FirstsAreDescribed
    <2>2. CASE \A d \in Described : d[2] # b[2]
      <3>1. b = Here
        BY <1>2, <2>2
      <3>2. \A c \in Buttons : c[2] = b[2] => ~Before(c, Here)
        BY <1>3, <2>2 DEF Ahead
      <3> QED
        BY <1>2, <3>1, <3>2
    <2> QED
      BY <2>1, <2>2
  <1>10. FirstsAreDescribed'
    BY <1>4, <1>9 DEF FirstsAreDescribed, Before
  <1> QED
    BY <1>8, <1>10

LEMMA DescribedStep ==
    ASSUME TypeOK, NothingYet, NumberingIsOrdered, DescribedInOrder,
           [Next]_vars
    PROVE  DescribedInOrder'
  <1>1. device \in Devices /\ device' = device /\ Caps' = Caps
        /\ Buttons' = Buttons /\ (\A n : Endless(n)' <=> Endless(n))
    BY DeviceStays, ReferenceStays DEF TypeOK
  <1>2. CASE NumberInRange \/ NumberLast
    <2>1. pc = "number"
      BY <1>2 DEF NumberInRange, NumberLast
    <2>2. CASE ~Endless(k)
      BY <1>2, <2>1, <2>2, NumberedStep DEF DescribedInOrder
    <2>3. CASE Endless(k)
      <3>1. ~NumberLast
        <4>1. u + 1 \in Nat /\ UsageLimit \in Nat \ {0}
          BY <1>1, CapsFacts DEF TypeOK
        <4>2. (u + 1) % UsageLimit \in 0..(UsageLimit - 1)
          BY <4>1, Wrapped
        <4> QED
          BY <2>3, <4>1, <4>2 DEF NumberLast, InRange, Endless
      <3>2. pc' = "number" /\ k' = k
        BY <1>2, <2>1, <3>1 DEF NumberInRange
      <3>3. Endless(k)'
        BY <1>1, <2>3, <3>2 DEF Endless
      <3> QED
        BY <3>2, <3>3 DEF DescribedInOrder
    <2> QED
      BY <2>2, <2>3
  <1>3. CASE Enumerate
    <2>1. pc' # "number" /\ btn_desc_idx' = 0
          /\ descriptors' = [n \in Indices |-> Zero]
      BY <1>3 DEF Enumerate, Zeroed
    <2>2. Described' = {}
      BY <2>1 DEF Described
    <2> QED
      BY <2>1, <2>2, NoneDescribed DEF DescribedInOrder
  <1>4. CASE GetButtonCaps
    <2>1. btn_desc_idx' = 0 /\ pc' \in {"number", "value_caps", "refused"}
          /\ descriptors' = [n \in Indices |-> Zero]
      BY <1>4 DEF GetButtonCaps, NothingYet, Refuse
    <2>2. Described' = {}
      <3>1. CASE pc' = "number"
        <4>1. k' = 1 /\ u' = Caps[1].min /\ Len(Caps) \in 1..MaxCaps
          BY <1>4, <3>1 DEF GetButtonCaps, Refuse
        <4>2. Here' = <<1, Caps[1].min>> /\ Len(Caps) > 0
          BY <1>1, <4>1, CapsFacts DEF Here
        <4>3. Ahead(Here') = {}
          BY <1>1, <4>2, FirstNumber
        <4>4. Described' = {b \in Buttons : Before(b, Here')}
          BY <1>1, <3>1 DEF Described, Before
        <4> QED
          BY <4>3, <4>4 DEF Ahead
      <3>2. CASE pc' # "number"
        BY <2>1, <3>2 DEF Described
      <3> QED
        BY <3>1, <3>2
    <2> QED
      BY <2>1, <2>2, NoneDescribed DEF DescribedInOrder
  <1>5. CASE Overrun
    BY <1>5 DEF Overrun, DescribedInOrder
  <1>6. CASE GetValueCaps \/ SetCounts \/ Report \/ ReportOverrun
    <2>1. /\ pc # "number" /\ pc' # "number"
          /\ descriptors' = descriptors /\ btn_desc_idx' = btn_desc_idx
          /\ pc' \notin {"refused", "overrun"} =>
                pc \notin {"refused", "overrun"}
      BY <1>6 DEF GetValueCaps, Refuse, SetCounts, Report, ReportOverrun
    <2>2. Described' = Described
      BY <1>1, <2>1 DEF Described
    <2> QED
      BY <1>1, <2>1, <2>2, SameDescribed DEF DescribedInOrder
  <1>7. CASE UNCHANGED vars
    <2>1. (Endless(k)' <=> Endless(k)) /\ Described' = Described
      BY <1>1, <1>7 DEF vars, Endless, Described, Here, Before
    <2> QED
      BY <1>1, <1>7, <2>1, SameDescribed DEF vars, DescribedInOrder
  <1> QED
    BY <1>2, <1>3, <1>4, <1>5, <1>6, <1>7 DEF Next

(* Of the buttons with one usage there is a first; a device that is ready  *)
(* and has descriptors finds the usage at its number and those of the      *)
(* buttons behind it, if they are below the count.                         *)
LEMMA FoundInOrder ==
    ASSUME TypeOK, CountsWhenReady, DescribedInOrder,
           pc = "ready", btn_desc_idx > 0, NEW v \in Usages
    PROVE  /\ First(v) \in Buttons /\ Number(First(v)) \in Indices
           /\ descriptors[Number(First(v))].index = Number(First(v))
           /\ \A n \in Found(v) : Number(First(v)) <= n
           /\ Number(First(v)) \in Found(v)
                 <=> Number(First(v)) \in 0..(device.length - 1)
           /\ Found(v) # {} => Number(First(v)) \in Found(v)
  <1>1. device \in Devices /\ button_count = device.length
        /\ button_count \in Nat /\ MaxButtons \in Nat
    BY CapsFacts DEF TypeOK, CountsWhenReady
  <1>2. v \in Nat /\ v > 0
    BY <1>1, ButtonFacts
  <1>3. /\ \A b \in Buttons :
              /\ Number(b) \in Indices
              /\ descriptors[Number(b)] = [usage |-> b[2], index |-> Number(b)]
        /\ \A n \in Indices :
              descriptors[n] = Zero \/ \E b \in Buttons : n = Number(b)
        /\ FirstsAreDescribed /\ Described = Buttons
    BY DEF DescribedInOrder, DescriptorsAreNumbered, Described
  <1>4. /\ First(v) \in Buttons /\ First(v)[2] = v
        /\ \A a \in Buttons : a[2] = v => ~Before(a, First(v))
    <2>1. PICK b \in Buttons : b[2] = v
      BY <1>1, ButtonFacts
    <2>2. \E a \in Buttons :
             a[2] = v /\ \A c \in Buttons : c[2] = v => ~Before(c, a)
      BY <1>3, <2>1 DEF FirstsAreDescribed
    <2> QED
      BY <2>2 DEF First
  <1>5. Number(First(v)) \in Indices
        /\ descriptors[Number(First(v))]
              = [usage |-> v, index |-> Number(First(v))]
    BY <1>3, <1>4
  <1>6. ASSUME NEW n \in Found(v)
        PROVE  Number(First(v)) <= n /\ n < button_count
    <2>1. n \in Indices /\ n < button_count /\ descriptors[n].usage = v
      BY DEF Found
    <2>2. PICK b \in Buttons : n = Number(b)
      BY <1>2, <1>3, <2>1 DEF Zero
    <2>3. b[2] = v
      <3>1. descriptors[Number(b)] = [usage |-> b[2], index |-> Number(b)]
        BY <1>3
      <3>2. descriptors[Number(b)].usage = b[2]
        BY <3>1
      <3> QED
        BY <2>1, <2>2, <3>2
    <2>4. First(v) = b \/ Before(First(v), b)
      BY <1>1, <1>4, <2>3, BeforeIsTotal
    <2>5. Number(First(v)) = Number(b) \/ Number(First(v)) < Number(b)
      BY <1>1, <1>4, <2>4, NumberIsMonotone
    <2> QED
      BY <1>5, <2>1, <2>2, <2>5 DEF Indices
  <1>7. Number(First(v)) \in Found(v) <=> Number(First(v)) < button_count
    BY <1>5 DEF Found
  <1>8. Found(v) # {} => Number(First(v)) \in Found(v)
    <2>1. SUFFICES ASSUME NEW n \in Found(v)
                   PROVE  Number(First(v)) < button_count
      BY <1>7
    <2>2. n \in Int /\ Number(First(v)) \in Int
      BY <1>1, <1>5 DEF Found, Indices
    <2> QED
      BY <1>1, <1>6, <2>2
  <1>9. Number(First(v)) < button_count
           <=> Number(First(v)) \in 0..(device.length - 1)
    BY <1>1, <1>5 DEF Indices
  <1> QED
    BY <1>4, <1>5, <1>6, <1>7, <1>8, <1>9

(* A device without descriptors finds no button.                           *)
LEMMA NothingFound ==
    ASSUME TypeOK, NothingYet, btn_desc_idx = 0, NEW v \in Usages
    PROVE  Found(v) = {}
  <1>1. \A n \in Indices : descriptors[n].usage = 0
    BY DEF NothingYet, Zero
  <1>2. v \in Nat /\ v > 0
    BY ButtonFacts DEF TypeOK
  <1> QED
    BY <1>1, <1>2 DEF Found

(* A report reads past the buttons only of a device without descriptors:   *)
(* any other has one for each usage that can be reported.                  *)
LEMMA ReadsPastUntold ==
    ASSUME TypeOK, CountsWhenReady, NothingYet, DescribedInOrder,
           pc \in {"ready", "refused"}, NEW r \in SUBSET Usages
    PROVE  /\ ReadsPast(r) => device.values > MaxValues \/ Untold
           /\ pc = "ready" /\ r # {} /\ ~ReadsPast(r) =>
                 device.values <= MaxValues /\ ~Untold
  <1>1. /\ device \in Devices /\ MaxButtons \in Nat /\ MaxValues \in Nat
        /\ device.length \in Nat /\ device.values \in Nat
        /\ btn_desc_idx \in Nat
    BY CapsFacts DEF TypeOK
  <1>2. CASE pc = "refused"
    BY <1>1, <1>2 DEF CountsWhenReady, ReadsPast
  <1>3. CASE pc = "ready"
    <2>1. button_count = device.length /\ value_count = device.values
      BY <1>3 DEF CountsWhenReady
    <2>2. CASE btn_desc_idx = 0
      BY <1>1, <1>3, <2>1, <2>2, NothingFound DEF ReadsPast, Untold
    <2>3. CASE btn_desc_idx > 0
      <3>1. ASSUME NEW v \in r, device.length > MaxButtons
            PROVE  Found(v) # {}
        <4>1. Number(First(v)) \in Indices
              /\ (Number(First(v)) \in Found(v)
                    <=> Number(First(v)) \in 0..(device.length - 1))
          BY <1>3, <2>3, FoundInOrder
        <4> QED
          BY <1>1, <3>1, <4>1 DEF Indices
      <3> QED
        BY <1>1, <2>1, <2>3, <3>1 DEF ReadsPast, Untold
    <2> QED
      BY <1>1, <2>2, <2>3
  <1> QED
    BY <1>2, <1>3

LEMMA OverrunStep ==
    ASSUME TypeOK, CountsWhenReady, NothingYet, NumberingIsOrdered,
           DescribedInOrder, OverrunExactly, [Next]_vars
    PROVE  OverrunExactly'
  <1>1. device' = device /\ (Unfit' <=> Unfit)
    BY DeviceStays, ReferenceStays
  <1>2. btn_desc_idx' = btn_desc_idx => (Untold' <=> Untold)
    BY <1>1 DEF Untold
  <1>3. MaxCaps \in Nat /\ MaxValues \in Nat /\ device.values \in Nat
    BY CapsFacts DEF TypeOK
  <1>4. CASE Overrun
    <2>1. Unfit
      <3>1. CASE Endless(k)
        BY <1>4, <3>1 DEF Overrun, NumberingIsOrdered, Unfit
      <3>2. CASE ~Endless(k)
        BY <1>4, <3>2 DEF Overrun, NumberingIsOrdered, Unfit
      <3> QED
        BY <3>1, <3>2
    <2> QED
      BY <1>1, <1>4, <2>1 DEF Overrun, OverrunExactly
  <1>5. CASE GetValueCaps
    BY <1>1, <1>5, <1>3 DEF GetValueCaps, Refuse, OverrunExactly
  <1>6. CASE SetCounts
    <2>1. btn_desc_idx > 0 => ~Unfit
      <3>1. SUFFICES ASSUME btn_desc_idx > 0
                     PROVE  ~Unfit
        OBVIOUS
      <3>2. \A n \in DOMAIN Caps : ~Endless(n)
        BY <1>6, <3>1 DEF SetCounts, NumberingIsOrdered
      <3>3. \A b \in Buttons : Number(b) \in Indices
        BY <1>6, <3>1
        DEF SetCounts, DescribedInOrder, DescriptorsAreNumbered, Described
      <3> QED
        BY <3>2, <3>3 DEF Unfit
    <2> QED
      BY <1>1, <1>6, <2>1 DEF SetCounts, OverrunExactly, CountsWhenReady
  <1>7. CASE Report
    <2>1. down' \in SUBSET Usages /\ ~ReadsPast(down')
          /\ pc' = pc /\ pc \in {"ready", "refused"}
          /\ btn_desc_idx' = btn_desc_idx
      BY <1>7 DEF Report, Reported
    <2>2. pc = "ready" /\ down' # {} =>
             device.values <= MaxValues /\ ~Untold
      BY <2>1, ReadsPastUntold
    <2> QED
      BY <1>1, <1>2, <2>1, <2>2 DEF OverrunExactly
  <1>8. CASE ReportOverrun
    <2>1. down' \in SUBSET Usages /\ ReadsPast(down')
          /\ pc' = "overrun" /\ pc \in {"ready", "refused"}
          /\ btn_desc_idx' = btn_desc_idx
      BY <1>8 DEF ReportOverrun, Reported
    <2>2. device.values > MaxValues \/ Untold
      BY <2>1, ReadsPastUntold
    <2> QED
      BY <1>1, <1>2, <2>1, <2>2 DEF OverrunExactly
  <1>9. CASE UNCHANGED vars
    BY <1>1, <1>2, <1>9 DEF vars, OverrunExactly
  <1>10. CASE Enumerate \/ GetButtonCaps \/ NumberInRange \/ NumberLast
    <2>1. pc' \notin {"overrun", "ready"}
      BY <1>10 DEF Enumerate, GetButtonCaps, Refuse, NumberInRange,
         NumberLast, NextCap
    <2> QED
      BY <2>1 DEF OverrunExactly
  <1> QED
    BY <1>4, <1>5, <1>6, <1>7, <1>10, <1>8, <1>9 DEF Next

LEMMA ReportShows ==
    ASSUME TypeOK, CountsWhenReady, DescribedInOrder,
           pc = "ready", btn_desc_idx > 0, Report
    PROVE  buttons' = {Number(First(v)) : v \in down'}
                         \cap 0..(device.length - 1)
  <1> DEFINE Shown == {n \in Indices : \E v \in down' :
                         n \in Found(v) /\ \A l \in Found(v) : n <= l}
  <1>1. buttons' = {descriptors[n].index : n \in Shown}
        /\ down' \subseteq Usages
    BY DEF Report, Reported
  <1>2. Indices \subseteq Int
    BY CapsFacts DEF Indices, TypeOK
  <1>3. ASSUME NEW n \in Shown
        PROVE  \E v \in down' : /\ n = Number(First(v))
                                /\ n \in 0..(device.length - 1)
                                /\ descriptors[n].index = n
    <2>1. PICK v \in down' : n \in Found(v) /\ \A l \in Found(v) : n <= l
      OBVIOUS
    <2>2. v \in Usages
      BY <1>1, <2>1
    <2>3. Number(First(v)) \in Found(v) /\ Number(First(v)) <= n
          /\ Number(First(v)) \in Indices
      BY <2>1, <2>2, FoundInOrder
    <2>4. n = Number(First(v))
      <3>1. n \in Int /\ Number(First(v)) \in Int /\ n <= Number(First(v))
        BY <1>2, <2>1, <2>3
      <3> QED
        BY <2>3, <3>1
    <2> QED
      BY <2>1, <2>2, <2>3, <2>4, FoundInOrder
  <1>4. ASSUME NEW v \in down',
               Number(First(v)) \in 0..(device.length - 1)
        PROVE  /\ Number(First(v)) \in Shown
               /\ descriptors[Number(First(v))].index = Number(First(v))
    <2>1. v \in Usages
      BY <1>1
    <2> QED
      BY <1>4, <2>1, FoundInOrder
  <1> HIDE DEF Shown
  <1> QED
    BY <1>1, <1>3, <1>4

LEMMA ShownStep ==
    ASSUME TypeOK, IndexIsPlace, CountsWhenReady, NothingYet,
           DescribedInOrder, ButtonsShown, [Next]_vars
    PROVE  ButtonsShown'
  <1>1. device \in Devices /\ device' = device
        /\ (\A v : First(v)' = First(v)) /\ (\A b : Number(b)' = Number(b))
    BY DeviceStays, ReferenceStays DEF TypeOK
  <1>2. CASE pc' # "ready"
    BY <1>2, CountsStep DEF CountsWhenReady, ButtonsShown
  <1>3. CASE pc' = "ready"
    <2>1. CASE Report
      <3>1. pc = "ready" /\ btn_desc_idx' = btn_desc_idx
        BY <1>3, <2>1 DEF Report
      <3>2. CASE btn_desc_idx > 0
        BY <1>1, <1>3, <2>1, <3>1, <3>2, ReportShows DEF ButtonsShown
      <3>3. CASE ~(btn_desc_idx > 0)
        <4>1. btn_desc_idx = 0
          BY <1>1, <3>3, CapsFacts DEF TypeOK
        <4>2. buttons' = {}
          BY <2>1, <4>1, NothingFound DEF Report, Reported
        <4> QED
          BY <3>1, <3>3, <4>2 DEF ButtonsShown
      <3> QED
        BY <3>2, <3>3
    <2>2. CASE SetCounts
      <3>1. buttons' = {} /\ down' = {}
        BY <2>2 DEF SetCounts, CountsWhenReady
      <3> QED
        BY <3>1 DEF ButtonsShown
    <2>3. CASE UNCHANGED vars
      BY <1>1, <2>3 DEF vars, ButtonsShown
    <2>4. ~Enumerate /\ ~GetButtonCaps /\ ~NumberInRange /\ ~NumberLast
          /\ ~Overrun /\ ~GetValueCaps /\ ~ReportOverrun
      BY <1>3 DEF Enumerate, GetButtonCaps, Refuse, NumberInRange,
         NumberLast, NextCap, Overrun, GetValueCaps, ReportOverrun
    <2> QED
      BY <2>1, <2>2, <2>3, <2>4 DEF Next
  <1> QED
    BY <1>2, <1>3

-----------------------------------------------------------------------------
(* The theorems *)

(* The inductive invariant holds in every state.                           *)
THEOREM Invariance == Spec => []IInv
  <1>1. Init => IInv
    BY InvInit
  <1>2. IInv /\ [Next]_vars => IInv'
    BY TypeStep, CountsStep, IndexStep, NothingYetStep, OrderStep,
       DescribedStep, OverrunStep, ShownStep DEF IInv
  <1> QED
    BY <1>1, <1>2, PTL DEF Spec

(* Every variable has its type; as long as the program stays within its    *)
(* descriptors, no button past button_count is written.                    *)
THEOREM TypeCorrect == Spec => []TypeOK
  <1>1. IInv => TypeOK
    BY DEF IInv
  <1> QED
    BY <1>1, Invariance, PTL

(* rhid_report, if it does not leave the arrays (OverrunsNamed says when), *)
(* shows exactly the buttons that are down, each at its place              *)
(* among the capabilities plus one for every range before it, as far as    *)
(* the driver's count reaches.                                             *)
THEOREM ShownByNumber == Spec => []ButtonsShown
  <1>1. IInv => ButtonsShown
    BY DEF IInv
  <1> QED
    BY <1>1, Invariance, PTL

(* rhid_get_devices and rhid_report leave their arrays only for a device   *)
(* with a number that does not fit, a range up to the last value, too many *)
(* values, or too many buttons that the driver has not told; and none of   *)
(* these is described to the end or shows a report with a button down.     *)
THEOREM OverrunsNamed == Spec => []OverrunExactly
  <1>1. IInv => OverrunExactly
    BY DEF IInv
  <1> QED
    BY <1>1, Invariance, PTL
=============================================================================
