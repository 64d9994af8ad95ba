-------------------------- MODULE ThresholdProofs --------------------------
(***************************************************************************)
(* Proof that no sequence of write requests disorders the thresholds, and  *)
(* of when their attributes agree with them.  A request stores its records *)
(* before the first is handled, so in between the attributes named by the  *)
(* records still to be handled are open: they may differ from the          *)
(* configuration, as the loose ones may at any time.  Handling a record    *)
(* closes its own field if the attribute still holds the record's value,   *)
(* and leaves the agreement of the others.                                 *)
(***************************************************************************)
EXTENDS OnOffControlProofs

\* The configured thresholds are ordered and in range.
Ordered(cf) ==
  \A c \in Chan : InRange(cf.low[c]) /\ InRange(cf.high[c]) /\ cf.low[c] < cf.high[c]

\* An attribute is the configured threshold or out of range.
AgreesLow(cf, at, c)  == InRange(at.low[c])  => at.low[c] = cf.low[c]
AgreesHigh(cf, at, c) == InRange(at.high[c]) => at.high[c] = cf.high[c]

\* All attributes agree but the open ones.
AgreeBut(cf, at, open) ==
  \A d \in Chan :
    /\ AgreesLow(cf, at, d)  \/ "low" \in open[d]
    /\ AgreesHigh(cf, at, d) \/ "high" \in open[d]

\* The record's value is in the attribute.
Stored(at, c, r) ==
  /\ r.field = "low"  => at.low[c]  = r.value
  /\ r.field = "high" => at.high[c] = r.value

\* Storing a record opens its own field, and no other.
LEMMA StorePends ==
  ASSUME NEW cf \in Config, NEW at \in Attr, NEW c \in Chan, NEW r \in Records(c),
         NEW open, AgreeBut(cf, at, open), NEW wide,
         \A d \in Chan : open[d] \subseteq wide[d], r.field \in wide[c]
  PROVE  /\ AgreeBut(cf, Store(at, c, r), wide)
         /\ r.stored => Stored(Store(at, c, r), c, r)
         /\ \A q \in Records(c) :
              q.field # r.field /\ Stored(at, c, q) => Stored(Store(at, c, r), c, q)
<1>1. CASE r.field = "low" /\ r.stored
  <2>1. Store(at, c, r) = [at EXCEPT !.low[c] = r.value]
    BY <1>1 DEF Store
  <2>2. /\ Store(at, c, r).high = at.high
        /\ Store(at, c, r).low[c] = r.value
        /\ \A d \in Chan : d # c => Store(at, c, r).low[d] = at.low[d]
    BY <2>1 DEF Attr
  <2> QED
    BY <1>1, <2>2 DEF AgreeBut, AgreesLow, AgreesHigh, Stored
<1>2. CASE r.field = "high" /\ r.stored
  <2>1. Store(at, c, r) = [at EXCEPT !.high[c] = r.value]
    BY <1>2 DEF Store
  <2>2. /\ Store(at, c, r).low = at.low
        /\ Store(at, c, r).high[c] = r.value
        /\ \A d \in Chan : d # c => Store(at, c, r).high[d] = at.high[d]
    BY <2>1 DEF Attr
  <2> QED
    BY <1>2, <2>2 DEF AgreeBut, AgreesLow, AgreesHigh, Stored
<1>3. CASE r.field \in {"onoff", "repeat"} \/ ~r.stored
  <2>1. Store(at, c, r) = at
    BY <1>3 DEF Store
  <2> QED
    BY <1>3, <2>1 DEF AgreeBut, Stored
<1> QED
  BY <1>1, <1>2, <1>3, RecordsType DEF Threshold

\* What a change of the low threshold leaves.
LEMMA ChangeLowEffect ==
  ASSUME NEW w \in Writable, NEW c \in Chan, NEW v \in Int
  PROVE  LET x == ChangeLow(w, c, v) IN
           /\ x.config.high = w.config.high /\ x.attr.high = w.attr.high
           /\ \A d \in Chan : d # c =>
                x.config.low[d] = w.config.low[d] /\ x.attr.low[d] = w.attr.low[d]
           /\ \/ /\ InRange(v) /\ v < w.config.high[c]
                 /\ x.config.low[c] = v /\ x.attr.low[c] = w.attr.low[c]
              \/ /\ InRange(v)
                 /\ x.config.low[c] = w.config.low[c] /\ x.attr.low[c] = w.config.low[c]
              \/ /\ ~InRange(v)
                 /\ x.config.low[c] = w.config.low[c] /\ x.attr.low[c] = w.attr.low[c]
<1> DEFINE x == ChangeLow(w, c, v)
<1>1. CASE ~InRange(v)
  BY <1>1 DEF ChangeLow
<1>2. CASE InRange(v) /\ v < w.config.high[c]
  <2>1. x = [w EXCEPT !.config.low[c] = v]
    BY <1>2 DEF ChangeLow
  <2> QED
    BY <1>2, <2>1 DEF Writable, Config, Attr
<1>3. CASE InRange(v) /\ ~(v < w.config.high[c])
  <2>1. x = [w EXCEPT !.attr.low[c] = w.config.low[c]]
    BY <1>3 DEF ChangeLow
  <2> QED
    BY <1>3, <2>1 DEF Writable, Config, Attr
<1> QED
  BY <1>1, <1>2, <1>3

\* What a change of the high threshold leaves.
LEMMA ChangeHighEffect ==
  ASSUME NEW w \in Writable, NEW c \in Chan, NEW v \in Int
  PROVE  LET x == ChangeHigh(w, c, v) IN
           /\ x.config.low = w.config.low /\ x.attr.low = w.attr.low
           /\ \A d \in Chan : d # c =>
                x.config.high[d] = w.config.high[d] /\ x.attr.high[d] = w.attr.high[d]
           /\ \/ /\ InRange(v) /\ v > w.config.low[c]
                 /\ x.config.high[c] = v /\ x.attr.high[c] = w.attr.high[c]
              \/ /\ InRange(v)
                 /\ x.config.high[c] = w.config.high[c] /\ x.attr.high[c] = w.config.high[c]
              \/ /\ ~InRange(v)
                 /\ x.config.high[c] = w.config.high[c] /\ x.attr.high[c] = w.attr.high[c]
<1> DEFINE x == ChangeHigh(w, c, v)
<1>1. CASE ~InRange(v)
  BY <1>1 DEF ChangeHigh
<1>2. CASE InRange(v) /\ v > w.config.low[c]
  <2>1. x = [w EXCEPT !.config.high[c] = v]
    BY <1>2 DEF ChangeHigh
  <2> QED
    BY <1>2, <2>1 DEF Writable, Config, Attr
<1>3. CASE InRange(v) /\ ~(v > w.config.low[c])
  <2>1. x = [w EXCEPT !.attr.high[c] = w.config.high[c]]
    BY <1>3 DEF ChangeHigh
  <2> QED
    BY <1>3, <2>1 DEF Writable, Config, Attr
<1> QED
  BY <1>1, <1>2, <1>3

\* The control changes neither the configuration nor the attributes, so a record
\* is handled by its change of the thresholds alone.
LEMMA HandleRecordFields ==
  ASSUME NEW w \in Writable, NEW c \in Chan, NEW r \in Records(c)
  PROVE  LET x == HandleRecord(w, c, r) IN
           /\ r.field = "low" =>
                /\ x.config = ChangeLow(w, c, r.value).config
                /\ x.attr = ChangeLow(w, c, r.value).attr
           /\ r.field = "high" =>
                /\ x.config = ChangeHigh(w, c, r.value).config
                /\ x.attr = ChangeHigh(w, c, r.value).attr
           /\ r.field \in {"onoff", "repeat"} =>
                /\ x.config.low = w.config.low /\ x.config.high = w.config.high
                /\ x.attr = w.attr
<1> DEFINE x == HandleRecord(w, c, r)
           p == Prepared(w, c, r)
<1>1. p \in Writable
  BY PreparedType
<1>2. x.config = p.config /\ x.attr = p.attr
  BY <1>1, HandlePrepared DEF Process, Writable
<1>3. CASE r.field = "low"
  <2>1. ChangeLow(w, c, r.value) \in Writable
    BY <1>3, ChangeType, RecordsType
  <2> QED
    BY <1>2, <1>3, <2>1 DEF Prepared, Writable
<1>4. CASE r.field = "high"
  <2>1. ChangeHigh(w, c, r.value) \in Writable
    BY <1>4, ChangeType, RecordsType
  <2> QED
    BY <1>2, <1>4, <2>1 DEF Prepared, Writable
<1>5. CASE r.field = "onoff"
  BY <1>2, <1>5 DEF Prepared, Writable, Config
<1>6. CASE r.field = "repeat"
  BY <1>2, <1>6 DEF Prepared, Writable, Config
<1> QED
  BY <1>3, <1>4, <1>5, <1>6, RecordsType DEF Threshold

\* Handling a record keeps the thresholds ordered, closes its own field if the
\* attribute holds its value, and leaves the other records of the request stored.
LEMMA HandleSettles ==
  ASSUME NEW w \in Writable, NEW c \in Chan, NEW r \in Records(c),
         NEW open, NEW less, Ordered(w.config), AgreeBut(w.config, w.attr, open),
         \A d \in Chan : d # c => less[d] = open[d],
         \A f \in open[c] : f \in less[c] \/ f = r.field,
         r.field \in less[c] \/ Stored(w.attr, c, r)
  PROVE  LET x == HandleRecord(w, c, r) IN
           /\ Ordered(x.config)
           /\ AgreeBut(x.config, x.attr, less)
           /\ \A q \in Records(c) :
                q.field # r.field /\ Stored(w.attr, c, q) => Stored(x.attr, c, q)
<1> DEFINE x == HandleRecord(w, c, r)
<1>1. CASE r.field = "low"
  <2>1. r.value \in Int
    BY <1>1, RecordsType
  <2>2. /\ x.config = ChangeLow(w, c, r.value).config
        /\ x.attr = ChangeLow(w, c, r.value).attr
    BY <1>1, HandleRecordFields
  <2> HIDE DEF x
  <2>3. /\ x.config.high = w.config.high /\ x.attr.high = w.attr.high
        /\ \A d \in Chan : d # c =>
             x.config.low[d] = w.config.low[d] /\ x.attr.low[d] = w.attr.low[d]
        /\ \/ /\ InRange(r.value) /\ r.value < w.config.high[c]
              /\ x.config.low[c] = r.value /\ x.attr.low[c] = w.attr.low[c]
           \/ /\ x.config.low[c] = w.config.low[c] /\ x.attr.low[c] = w.config.low[c]
           \/ /\ ~InRange(r.value)
              /\ x.config.low[c] = w.config.low[c] /\ x.attr.low[c] = w.attr.low[c]
    BY <2>1, <2>2, ChangeLowEffect
  <2>4. "low" \in less[c] \/ w.attr.low[c] = r.value
    BY <1>1 DEF Stored
  <2>5. Ordered(x.config)
    BY <2>3 DEF Ordered
  <2>6. "low" \in less[c] \/ AgreesLow(x.config, x.attr, c)
    BY <2>3, <2>4 DEF AgreesLow
  <2>7. AgreeBut(x.config, x.attr, less)
    BY <1>1, <2>3, <2>6 DEF AgreeBut, AgreesLow, AgreesHigh
  <2> QED
    BY <1>1, <2>3, <2>5, <2>7 DEF Stored, x
<1>2. CASE r.field = "high"
  <2>1. r.value \in Int
    BY <1>2, RecordsType
  <2>2. /\ x.config = ChangeHigh(w, c, r.value).config
        /\ x.attr = ChangeHigh(w, c, r.value).attr
    BY <1>2, HandleRecordFields
  <2> HIDE DEF x
  <2>3. /\ x.config.low = w.config.low /\ x.attr.low = w.attr.low
        /\ \A d \in Chan : d # c =>
             x.config.high[d] = w.config.high[d] /\ x.attr.high[d] = w.attr.high[d]
        /\ \/ /\ InRange(r.value) /\ r.value > w.config.low[c]
              /\ x.config.high[c] = r.value /\ x.attr.high[c] = w.attr.high[c]
           \/ /\ x.config.high[c] = w.config.high[c] /\ x.attr.high[c] = w.config.high[c]
           \/ /\ ~InRange(r.value)
              /\ x.config.high[c] = w.config.high[c] /\ x.attr.high[c] = w.attr.high[c]
    BY <2>1, <2>2, ChangeHighEffect
  <2>4. "high" \in less[c] \/ w.attr.high[c] = r.value
    BY <1>2 DEF Stored
  <2>0. w.config.low[c] \in Int
    BY DEF Writable, Config
  <2>5. Ordered(x.config)
    BY <2>0, <2>1, <2>3 DEF Ordered
  <2>6. "high" \in less[c] \/ AgreesHigh(x.config, x.attr, c)
    BY <2>3, <2>4 DEF AgreesHigh
  <2>7. AgreeBut(x.config, x.attr, less)
    BY <1>2, <2>3, <2>6 DEF AgreeBut, AgreesLow, AgreesHigh
  <2> QED
    BY <1>2, <2>3, <2>5, <2>7 DEF Stored, x
<1>3. CASE r.field \in {"onoff", "repeat"}
  <2>1. /\ x.config.low = w.config.low /\ x.config.high = w.config.high
        /\ x.attr = w.attr
    BY <1>3, HandleRecordFields
  <2> HIDE DEF x
  <2>2. Ordered(x.config)
    BY <2>1 DEF Ordered
  <2>3. AgreeBut(x.config, x.attr, less)
    BY <1>3, <2>1 DEF AgreeBut, AgreesLow, AgreesHigh
  <2> QED
    BY <2>1, <2>2, <2>3 DEF x
<1> QED
  BY <1>1, <1>2, <1>3, RecordsType DEF Threshold

\* What is proved: the configured thresholds are ordered, and all attributes but
\* the loose ones agree with them.
LEMMA AgreeIs ==
  /\ ThresholdsOrdered <=> Ordered(config)
  /\ AttributesAgree <=> AgreeBut(config, attr, loose)
BY DEF ThresholdsOrdered, AttributesAgree, Ordered, AgreeBut, AgreesLow, AgreesHigh

\* The stored thresholds are ordered, and the attributes start with them.
LEMMA OrderedInit == Init => ThresholdsOrdered /\ AttributesAgree
BY LimitsAssumption DEF Init, ThresholdsOrdered, AttributesAgree, InRange

\* Every action keeps the thresholds ordered and the attributes agreeing.
LEMMA OrderedStep ==
  TypeOK /\ ThresholdsOrdered /\ AttributesAgree /\ [Next]_vars =>
    ThresholdsOrdered' /\ AttributesAgree'
<1> SUFFICES ASSUME TypeOK, ThresholdsOrdered, AttributesAgree, [Next]_vars
             PROVE  ThresholdsOrdered' /\ AttributesAgree'
  OBVIOUS
<1> DEFINE Goal == Ordered(config') /\ AgreeBut(config', attr', loose')
<1> SUFFICES Goal
  BY DEF ThresholdsOrdered, AttributesAgree, Ordered, AgreeBut, AgreesLow, AgreesHigh
<1>t. /\ config \in Config /\ attr \in Attr /\ ctl \in Ctl /\ joined \in BOOLEAN
      /\ loose \in [Chan -> SUBSET Threshold]
  BY DEF TypeOK
<1>a. Ordered(config) /\ AgreeBut(config, attr, loose)
  BY AgreeIs
<1>1. ASSUME NEW c \in Chan, NEW r \in Records(c), app_zclWriteReqCmd(c, r) PROVE Goal
  <2> DEFINE w == [config |-> config, attr |-> Store(attr, c, r), ctl |-> ctl]
             x == HandleRecord(w, c, r)
             wide == [loose EXCEPT ![c] = @ \cup {r.field}]
  <2>1. /\ config' = x.config /\ attr' = x.attr
        /\ loose' = [loose EXCEPT ![c] = Loosen(@, r)]
    BY <1>1 DEF app_zclWriteReqCmd, Become
  <2>2. w \in Writable /\ w.config = config /\ w.attr = Store(attr, c, r)
    BY <1>t, StoreType DEF Writable
  <2> HIDE DEF w
  <2>3. /\ \A d \in Chan : loose[d] \subseteq wide[d]
        /\ r.field \in wide[c]
    BY <1>t
  <2>4. /\ \A d \in Chan : d # c => loose'[d] = wide[d]
        /\ \A f \in wide[c] : f \in loose'[c] \/ f = r.field
        /\ r.field \in loose'[c] \/ r.stored
    BY <1>t, <2>1 DEF Loosen
  <2> HIDE DEF wide
  <2>5. AgreeBut(w.config, w.attr, wide) /\ (r.stored => Stored(w.attr, c, r))
    BY <1>t, <1>a, <2>2, <2>3, StorePends
  <2>6. Ordered(x.config) /\ AgreeBut(x.config, x.attr, loose')
    BY <1>a, <2>2, <2>4, <2>5, HandleSettles
  <2> QED
    BY <2>1, <2>6
<1>2. ASSUME NEW c \in Chan, NEW r1 \in Records(c), NEW r2 \in Records(c),
             WriteTwoRecords(c, r1, r2)
      PROVE  Goal
  <2> DEFINE a1 == Store(attr, c, r1)
             w == [config |-> config, ctl |-> ctl, attr |-> Store(a1, c, r2)]
             x == HandleRecord(w, c, r1)
             y == HandleRecord(x, c, r2)
             one == [loose EXCEPT ![c] = @ \cup {r1.field}]
             two == [one EXCEPT ![c] = @ \cup {r2.field}]
             mid == [two EXCEPT ![c] = IF r1.field = r2.field THEN @ ELSE Loosen(@, r1)]
  <2>1. /\ config' = y.config /\ attr' = y.attr
        /\ loose' = [loose EXCEPT ![c] = IF r1.field = r2.field THEN Doubled(@, r1)
                                         ELSE Loosen(Loosen(@, r1), r2)]
    BY <1>2 DEF WriteTwoRecords, Become
  <2>2. a1 \in Attr /\ w \in Writable /\ w.config = config /\ w.attr = Store(a1, c, r2)
    BY <1>t, StoreType DEF Writable
  <2> HIDE DEF w, a1
  <2>3. x \in Writable
    BY <1>t, <2>2, HandleRecordType
  <2>4. /\ \A d \in Chan : loose[d] \subseteq one[d] /\ one[d] \subseteq two[d]
        /\ r1.field \in one[c] /\ r2.field \in two[c]
    BY <1>t
  <2>5. /\ \A d \in Chan : d # c => mid[d] = two[d]
        /\ \A f \in two[c] : f \in mid[c] \/ f = r1.field
        /\ r1.field \in mid[c] \/ (r1.stored /\ r1.field # r2.field)
    BY <1>t DEF Loosen
  <2>6. /\ \A d \in Chan : d # c => loose'[d] = mid[d]
        /\ \A f \in mid[c] : f \in loose'[c] \/ f = r2.field
        /\ \/ r2.field \in loose'[c]
           \/ r2.field \notin Threshold
           \/ r2.stored /\ r1.field # r2.field
    BY <1>t, <2>1 DEF Loosen, Doubled
  <2> HIDE DEF one, two, mid
  <2>7. AgreeBut(config, a1, one) /\ (r1.stored => Stored(a1, c, r1))
    BY <1>t, <1>a, <2>4, StorePends DEF a1
  <2>8. /\ AgreeBut(w.config, w.attr, two)
        /\ r1.stored /\ r1.field # r2.field => Stored(w.attr, c, r1)
        /\ r2.stored => Stored(w.attr, c, r2)
    BY <1>t, <2>2, <2>4, <2>7, StorePends
  <2>9. /\ Ordered(x.config) /\ AgreeBut(x.config, x.attr, mid)
        /\ r2.stored /\ r1.field # r2.field => Stored(x.attr, c, r2)
    BY <1>a, <2>2, <2>5, <2>8, HandleSettles
  <2>10. r2.field \notin Threshold => Stored(x.attr, c, r2)
    BY DEF Stored, Threshold
  <2> HIDE DEF x
  <2>11. Ordered(y.config) /\ AgreeBut(y.config, y.attr, loose')
    BY <2>3, <2>6, <2>9, <2>10, HandleSettles DEF x
  <2> QED
    BY <2>1, <2>11 DEF x
<1>3. ASSUME config' = config, attr'.low = attr.low, attr'.high = attr.high, loose' = loose
      PROVE  Goal
  BY <1>3, <1>a DEF Ordered, AgreeBut, AgreesLow, AgreesHigh
<1>4. ASSUME NEW value, Measure(value) PROVE Goal
  BY <1>3, <1>4, <1>t DEF Measure, Attr
<1>5. ASSUME NEW c \in Chan, NEW a, WriteSwitchAction(c, a) PROVE Goal
  BY <1>3, <1>5, <1>t DEF WriteSwitchAction, Attr
<1>6. ASSUME NEW c \in Chan, NEW v, WriteOffset(c, v) PROVE Goal
  BY <1>3, <1>6, <1>t DEF WriteOffset, Attr
<1>7. ASSUME NEW value, Reboot(value) PROVE Goal
  <2>1. config' = config /\ attr'.low = config.low /\ attr'.high = config.high
    BY <1>7, <1>t DEF Reboot, Attr
  <2> QED
    BY <1>a, <2>1 DEF Ordered, AgreeBut, AgreesLow, AgreesHigh
<1>8. CASE \/ \E c \in Chan : cmd_repeatCb(c)
           \/ \E one \in InitialViews : app_update_bind_tbl(one)
           \/ Join
           \/ Leave
           \/ UNCHANGED vars
  BY <1>3, <1>8 DEF cmd_repeatCb, app_update_bind_tbl, Join, Leave, vars
<1>9. ASSUME NEW c \in Chan, NEW r \in Records(c), WriteUnchecked(c, r) PROVE Goal
  <2>1. /\ config' = config /\ attr' = Store(attr, c, r)
        /\ \A d \in Chan : loose[d] \subseteq loose'[d]
        /\ r.field \in loose'[c]
    BY <1>9, <1>t DEF WriteUnchecked
  <2> QED
    BY <1>t, <1>a, <2>1, StorePends
<1>10. ASSUME NEW c \in Chan, NEW a, WriteActionUnchecked(c, a) PROVE Goal
  BY <1>3, <1>10, <1>t DEF WriteActionUnchecked, Attr
<1> QED
  BY <1>1, <1>2, <1>4, <1>5, <1>6, <1>7, <1>8, <1>9, <1>10, RequestsAssumption
  DEF Next, Measuring

\* Both together are inductive.
LEMMA AgreeAlways == Spec => [](ThresholdsOrdered /\ AttributesAgree)
BY OrderedInit, OrderedStep, TypeInit, TypeStep, PTL DEF Spec

\* The configured thresholds stay ordered and in range through any sequence of
\* requests, whatever the limits, the values written and the way they are
\* written (zcl_appCb.c:208-247, 280-318).
THEOREM ThresholdsStayOrdered == Spec => []ThresholdsOrdered
BY AgreeAlways, PTL

\* An attribute that differs from its configured threshold is out of range or
\* loose: its last write was unchecked, doubled in its request or not stored
\* (zcl_appCb.c:208-247, 280-318; zcl.c:1346-1359).
THEOREM AttributesStayAgreed == Spec => []AttributesAgree
BY AgreeAlways, PTL

=============================================================================
