------------------------ MODULE LogTail_proof ------------------------
(***************************************************************************)
(* Theorems about `fastly log-tail`, for any requests, sequence numbers,   *)
(* streams, faults, sort buffer and bounds: first the output loop alone,   *)
(* then tail, and the two together.                                        *)
(***************************************************************************)
EXTENDS LogTail, SequenceTheorems, TLAPS

-----------------------------------------------------------------------------
(* The inductive invariant *)

\* Receipts are appended as time goes by.
ReceiptsInOrder ==
    \A r \in RequestIDs : \A i, j \in 1 .. Len(receives[r]) :
        /\ receives[r][i].when <= now
        /\ i <= j => receives[r][i].when <= receives[r][j].when

\* Every buffered log lies below the high sequence of a receipt that is no
\* younger than itself.
LogsCovered ==
    \A r \in RequestIDs : \A l \in logs[r] :
        \E i \in 1 .. Len(receives[r]) :
            receives[r][i].highSeq >= l.seq /\ receives[r][i].when <= l.at

\* Receipts have a timer, which runs out in time for the head receipt.
HeadTimed ==
    \A r \in RequestIDs :
        /\ receives[r] # <<>> => \E t \in timers : t.req = r
        /\ \A t \in timers : t.req = r =>
               /\ receives[r] # <<>>
               /\ t.seq = receives[r][1].highSeq
               /\ t.due <= Later(now, receives[r][1].when + SortBuffer)
        /\ \A t, u \in timers : t.req = r /\ u.req = r => t = u

OutputInv == OutputTypeOK /\ ReceiptsInOrder /\ LogsCovered /\ HeadTimed

-----------------------------------------------------------------------------

\* highSequence returns a member of the batch that bounds it.
LEMMA HighSequenceBounds ==
    ASSUME NEW S \in SUBSET SeqNums, S # {}
    PROVE  highSequence(S) \in S /\ \A s \in S : s <= highSequence(S)
BY SeqNumsAssumption DEF highSequence

\* What a batch holds for a request are sequence numbers.
LEMMA SplitType ==
    ASSUME NEW batch \in Batches, NEW r \in RequestIDs
    PROVE  splitByReqID(batch, r) \in SUBSET SeqNums
BY BatchesAssumption DEF splitByReqID

LEMMA InitInv == OutputInit => OutputInv
BY BoundsAssumption
   DEF OutputInit, OutputInv, OutputTypeOK, ReceiptsInOrder, LogsCovered, HeadTimed, Times

LEMMA ReceiveInv ==
    ASSUME OutputInv, NEW batch \in Batches, Receive(batch)
    PROVE  OutputInv'
<1> USE BoundsAssumption
<1> DEFINE fresh(r) == splitByReqID(batch, r)
           high(r) == highSequence(fresh(r))
<1>1. ASSUME NEW r \in RequestIDs, fresh(r) # {}
      PROVE  high(r) \in SeqNums /\ \A s \in fresh(r) : s <= high(r)
  BY <1>1, SplitType, HighSequenceBounds
<1>2. \A r \in RequestIDs : fresh(r) \in SUBSET SeqNums
  BY SplitType
<1> HIDE DEF fresh, high
<1>3. \A r \in RequestIDs :
        logs'[r] = logs[r] \cup {[req |-> r, seq |-> s, at |-> now] : s \in fresh(r)}
  BY DEF Receive, fresh
<1>4. \A r \in RequestIDs :
        \/ /\ fresh(r) # {}
           /\ receives[r] = <<>> \/ Head(receives[r]).highSeq < high(r)
           /\ receives'[r] = Append(receives[r], [when |-> now, highSeq |-> high(r)])
        \/ /\ fresh(r) = {} \/ ~(receives[r] = <<>> \/ Head(receives[r]).highSeq < high(r))
           /\ receives'[r] = receives[r]
  BY DEF Receive, fresh, high
<1>5. timers' = timers \cup
           {[req |-> r, seq |-> high(r), due |-> now + SortBuffer]
               : r \in {x \in {y \in RequestIDs : fresh(y) # {}} : receives[x] = <<>>}}
  BY DEF Receive, fresh, high
<1>6. now' = now /\ printed' = printed
  BY DEF Receive
<1>7. OutputTypeOK'
  <2>1. \A r \in RequestIDs : logs'[r] \subseteq LogsOf(r) /\ logs'[r] \subseteq Log
    BY <1>2, <1>3 DEF OutputInv, OutputTypeOK, LogsOf, Log
  <2>2. logs' \in [RequestIDs -> SUBSET Log]
    BY <2>1 DEF Receive
  <2>3. \A r \in RequestIDs : receives'[r] \in Seq(Receipt)
    <3> SUFFICES ASSUME NEW r \in RequestIDs PROVE receives'[r] \in Seq(Receipt)
      OBVIOUS
    <3>1. receives[r] \in Seq(Receipt) /\ now \in Times
      BY DEF OutputInv, OutputTypeOK
    <3>2. fresh(r) # {} => [when |-> now, highSeq |-> high(r)] \in Receipt
      BY <1>1, <3>1 DEF Receipt
    <3> QED
      BY <1>4, <3>1, <3>2
  <2>4. receives' \in [RequestIDs -> Seq(Receipt)]
    BY <2>3 DEF Receive
  <2>5. timers' \subseteq Timer
    BY <1>1, <1>5 DEF OutputInv, OutputTypeOK, Timer, Times
  <2> QED
    BY <2>1, <2>2, <2>4, <2>5, <1>6 DEF OutputInv, OutputTypeOK
<1>8. now \in Nat /\ \A r \in RequestIDs : receives[r] \in Seq(Receipt)
  BY DEF OutputInv, OutputTypeOK, Times
<1>9. ASSUME NEW r \in RequestIDs
      PROVE  \/ receives'[r] = receives[r]
             \/ /\ Len(receives'[r]) = Len(receives[r]) + 1
                /\ \A i \in 1 .. Len(receives[r]) : receives'[r][i] = receives[r][i]
                /\ receives'[r][Len(receives[r]) + 1].when = now
                /\ receives'[r][Len(receives[r]) + 1].highSeq = high(r)
  <2>1. CASE receives'[r] = Append(receives[r], [when |-> now, highSeq |-> high(r)])
    <3> DEFINE e == [when |-> now, highSeq |-> high(r)]
    <3>1. receives[r] \in Seq(Receipt \cup {e}) /\ e \in Receipt \cup {e}
      BY <1>8
    <3> QED
      BY <2>1, <3>1, AppendProperties
  <2> QED
    BY <2>1, <1>4
<1>10. ReceiptsInOrder'
  <2> SUFFICES ASSUME NEW r \in RequestIDs,
                      NEW i \in 1 .. Len(receives'[r]), NEW j \in 1 .. Len(receives'[r])
               PROVE  /\ receives'[r][i].when <= now
                      /\ i <= j => receives'[r][i].when <= receives'[r][j].when
    BY <1>6 DEF ReceiptsInOrder
  <2>1. Len(receives[r]) \in Nat
    BY <1>8
  <2>2. \A k \in 1 .. Len(receives[r]) : receives[r][k].when <= now
    BY DEF OutputInv, ReceiptsInOrder
  <2>3. \A k, m \in 1 .. Len(receives[r]) :
            k <= m => receives[r][k].when <= receives[r][m].when
    BY DEF OutputInv, ReceiptsInOrder
  <2>4. CASE receives'[r] = receives[r]
    BY <2>2, <2>3, <2>4
  <2>5. CASE receives'[r] # receives[r]
    <3>1. /\ Len(receives'[r]) = Len(receives[r]) + 1
          /\ \A k \in 1 .. Len(receives[r]) : receives'[r][k] = receives[r][k]
          /\ receives'[r][Len(receives[r]) + 1].when = now
      BY <2>5, <1>9, Zenon
    <3>2. CASE j = Len(receives[r]) + 1
      BY <2>1, <2>2, <3>1, <3>2, <1>8
    <3>3. CASE j # Len(receives[r]) + 1
      <4>1. j \in 1 .. Len(receives[r]) /\ (i <= j => i \in 1 .. Len(receives[r]))
        BY <2>1, <3>1, <3>3
      <4>2. receives'[r][i].when <= now
        <5>1. CASE i = Len(receives[r]) + 1
          BY <5>1, <3>1, <1>8
        <5>2. CASE i \in 1 .. Len(receives[r])
          BY <5>2, <3>1, <2>2
        <5> QED
          BY <5>1, <5>2, <2>1, <3>1
      <4> QED
        BY <4>1, <4>2, <3>1, <2>3
    <3> QED
      BY <3>2, <3>3
  <2> QED
    BY <2>4, <2>5
<1>11. LogsCovered'
  <2> SUFFICES ASSUME NEW r \in RequestIDs, NEW l \in logs'[r]
               PROVE  \E i \in 1 .. Len(receives'[r]) :
                        receives'[r][i].highSeq >= l.seq /\ receives'[r][i].when <= l.at
    BY DEF LogsCovered
  <2>1. Len(receives[r]) \in Nat
    BY <1>8
  <2>2. CASE l \in logs[r]
    <3>1. PICK i \in 1 .. Len(receives[r]) :
            receives[r][i].highSeq >= l.seq /\ receives[r][i].when <= l.at
      BY <2>2 DEF OutputInv, LogsCovered
    <3>2. i \in 1 .. Len(receives'[r]) /\ receives'[r][i] = receives[r][i]
      <4>1. CASE receives'[r] = receives[r]
        BY <4>1
      <4>2. CASE Len(receives'[r]) = Len(receives[r]) + 1
        BY <4>2, <2>1, <1>9
      <4> QED
        BY <4>1, <4>2, <1>9, Zenon
    <3> QED
      BY <3>1, <3>2
  <2>3. CASE l \notin logs[r]
    <3>1. l.seq \in fresh(r) /\ l.at = now
      BY <2>3, <1>3
    <3>2. l.seq <= high(r) /\ high(r) \in Nat /\ l.seq \in Nat
      BY <3>1, <1>1, <1>2, SeqNumsAssumption
    <3>3. CASE receives'[r] # receives[r]
      <4>1. /\ Len(receives'[r]) = Len(receives[r]) + 1
            /\ receives'[r][Len(receives[r]) + 1].when = now
            /\ receives'[r][Len(receives[r]) + 1].highSeq = high(r)
        BY <3>3, <1>9, Zenon
      <4> QED
        BY <4>1, <3>1, <3>2, <2>1, <1>8
    <3>4. CASE receives'[r] = receives[r]
      <4>1. receives[r] # <<>> /\ ~(Head(receives[r]).highSeq < high(r))
        <5>1. receives[r] # Append(receives[r], [when |-> now, highSeq |-> high(r)])
          <6> DEFINE e == [when |-> now, highSeq |-> high(r)]
          <6>1. receives[r] \in Seq(Receipt \cup {e}) /\ e \in Receipt \cup {e}
            BY <1>8
          <6> QED
            BY <6>1, <2>1, AppendProperties
        <5> QED
          BY <5>1, <3>1, <3>4, <1>4
      <4>2. Len(receives[r]) >= 1 /\ Head(receives[r]) = receives[r][1]
            /\ receives[r][1] \in Receipt
        BY <4>1, <1>8
      <4>3. receives[r][1].highSeq >= high(r)
        <5>1. receives[r][1].highSeq \in Nat
          BY <4>2, SeqNumsAssumption DEF Receipt
        <5> QED
          BY <5>1, <4>1, <4>2, <3>2
      <4>4. receives[r][1].when <= now
        BY <4>2, <2>1 DEF OutputInv, ReceiptsInOrder
      <4>5. receives[r][1].highSeq >= l.seq
        <5>1. receives[r][1].highSeq \in Nat
          BY <4>2, SeqNumsAssumption DEF Receipt
        <5> QED
          BY <5>1, <4>3, <3>2
      <4> QED
        BY <4>2, <4>4, <4>5, <3>1, <3>4, <2>1
    <3> QED
      BY <3>3, <3>4
  <2> QED
    BY <2>2, <2>3
<1>12. HeadTimed'
  <2> SUFFICES ASSUME NEW r \in RequestIDs
               PROVE  /\ receives'[r] # <<>> => \E t \in timers' : t.req = r
                      /\ \A t \in timers' : t.req = r =>
                             /\ receives'[r] # <<>>
                             /\ t.seq = receives'[r][1].highSeq
                             /\ t.due <= Later(now, receives'[r][1].when + SortBuffer)
                      /\ \A t, u \in timers' : t.req = r /\ u.req = r => t = u
    BY <1>6 DEF HeadTimed, Later
  <2>1. CASE receives[r] = <<>> /\ fresh(r) # {}
    <3> DEFINE e == [when |-> now, highSeq |-> high(r)]
    <3>1. \A t : (t \in timers' /\ t.req = r) <=>
                  t = [req |-> r, seq |-> high(r), due |-> now + SortBuffer]
      BY <2>1, <1>5 DEF OutputInv, HeadTimed
    <3>2. receives'[r] = <<e>>
      BY <2>1, <1>4
    <3>3. receives'[r] # <<>> /\ receives'[r][1] = e
      BY <3>2
    <3>4. now + SortBuffer <= Later(now, receives'[r][1].when + SortBuffer)
      BY <3>3, <1>8 DEF Later
    <3>5. receives'[r][1].highSeq = high(r)
      BY <3>3
    <3> HIDE DEF e
    <3>6. \A t \in timers' : t.req = r =>
             t.seq = high(r) /\ t.due = now + SortBuffer
      BY <3>1
    <3>7. [req |-> r, seq |-> high(r), due |-> now + SortBuffer] \in timers'
      BY <3>1
    <3>8. \E t \in timers' : t.req = r
      BY <3>7
    <3>9. \A t, u \in timers' : t.req = r /\ u.req = r => t = u
      BY <3>1
    <3> QED
      BY <3>3, <3>4, <3>5, <3>6, <3>8, <3>9
  <2>2. CASE ~(receives[r] = <<>> /\ fresh(r) # {})
    <3>1. \A t : (t \in timers' /\ t.req = r) <=> (t \in timers /\ t.req = r)
      BY <2>2, <1>5
    <3>2. CASE receives[r] = <<>>
      <4>1. receives'[r] = <<>>
        BY <3>2, <2>2, <1>4
      <4> QED
        BY <3>1, <3>2, <4>1 DEF OutputInv, HeadTimed
    <3>3. CASE receives[r] # <<>>
      <4>1. Len(receives[r]) >= 1
        BY <3>3, <1>8
      <4>2. receives'[r] # <<>> /\ receives'[r][1] = receives[r][1]
        <5>1. CASE receives'[r] = receives[r]
          BY <5>1, <3>3
        <5>2. CASE Len(receives'[r]) = Len(receives[r]) + 1
          <6>1. receives'[r][1] = receives[r][1]
            BY <5>2, <4>1, <1>8, <1>9
          <6>2. receives'[r] # <<>>
            BY <5>2, <4>1, <1>8
          <6> QED
            BY <6>1, <6>2
        <5> QED
          BY <5>1, <5>2, <1>9, Zenon
      <4> QED
        BY <3>1, <3>3, <4>2 DEF OutputInv, HeadTimed
    <3> QED
      BY <3>2, <3>3
  <2> QED
    BY <2>1, <2>2
<1> QED
  BY <1>7, <1>10, <1>11, <1>12 DEF OutputInv

\* A timer that leaves logs behind is not that of the last receipt.
LEMMA SuccessorReceipt ==
    ASSUME OutputInv, NEW t \in timers, NEW l \in Beyond(t)
    PROVE  /\ t.req \in RequestIDs
           /\ receives[t.req] \in Seq(Receipt)
           /\ \E i \in 2 .. Len(receives[t.req]) :
                  receives[t.req][i].highSeq >= l.seq /\ receives[t.req][i].when <= l.at
<1>1. t.req \in RequestIDs /\ receives[t.req] \in Seq(Receipt) /\ t.seq \in SeqNums
  BY DEF OutputInv, OutputTypeOK, Timer
<1>2. l \in logs[t.req] /\ ~(l.seq <= t.seq) /\ l.seq \in SeqNums
  BY <1>1 DEF Beyond, UpTo, OutputInv, OutputTypeOK, Log
<1>3. t.seq = receives[t.req][1].highSeq
  BY <1>1 DEF OutputInv, HeadTimed
<1>4. PICK i \in 1 .. Len(receives[t.req]) :
        receives[t.req][i].highSeq >= l.seq /\ receives[t.req][i].when <= l.at
  BY <1>1, <1>2 DEF OutputInv, LogsCovered
<1>5. i # 1
  BY <1>2, <1>3, <1>4
<1> QED
  BY <1>1, <1>4, <1>5

LEMMA FireInv ==
    ASSUME OutputInv, NEW t \in timers, Fire(t)
    PROVE  OutputInv'
<1> DEFINE q == t.req
<1> USE BoundsAssumption
<1>1. /\ q \in RequestIDs /\ t \in Timer /\ now \in Times /\ now \in Nat
      /\ \A r \in RequestIDs : receives[r] \in Seq(Receipt)
  BY DEF OutputInv, OutputTypeOK, Timer, Times
<1>2. /\ receives[q] # <<>> /\ t.seq = receives[q][1].highSeq
      /\ \A u \in timers : u.req = q => u = t
  BY <1>1 DEF OutputInv, HeadTimed
<1>3. now' = now /\ logs' = [logs EXCEPT ![q] = Beyond(t)]
  BY DEF Fire
<1>4. logs'[q] = Beyond(t) /\ \A r \in RequestIDs \ {q} : logs'[r] = logs[r]
  BY <1>1, <1>3 DEF OutputInv, OutputTypeOK
<1>5. printed' \subseteq Log
  BY <1>1 DEF Fire, UpTo, OutputInv, OutputTypeOK
<1>6. /\ logs' \in [RequestIDs -> SUBSET Log]
      /\ \A r \in RequestIDs : logs'[r] \subseteq LogsOf(r)
  BY <1>1, <1>3, <1>4 DEF OutputInv, OutputTypeOK, Beyond
<1>7. CASE Beyond(t) = {}
  <2>1. receives' = [receives EXCEPT ![q] = <<>>] /\ timers' = timers \ {t}
    BY <1>7 DEF Fire
  <2>2. receives'[q] = <<>> /\ \A r \in RequestIDs \ {q} : receives'[r] = receives[r]
    BY <1>1, <2>1 DEF OutputInv, OutputTypeOK
  <2>3. OutputTypeOK'
    <3>1. receives' \in [RequestIDs -> Seq(Receipt)]
      BY <1>1, <2>1 DEF OutputInv, OutputTypeOK
    <3>2. timers' \subseteq Timer
      BY <2>1 DEF OutputInv, OutputTypeOK
    <3> QED
      BY <1>1, <1>3, <1>5, <1>6, <3>1, <3>2 DEF OutputTypeOK
  <2>4. ReceiptsInOrder'
    BY <2>2, <1>3 DEF OutputInv, ReceiptsInOrder
  <2>5. LogsCovered'
    BY <2>2, <1>4, <1>7 DEF OutputInv, LogsCovered
  <2>6. HeadTimed'
    <3> SUFFICES ASSUME NEW r \in RequestIDs
                 PROVE  /\ receives'[r] # <<>> => \E u \in timers' : u.req = r
                        /\ \A u \in timers' : u.req = r =>
                               /\ receives'[r] # <<>>
                               /\ u.seq = receives'[r][1].highSeq
                               /\ u.due <= Later(now, receives'[r][1].when + SortBuffer)
                        /\ \A u, v \in timers' : u.req = r /\ v.req = r => u = v
      BY <1>3 DEF HeadTimed, Later
    <3>1. CASE r = q
      BY <3>1, <2>1, <2>2, <1>2
    <3>2. CASE r # q
      <4>1. receives'[r] = receives[r]
        BY <3>2, <2>2
      <4>2. \A u : (u \in timers' /\ u.req = r) <=> (u \in timers /\ u.req = r)
        BY <3>2, <2>1
      <4> QED
        BY <4>1, <4>2 DEF OutputInv, HeadTimed
    <3> QED
      BY <3>1, <3>2
  <2> QED
    BY <2>3, <2>4, <2>5, <2>6 DEF OutputInv
<1>8. CASE Beyond(t) # {}
  <2> DEFINE rest == Tail(receives[q])
  <2>1. PICK l \in Beyond(t) : TRUE
    BY <1>8
  <2>2. Len(receives[q]) >= 2
    BY <2>1, <1>1, SuccessorReceipt
  <2>3. /\ rest \in Seq(Receipt) /\ Len(rest) = Len(receives[q]) - 1
        /\ \A i \in 1 .. Len(rest) : rest[i] = receives[q][i + 1]
    BY <1>1, <1>2, HeadTailProperties
  <2>4. rest # <<>> /\ Head(rest) = rest[1]
    <3>1. Len(rest) >= 1
      BY <2>2, <2>3, <1>1
    <3> HIDE DEF rest
    <3> QED
      BY <3>1, <2>3
  <2> HIDE DEF rest
  <2> DEFINE next == [req |-> q, seq |-> rest[1].highSeq,
                      due |-> Later(now, rest[1].when + SortBuffer)]
  <2>5. timers' = (timers \ {t}) \cup {next}
    BY <1>8, <2>4 DEF Fire, Successor, rest
  <2>6. receives' = [receives EXCEPT ![q] = rest]
    BY <1>8 DEF Fire, rest
  <2>7. receives'[q] = rest /\ \A r \in RequestIDs \ {q} : receives'[r] = receives[r]
    BY <1>1, <2>6 DEF OutputInv, OutputTypeOK
  <2>8. rest[1] \in Receipt
    BY <2>2, <2>3, <1>1
  <2>9. next \in Timer
    BY <2>8, <1>1 DEF Timer, Receipt, Times, Later
  <2>10. OutputTypeOK'
    <3>1. receives' \in [RequestIDs -> Seq(Receipt)]
      BY <1>1, <2>3, <2>6 DEF OutputInv, OutputTypeOK
    <3>2. timers' \subseteq Timer
      BY <2>5, <2>9 DEF OutputInv, OutputTypeOK
    <3> QED
      BY <1>1, <1>3, <1>5, <1>6, <3>1, <3>2 DEF OutputTypeOK
  <2>11. ReceiptsInOrder'
    <3> SUFFICES ASSUME NEW r \in RequestIDs,
                        NEW i \in 1 .. Len(receives'[r]), NEW j \in 1 .. Len(receives'[r])
                 PROVE  /\ receives'[r][i].when <= now
                        /\ i <= j => receives'[r][i].when <= receives'[r][j].when
      BY <1>3 DEF ReceiptsInOrder
    <3>1. CASE r # q
      BY <3>1, <2>7 DEF OutputInv, ReceiptsInOrder
    <3>2. CASE r = q
      <4>1. /\ i + 1 \in 1 .. Len(receives[q]) /\ j + 1 \in 1 .. Len(receives[q])
            /\ i <= j => i + 1 <= j + 1
        BY <3>2, <2>7, <2>3, <1>1
      <4>2. receives'[r][i] = receives[q][i + 1] /\ receives'[r][j] = receives[q][j + 1]
        BY <3>2, <2>7, <2>3
      <4> QED
        BY <4>1, <4>2, <1>1 DEF OutputInv, ReceiptsInOrder
    <3> QED
      BY <3>1, <3>2
  <2>12. LogsCovered'
    <3> SUFFICES ASSUME NEW r \in RequestIDs, NEW k \in logs'[r]
                 PROVE  \E i \in 1 .. Len(receives'[r]) :
                          receives'[r][i].highSeq >= k.seq /\ receives'[r][i].when <= k.at
      BY DEF LogsCovered
    <3>1. CASE r # q
      BY <3>1, <1>4, <2>7 DEF OutputInv, LogsCovered
    <3>2. CASE r = q
      <4>1. PICK i \in 2 .. Len(receives[q]) :
              receives[q][i].highSeq >= k.seq /\ receives[q][i].when <= k.at
        BY <3>2, <1>4, SuccessorReceipt
      <4>2. i - 1 \in 1 .. Len(rest) /\ rest[i - 1] = receives[q][i]
        BY <4>1, <2>3, <1>1
      <4> QED
        BY <4>1, <4>2, <3>2, <2>7
    <3> QED
      BY <3>1, <3>2
  <2>13. HeadTimed'
    <3> SUFFICES ASSUME NEW r \in RequestIDs
                 PROVE  /\ receives'[r] # <<>> => \E u \in timers' : u.req = r
                        /\ \A u \in timers' : u.req = r =>
                               /\ receives'[r] # <<>>
                               /\ u.seq = receives'[r][1].highSeq
                               /\ u.due <= Later(now, receives'[r][1].when + SortBuffer)
                        /\ \A u, v \in timers' : u.req = r /\ v.req = r => u = v
      BY <1>3 DEF HeadTimed, Later
    <3>1. next.req = q /\ next.seq = rest[1].highSeq
          /\ next.due = Later(now, rest[1].when + SortBuffer)
      OBVIOUS
    <3> HIDE DEF next
    <3>2. CASE r = q
      <4>1. \A u : (u \in timers' /\ u.req = r) <=> u = next
        BY <3>1, <3>2, <2>5, <1>2
      <4>2. next.due \in Nat
        BY <2>9 DEF Timer
      <4> QED
        BY <4>1, <4>2, <3>1, <3>2, <2>4, <2>7
    <3>3. CASE r # q
      <4>1. receives'[r] = receives[r]
        BY <3>3, <2>7
      <4>2. \A u : (u \in timers' /\ u.req = r) <=> (u \in timers /\ u.req = r)
        BY <3>1, <3>3, <2>5
      <4> QED
        BY <4>1, <4>2 DEF OutputInv, HeadTimed
    <3> QED
      BY <3>2, <3>3
  <2> QED
    BY <2>10, <2>11, <2>12, <2>13 DEF OutputInv
<1> QED
  BY <1>7, <1>8

LEMMA TickInv ==
    ASSUME OutputInv, Tick
    PROVE  OutputInv'
<1> USE BoundsAssumption
<1>1. now \in Times /\ now' = now + 1 /\ now' \in Times
  BY DEF OutputInv, OutputTypeOK, Tick, Times
<1>2. OutputTypeOK'
  BY <1>1 DEF OutputInv, OutputTypeOK, Tick
<1>3. \A r \in RequestIDs : \A i \in 1 .. Len(receives[r]) : receives[r][i].when \in Nat
  <2>1. \A r \in RequestIDs : receives[r] \in Seq(Receipt)
    BY DEF OutputInv, OutputTypeOK
  <2>2. \A r \in RequestIDs : \A i \in 1 .. Len(receives[r]) : receives[r][i] \in Receipt
    BY <2>1
  <2> QED
    BY <2>2 DEF Receipt, Times
<1>4. ReceiptsInOrder'
  BY <1>1, <1>3 DEF OutputInv, ReceiptsInOrder, Tick, Times
<1>5. LogsCovered'
  BY DEF OutputInv, LogsCovered, Tick
<1>6. HeadTimed'
  <2>1. \A r \in RequestIDs : \A t \in timers : t.req = r =>
            t.due <= Later(now, receives[r][1].when + SortBuffer)
    BY DEF OutputInv, HeadTimed
  <2>2. \A r \in RequestIDs : receives[r] # <<>> => receives[r][1].when \in Nat
    <3>1. \A r \in RequestIDs : receives[r] \in Seq(Receipt)
      BY DEF OutputInv, OutputTypeOK
    <3>2. \A r \in RequestIDs : receives[r] # <<>> => 1 \in 1 .. Len(receives[r])
      BY <3>1
    <3> QED
      BY <3>2, <1>3
  <2>3. \A t \in timers : t.due \in Nat
    BY DEF OutputInv, OutputTypeOK, Timer
  <2>4. \A r \in RequestIDs : \A t \in timers : t.req = r =>
            t.due <= Later(now', receives[r][1].when + SortBuffer)
    BY <1>1, <2>1, <2>2, <2>3 DEF Later, Times, OutputInv, HeadTimed
  <2> QED
    BY <2>4 DEF OutputInv, HeadTimed, Tick
<1> QED
  BY <1>2, <1>4, <1>5, <1>6 DEF OutputInv

\* A step of the loop, whatever the bounds on what arrives.
LoopNext ==
    \/ \E batch \in Batches : Receive(batch)
    \/ \E t \in timers : Fire(t)
    \/ Tick

LEMMA LoopInv == OutputInv /\ [LoopNext]_outputVars => OutputInv'
<1> SUFFICES ASSUME OutputInv, [LoopNext]_outputVars PROVE OutputInv'
  OBVIOUS
<1>1. ASSUME NEW batch \in Batches, Receive(batch) PROVE OutputInv'
  BY <1>1, ReceiveInv
<1>2. ASSUME NEW t \in timers, Fire(t) PROVE OutputInv'
  BY <1>2, FireInv
<1>3. CASE Tick
  BY <1>3, TickInv
<1>4. CASE UNCHANGED outputVars
  BY <1>4 DEF outputVars, OutputInv, OutputTypeOK, ReceiptsInOrder, LogsCovered,
              HeadTimed, Later
<1> QED
  BY <1>1, <1>2, <1>3, <1>4 DEF LoopNext

LEMMA StrandedInv == OutputInv => NoLogStranded
<1> SUFFICES ASSUME OutputInv, NEW t \in timers, NEW l \in Beyond(t)
             PROVE  Tail(receives[t.req]) # <<>>
  BY DEF NoLogStranded
<1>1. receives[t.req] \in Seq(Receipt) /\ Len(receives[t.req]) >= 2
  BY SuccessorReceipt
<1> DEFINE s == receives[t.req]
           rest == Tail(s)
<1>2. s # <<>>
  BY <1>1
<1>3. rest \in Seq(Receipt) /\ Len(rest) = Len(s) - 1
  BY <1>1, <1>2, HeadTailProperties
<1> HIDE DEF rest
<1>4. Len(rest) >= 1
  BY <1>1, <1>3
<1>5. rest # <<>>
  BY <1>3, <1>4
<1> QED
  BY <1>5 DEF rest

LEMMA OneTimerInv == OutputInv => OneTimerPerRequest
<1> SUFFICES ASSUME OutputInv, NEW r \in RequestIDs
             PROVE  /\ logs[r] # {} => \E t \in timers : t.req = r
                    /\ \A t, u \in {v \in timers : v.req = r} : t = u
                    /\ \A t \in {v \in timers : v.req = r} :
                           receives[r] # <<>> /\ t.seq = Head(receives[r]).highSeq
  BY DEF OneTimerPerRequest
<1>1. receives[r] \in Seq(Receipt)
  BY DEF OutputInv, OutputTypeOK
<1>2. logs[r] # {} => receives[r] # <<>>
  BY <1>1 DEF OutputInv, LogsCovered
<1>3. receives[r] # <<>> => Head(receives[r]) = receives[r][1]
  BY <1>1
<1> QED
  BY <1>2, <1>3 DEF OutputInv, HeadTimed

LEMMA OverstaysInv == OutputInv => NoLogOverstays
<1> SUFFICES ASSUME OutputInv, NEW r \in RequestIDs, NEW l \in logs[r],
                    now >= l.at + SortBuffer
             PROVE  \E t \in timers : t.req = r /\ t.due <= now
  BY DEF NoLogOverstays
<1>1. now \in Nat /\ l.at \in Nat /\ receives[r] \in Seq(Receipt) /\ SortBuffer \in Nat
  BY BoundsAssumption DEF OutputInv, OutputTypeOK, Log, Times
<1>2. PICK i \in 1 .. Len(receives[r]) : receives[r][i].when <= l.at
  BY DEF OutputInv, LogsCovered
<1>3. 1 \in 1 .. Len(receives[r]) /\ 1 <= i /\ receives[r] # <<>>
  BY <1>1, <1>2
<1>4. receives[r][1].when <= receives[r][i].when
  BY <1>2, <1>3 DEF OutputInv, ReceiptsInOrder
<1>5. receives[r][1] \in Receipt /\ receives[r][i] \in Receipt
  BY <1>1, <1>2, <1>3
<1>6. receives[r][1].when \in Nat /\ receives[r][i].when \in Nat
  BY <1>5 DEF Receipt, Times
<1>7. Later(now, receives[r][1].when + SortBuffer) = now
  BY <1>1, <1>2, <1>4, <1>6 DEF Later
<1>8. PICK t \in timers : t.req = r
  BY <1>3 DEF OutputInv, HeadTimed
<1>9. t.due <= now
  BY <1>7, <1>8 DEF OutputInv, HeadTimed
<1> QED
  BY <1>8, <1>9

LEMMA LoopImplements ==
    OutputInv /\ OutputInv' /\ [LoopNext]_outputVars
        => [Abstract!AbsNext]_(Abstract!abstractVars)
<1> SUFFICES ASSUME OutputInv, OutputInv', [LoopNext]_outputVars
             PROVE  [Abstract!AbsNext]_(Abstract!abstractVars)
  OBVIOUS
<1> USE DEF Abstract!AbsNext, Abstract!abstractVars
<1>1. ASSUME NEW batch \in Batches, Receive(batch)
      PROVE  Abstract!Accept
  <2>1. logs' \in [RequestIDs -> SUBSET UNION {LogsOf(r) : r \in RequestIDs}]
    BY DEF OutputInv, OutputTypeOK
  <2>2. \A r \in RequestIDs : logs[r] \subseteq logs'[r]
    BY <1>1 DEF Receive
  <2>3. printed' = printed
    BY <1>1 DEF Receive
  <2> QED
    BY <2>1, <2>2, <2>3 DEF Abstract!Accept
<1>2. ASSUME NEW t \in timers, Fire(t)
      PROVE  \E r \in RequestIDs : Abstract!Release(r)
  <2>1. t.req \in RequestIDs /\ t.seq \in Nat
    BY SeqNumsAssumption DEF OutputInv, OutputTypeOK, Timer
  <2>2. UpTo(t) \in SUBSET logs[t.req] /\ logs[t.req] \ UpTo(t) = Beyond(t)
    BY DEF UpTo, Beyond
  <2>3. ASSUME NEW l \in UpTo(t), NEW k \in logs[t.req] \ UpTo(t)
        PROVE  l.seq < k.seq
    <3>1. l.seq \in Nat /\ k.seq \in Nat
      <4>1. l \in Log /\ k \in Log
        BY <2>1 DEF UpTo, OutputInv, OutputTypeOK
      <4> QED
        BY <4>1, SeqNumsAssumption DEF Log
    <3>2. l.seq <= t.seq /\ ~(k.seq <= t.seq)
      BY DEF UpTo
    <3> QED
      BY <2>1, <3>1, <3>2
  <2>4. logs' = [logs EXCEPT ![t.req] = @ \ UpTo(t)]
    BY <1>2, <2>2 DEF Fire
  <2>5. printed' = printed \cup {l \in UpTo(t) : filterStream(l)}
    BY <1>2 DEF Fire
  <2>6. Abstract!Release(t.req)
    BY <2>2, <2>3, <2>4, <2>5 DEF Abstract!Release
  <2> QED
    BY <2>1, <2>6
<1>3. CASE Tick
  BY <1>3 DEF Tick
<1>4. CASE UNCHANGED outputVars
  BY <1>4 DEF outputVars
<1> QED
  BY <1>1, <1>2, <1>3, <1>4 DEF LoopNext

LEMMA OutputIsLoop == [OutputNext]_outputVars => [LoopNext]_outputVars
BY DEF OutputNext, LoopNext

\* Whatever arrives and whenever timers are served, the loop keeps its records
\* in step: types, receipts that cover the buffered logs, one timer each.
THEOREM OutputInvariant == OutputSafety => []OutputInv
<1>1. OutputInit => OutputInv
  BY InitInv
<1>2. OutputInv /\ [OutputNext]_outputVars => OutputInv'
  BY LoopInv, OutputIsLoop
<1> QED
  BY <1>1, <1>2, PTL DEF OutputSafety

\* The state of the loop keeps its types.
THEOREM OutputTypeCorrect == OutputSafety => []OutputTypeOK
<1>1. OutputInv => OutputTypeOK
  BY DEF OutputInv
<1> QED
  BY <1>1, OutputInvariant, PTL

\* receives[1:] never panics: logs left behind by a timer have a receipt left.
THEOREM NoLogIsStranded == OutputSafety => []NoLogStranded
BY StrandedInv, OutputInvariant, PTL

\* A request with buffered logs has exactly one timer, that of its head receipt.
THEOREM OneTimer == OutputSafety => []OneTimerPerRequest
BY OneTimerInv, OutputInvariant, PTL

\* A log that has been buffered for --sort-buffer has a timer that has run out.
THEOREM NoLogIsHeldTooLong == OutputSafety => []NoLogOverstays
BY OverstaysInv, OutputInvariant, PTL

\* The loop implements the abstract sort buffer: each request's logs leave it
\* lowest sequence number first, and the wanted ones are printed.
THEOREM Refinement == OutputSafety => ImplementsSortBuffer
<1>1. OutputInit => Abstract!AbsInit
  BY DEF OutputInit, Abstract!AbsInit
<1>2. OutputInv /\ OutputInv' /\ [OutputNext]_outputVars
        => [Abstract!AbsNext]_(Abstract!abstractVars)
  BY LoopImplements, OutputIsLoop
<1> QED
  BY <1>1, <1>2, OutputInvariant, PTL
     DEF OutputSafety, ImplementsSortBuffer, Abstract!AbsSpec

-----------------------------------------------------------------------------
(* tail and the output loop: what is handed over.                          *)

\* The IDs of the batches of the stream.
StreamIDs ==
    {id \in Nat \X Nat : id[1] \in 1 .. LastWindow /\ id[2] \in 1 .. Len(Published[id[1]])}

BatchLine == [kind : {"batch"}, id : StreamIDs]
OtherLine == [kind : {"garbled", "blank"}, id : Nat \X Nat]
StreamLine == BatchLine \cup OtherLine

\* What a line names is a batch of the stream.
StreamTyped ==
    /\ curWindow \in Int
    /\ lastBatchID \in Nat \X Nat
    /\ path \in [from : Int, batch : Nat \X Nat]
    /\ resp \in [window : Int, lines : Seq(StreamLine), cut : BOOLEAN,
                 link : {"ok", "badlink", "nolink"}]
    /\ sent \in Seq(StreamIDs)
    /\ faults \in Seq(FaultKinds)

\* Of the output loop only this is needed here.
BufferTyped ==
    /\ DOMAIN logs = RequestIDs
    /\ \A t \in timers : t.req \in RequestIDs

LEMMA FromType == From \in Int /\ Live \in Nat \ {0}
BY StreamAssumption DEF From

\* The IDs of a window are numbered through.
LEMMA IDsType ==
    ASSUME NEW w
    PROVE  /\ IDs(w) \in Seq(StreamIDs)
           /\ \A i \in 1 .. Len(IDs(w)) : IDs(w)[i] = <<w, i>>
           /\ w \in 1 .. LastWindow => Len(IDs(w)) = Len(Published[w])
<1>1. CASE w \in 1 .. LastWindow
  <2>1. Published[w] \in Seq(Batches) /\ LastWindow \in Nat
    BY <1>1, PublishedAssumption DEF LastWindow
  <2>2. /\ DOMAIN Published[w] = 1 .. Len(Published[w]) /\ Len(Published[w]) \in Nat
    BY <2>1
  <2>3. IDs(w) = [i \in 1 .. Len(Published[w]) |-> <<w, i>>]
    BY <1>1, <2>2 DEF IDs
  <2>4. \A i \in 1 .. Len(Published[w]) : <<w, i>> \in StreamIDs
    BY <1>1, <2>1, <2>2 DEF StreamIDs
  <2> QED
    BY <1>1, <2>2, <2>3, <2>4
<1>2. CASE w \notin 1 .. LastWindow
  BY <1>2 DEF IDs
<1> QED
  BY <1>1, <1>2

LEMMA PendingType ==
    ASSUME StreamTyped
    PROVE  /\ Pending \in Seq(StreamIDs)
           /\ path.batch[1] # Requested => Pending = IDs(Requested)
           /\ path.batch[1] = Requested =>
                  /\ Len(Pending) = IF path.batch[2] < Len(IDs(Requested))
                                    THEN Len(IDs(Requested)) - path.batch[2] ELSE 0
                  /\ \A i \in 1 .. Len(Pending) : Pending[i] = <<Requested, path.batch[2] + i>>
<1> DEFINE all == IDs(Requested)
           m == path.batch[2] + 1
<1>1. /\ all \in Seq(StreamIDs) /\ Len(all) \in Nat
      /\ \A i \in 1 .. Len(all) : all[i] = <<Requested, i>>
  BY IDsType
<1>2. m \in Nat \ {0} /\ path.batch[2] \in Nat
  BY DEF StreamTyped
<1>3. Pending = IF path.batch[1] = Requested THEN SubSeq(all, m, Len(all)) ELSE all
  BY DEF Pending
<1> HIDE DEF all, m
<1>4. /\ SubSeq(all, m, Len(all)) \in Seq(StreamIDs)
      /\ Len(SubSeq(all, m, Len(all))) = IF m <= Len(all) THEN Len(all) - m + 1 ELSE 0
      /\ \A i \in 1 .. Len(all) - m + 1 : SubSeq(all, m, Len(all))[i] = all[m + i - 1]
  <2>1. \A i \in m .. Len(all) : all[i] \in StreamIDs
    BY <1>1, <1>2
  <2> QED
    BY <1>1, <1>2, <2>1, SubSeqProperties
<1>5. CASE path.batch[1] = Requested
  <2>1. /\ Len(Pending) = IF m <= Len(all) THEN Len(all) - m + 1 ELSE 0
        /\ \A i \in 1 .. Len(all) - m + 1 : Pending[i] = all[m + i - 1]
    BY <1>3, <1>4, <1>5
  <2>2. \A i \in 1 .. Len(Pending) : i \in 1 .. Len(all) - m + 1 /\ m + i - 1 \in 1 .. Len(all)
                                     /\ m + i - 1 = path.batch[2] + i
    <3> DEFINE k == path.batch[2]
    <3>1. k \in Nat /\ m = k + 1 /\ Len(all) \in Nat
      BY <1>1, <1>2 DEF m
    <3>2. Len(Pending) = IF m <= Len(all) THEN Len(all) - m + 1 ELSE 0
      BY <2>1
    <3> HIDE DEF k
    <3>3. \A i \in 1 .. Len(Pending) : i \in 1 .. Len(all) - m + 1
                                       /\ m + i - 1 \in 1 .. Len(all) /\ m + i - 1 = k + i
      BY <3>1, <3>2
    <3> QED
      BY <3>3 DEF k
  <2>3. Len(Pending) = IF path.batch[2] < Len(all) THEN Len(all) - path.batch[2] ELSE 0
    BY <1>1, <1>2, <2>1 DEF m
  <2> QED
    BY <1>1, <1>3, <1>4, <1>5, <2>1, <2>2, <2>3 DEF all
<1>6. CASE path.batch[1] # Requested
  BY <1>1, <1>3, <1>6 DEF all
<1> QED
  BY <1>5, <1>6

\* The batch lines of a sequence of IDs.
LEMMA LinesType ==
    ASSUME NEW ids \in Seq(StreamIDs)
    PROVE  /\ AsLines(ids) \in Seq(BatchLine) /\ AsLines(ids) \in Seq(StreamLine)
           /\ Len(AsLines(ids)) = Len(ids)
           /\ \A i \in 1 .. Len(ids) : AsLines(ids)[i] = [kind |-> "batch", id |-> ids[i]]
<1>1. DOMAIN ids = 1 .. Len(ids) /\ Len(ids) \in Nat
  OBVIOUS
<1>2. AsLines(ids) = [i \in 1 .. Len(ids) |-> [kind |-> "batch", id |-> ids[i]]]
  BY <1>1 DEF AsLines
<1>3. \A i \in 1 .. Len(ids) : [kind |-> "batch", id |-> ids[i]] \in BatchLine
  BY DEF BatchLine
<1>4. AsLines(ids) \in Seq(BatchLine)
  BY <1>1, <1>2, <1>3
<1>5. AsLines(ids) \in Seq(StreamLine)
  BY <1>4, SeqMonotonic, BatchLine \subseteq StreamLine DEF StreamLine
<1> QED
  BY <1>1, <1>2, <1>4, <1>5

\* Some of the first elements of a sequence.
LEMMA FrontType ==
    ASSUME NEW S, NEW s \in Seq(S), NEW n \in 0 .. Len(s)
    PROVE  /\ SubSeq(s, 1, n) \in Seq(S) /\ Len(SubSeq(s, 1, n)) = n
           /\ \A i \in 1 .. n : SubSeq(s, 1, n)[i] = s[i]
<1>1. \A i \in 1 .. n : s[i] \in S
  OBVIOUS
<1>2. n \in Int /\ 1 \in Int
  OBVIOUS
<1>3. /\ SubSeq(s, 1, n) \in Seq(S)
      /\ Len(SubSeq(s, 1, n)) = IF 1 <= n THEN n - 1 + 1 ELSE 0
      /\ \A i \in 1 .. n - 1 + 1 : SubSeq(s, 1, n)[i] = s[1 + i - 1]
  BY <1>1, <1>2, SubSeqProperties
<1> QED
  BY <1>3

\* A line put in front of one of the others.
LEMMA InsertedType ==
    ASSUME NEW S, NEW s \in Seq(S), NEW n \in 1 .. Len(s), NEW e \in S
    PROVE  /\ InsertAt(s, n, e) \in Seq(S) /\ Len(InsertAt(s, n, e)) = Len(s) + 1
           /\ InsertAt(s, n, e)[n] = e
           /\ \A i \in 1 .. Len(s) + 1 :
                 /\ i < n => InsertAt(s, n, e)[i] = s[i]
                 /\ i > n => InsertAt(s, n, e)[i] = s[i - 1]
<1> DEFINE a == SubSeq(s, 1, n - 1)
           b == SubSeq(s, n, Len(s))
           front == a \o <<e>>
<1>1. Len(s) \in Nat /\ n \in Nat \ {0} /\ n - 1 \in 0 .. Len(s)
  OBVIOUS
<1>2. /\ a \in Seq(S) /\ Len(a) = n - 1
      /\ \A i \in 1 .. n - 1 : a[i] = s[i]
  BY <1>1, FrontType
<1>3. /\ b \in Seq(S) /\ Len(b) = Len(s) - n + 1
      /\ \A i \in 1 .. Len(s) - n + 1 : b[i] = s[n + i - 1]
  <2>1. \A i \in n .. Len(s) : s[i] \in S
    OBVIOUS
  <2> QED
    BY <1>1, <2>1, SubSeqProperties
<1>4. <<e>> \in Seq(S) /\ Len(<<e>>) = 1 /\ <<e>>[1] = e
  OBVIOUS
<1>5. InsertAt(s, n, e) = front \o b
  BY DEF InsertAt
<1> HIDE DEF a, b
<1>6. /\ front \in Seq(S) /\ Len(front) = n
      /\ \A i \in 1 .. n : front[i] = IF i <= n - 1 THEN a[i] ELSE <<e>>[i - (n - 1)]
  BY <1>1, <1>2, <1>4, ConcatProperties
<1> HIDE DEF front
<1>7. /\ InsertAt(s, n, e) \in Seq(S) /\ Len(InsertAt(s, n, e)) = Len(s) + 1
      /\ \A i \in 1 .. Len(s) + 1 :
            InsertAt(s, n, e)[i] = IF i <= n THEN front[i] ELSE b[i - n]
  <2>1. Len(front) + Len(b) = Len(s) + 1
    BY <1>1, <1>3, <1>6
  <2>2. /\ front \o b \in Seq(S) /\ Len(front \o b) = Len(front) + Len(b)
        /\ \A i \in 1 .. Len(front) + Len(b) :
              (front \o b)[i] = IF i <= Len(front) THEN front[i] ELSE b[i - Len(front)]
    BY <1>3, <1>6, ConcatProperties
  <2> QED
    BY <1>5, <1>6, <2>1, <2>2
<1>8. InsertAt(s, n, e)[n] = e
  BY <1>1, <1>4, <1>6, <1>7
<1>9. ASSUME NEW i \in 1 .. Len(s) + 1, i < n PROVE InsertAt(s, n, e)[i] = s[i]
  BY <1>1, <1>2, <1>6, <1>7, <1>9
<1>10. ASSUME NEW i \in 1 .. Len(s) + 1, i > n PROVE InsertAt(s, n, e)[i] = s[i - 1]
  <2>1. i - n \in 1 .. Len(s) - n + 1 /\ n + (i - n) - 1 = i - 1 /\ ~(i <= n)
    BY <1>1, <1>10
  <2> QED
    BY <1>3, <1>7, <2>1
<1> QED
  BY <1>7, <1>8, <1>9, <1>10

-----------------------------------------------------------------------------
(* The steps of tail keep to the stream.                                   *)

LEMMA StreamInit == Init => StreamTyped /\ BufferTyped /\ LogsConserved
<1> SUFFICES ASSUME Init PROVE StreamTyped /\ BufferTyped /\ LogsConserved
  OBVIOUS
<1>1. StreamTyped
  BY FromType DEF Init, StreamTyped, makeNewPath, NoID, NoResponse
<1>2. BufferTyped
  BY DEF Init, OutputInit, BufferTyped
<1>3. UNION Range(logs) = {} /\ Range(sent) = {} /\ printed = {}
  BY DEF Init, OutputInit, Range
<1> QED
  BY <1>1, <1>2, <1>3 DEF LogsConserved

\* Whatever goes wrong, the lines of an answer are those of the stream, or spoilt.
LEMMA AnswerTyped ==
    ASSUME StreamTyped, ServerStep PROVE StreamTyped'
<1>1. Requested \in Int
  BY FromType DEF Requested, StreamTyped
<1>2. ASSUME NEW kind, Fault(kind) PROVE faults' \in Seq(FaultKinds)
  BY <1>2, StreamAssumption DEF Fault, StreamTyped
<1>3. ASSUME NEW lines \in Seq(StreamLine), NEW cut \in BOOLEAN,
             NEW link \in {"ok", "badlink", "nolink"}, Answer(lines, cut, link),
             faults' \in Seq(FaultKinds)
      PROVE  StreamTyped'
  BY <1>1, <1>3 DEF Answer, StreamTyped
<1>4. /\ Pending \in Seq(StreamIDs) /\ AsLines(Pending) \in Seq(StreamLine)
      /\ Len(AsLines(Pending)) = Len(Pending) /\ DOMAIN Pending = 1 .. Len(Pending)
  BY PendingType, LinesType
<1>5. CASE AnswerAll
  BY <1>3, <1>4, <1>5 DEF AnswerAll, StreamTyped
<1>6. CASE AnswerCut
  <2>1. PICK n \in 0 .. Len(Pending) :
          Fault("cut") /\ Answer(AsLines(SubSeq(Pending, 1, n)), TRUE, "ok")
    BY <1>6 DEF AnswerCut
  <2>2. SubSeq(Pending, 1, n) \in Seq(StreamIDs)
    BY <1>4, FrontType
  <2>3. AsLines(SubSeq(Pending, 1, n)) \in Seq(StreamLine)
    BY <2>2, LinesType
  <2> QED
    BY <1>2, <1>3, <2>1, <2>3
<1>7. ASSUME NEW kind \in {"garbled", "blank"}, AnswerSpoilt(kind) PROVE StreamTyped'
  <2> DEFINE lines == AsLines(Pending)
             spoilt(n) == IF kind = "garbled" THEN [lines EXCEPT ![n].kind = kind]
                          ELSE InsertAt(lines, n, [kind |-> kind, id |-> NoID])
  <2>1. PICK n \in 1 .. Len(Pending) : Fault(kind) /\ Answer(spoilt(n), FALSE, "ok")
    BY <1>4, <1>7 DEF AnswerSpoilt
  <2>2. lines \in Seq(BatchLine) /\ lines[n] \in BatchLine
    BY <1>4, LinesType
  <2>3. CASE kind = "garbled"
    <3>1. [lines[n] EXCEPT !.kind = "garbled"] \in OtherLine
      BY <2>2 DEF BatchLine, OtherLine, StreamIDs
    <3>2. [lines EXCEPT ![n].kind = "garbled"]
            = [lines EXCEPT ![n] = [lines[n] EXCEPT !.kind = "garbled"]]
      OBVIOUS
    <3>3. lines \in Seq(StreamLine) /\ n \in 1 .. Len(lines)
      BY <1>4
    <3> HIDE DEF lines
    <3>4. [lines EXCEPT ![n] = [lines[n] EXCEPT !.kind = "garbled"]] \in Seq(StreamLine)
      BY <3>1, <3>3, ExceptSeq DEF StreamLine
    <3> QED
      BY <1>2, <1>3, <2>1, <2>3, <3>2, <3>4
  <2>4. CASE kind = "blank"
    <3>1. [kind |-> kind, id |-> NoID] \in StreamLine
      BY <2>4 DEF StreamLine, OtherLine, NoID
    <3>2. spoilt(n) \in Seq(StreamLine)
      BY <1>4, <2>4, <3>1, InsertedType
    <3> QED
      BY <1>2, <1>3, <2>1, <3>2
  <2> QED
    BY <2>3, <2>4
<1>8. ASSUME NEW kind \in {"badlink", "nolink"}, AnswerMislinked(kind) PROVE StreamTyped'
  BY <1>2, <1>3, <1>4, <1>8 DEF AnswerMislinked
<1>9. CASE Busy \/ Refused
  BY <1>2, <1>9 DEF Busy, Refused, StreamTyped
<1> QED
  BY <1>5, <1>6, <1>7, <1>8, <1>9 DEF ServerStep

\* A scan takes the first line.
LEMMA ScanTakes ==
    ASSUME StreamTyped, NEW kind, Scan(kind)
    PROVE  /\ Line \in StreamLine /\ Line.kind = kind /\ Line = resp.lines[1]
           /\ kind = "batch" => Line.id \in StreamIDs
           /\ resp' = [resp EXCEPT !.lines = Tail(resp.lines)]
           /\ resp' \in [window : Int, lines : Seq(StreamLine), cut : BOOLEAN,
                         link : {"ok", "badlink", "nolink"}]
           /\ UNCHANGED <<curWindow, tailAt, faults>>
<1>1. resp.lines \in Seq(StreamLine) /\ resp.lines # <<>>
  BY DEF Scan, StreamTyped
<1>2. Head(resp.lines) \in StreamLine /\ Tail(resp.lines) \in Seq(StreamLine)
      /\ Head(resp.lines) = resp.lines[1]
  BY <1>1, HeadTailProperties
<1>3. resp' = [resp EXCEPT !.lines = Tail(resp.lines)]
  BY DEF Scan
<1>4. kind = "batch" => Line.id \in StreamIDs
  BY <1>2 DEF Scan, Line, StreamLine, BatchLine, OtherLine
<1> QED
  BY <1>2, <1>3, <1>4 DEF Scan, Line, StreamTyped

LEMMA TailTyped ==
    ASSUME StreamTyped, TailStep PROVE StreamTyped'
<1> USE DEF StreamTyped, makeNewPath
<1>1. CASE ReachTo \/ Request
  BY <1>1 DEF ReachTo, Request
<1>2. CASE ScanBatch
  <2>1. Line.id \in StreamIDs /\ Line.id \in Nat \X Nat
    BY <1>2, ScanTakes DEF ScanBatch, StreamIDs
  <2> QED
    BY <1>2, <2>1, ScanTakes DEF ScanBatch
<1>3. CASE ScanBlank
  BY <1>3, ScanTakes DEF ScanBlank
<1>4. CASE ScanGarbled
  BY <1>4, ScanTakes DEF ScanGarbled
<1>5. CASE ScanBroken
  BY <1>5 DEF ScanBroken, ScanEnds
<1>6. CASE FollowLink
  <2>1. NextLink(resp.window) \in Int
    BY DEF NextLink
  <2> QED
    BY <1>6, <2>1 DEF FollowLink, ScanEnds, NoID
<1>7. CASE LinkPanic
  BY <1>7 DEF LinkPanic, tailVars
<1> QED
  BY <1>1, <1>2, <1>3, <1>4, <1>5, <1>6, <1>7 DEF TailStep

\* What the other steps leave alone.
LEMMA OthersQuiet ==
    ASSUME OutputStep \/ ExecReturns \/ ExecSignalled \/ UNCHANGED vars
    PROVE  UNCHANGED tailVars
BY DEF OutputStep, ExecReturns, ExecSignalled, vars

LEMMA StreamStep == StreamTyped /\ [Next]_vars => StreamTyped'
<1> SUFFICES ASSUME StreamTyped, [Next]_vars PROVE StreamTyped'
  OBVIOUS
<1>1. CASE OutputStep \/ ExecReturns \/ ExecSignalled \/ UNCHANGED vars
  BY <1>1, OthersQuiet DEF tailVars, StreamTyped
<1> QED
  BY <1>1, AnswerTyped, TailTyped DEF Next

-----------------------------------------------------------------------------
(* No log is lost between tail and the terminal.                           *)

\* A log on its way from the stream, without the time it was buffered at.
Plain(l) == [req |-> l.req, seq |-> l.seq]

\* The plain log x is in the buffer or on the terminal.
Buffered(x) == \E r \in RequestIDs : \E l \in logs[r] : x = Plain(l)
Shown(x) == \E l \in printed : x = Plain(l)

Taken == UNION {Published[id[1]][id[2]] : id \in Range(sent)}

Conserved ==
    /\ \A x : Buffered(x) \/ Shown(x) => x \in Taken
    /\ \A x \in Taken : filterStream(x) => Buffered(x) \/ Shown(x)

LEMMA ConservedIs == ASSUME BufferTyped PROVE LogsConserved <=> Conserved
<1> DEFINE Wire(S) == {[req |-> l.req, seq |-> l.seq] : l \in S}
<1>1. \A x : x \in Wire(printed) <=> Shown(x)
  BY DEF Shown, Plain
<1>2. \A x : x \in Wire(UNION Range(logs)) <=> Buffered(x)
  BY DEF Buffered, Plain, Range, BufferTyped
<1>3. LogsConserved <=>
        /\ Wire(printed) \cup Wire(UNION Range(logs)) \subseteq Taken
        /\ {l \in Taken : filterStream(l)}
               \subseteq Wire(printed) \cup Wire(UNION Range(logs))
  BY DEF LogsConserved, Taken
<1> HIDE DEF Wire
<1> QED
  BY <1>1, <1>2, <1>3 DEF Conserved

\* A published batch is a set of plain logs of known requests.
LEMMA PublishedLogs ==
    ASSUME NEW id \in StreamIDs, NEW x \in Published[id[1]][id[2]]
    PROVE  x.req \in RequestIDs /\ x = Plain(x)
<1>1. Published[id[1]] \in Seq(Batches)
  BY PublishedAssumption DEF StreamIDs, LastWindow
<1>2. Published[id[1]][id[2]] \in Batches
  BY <1>1 DEF StreamIDs
<1>3. x \in [req : RequestIDs, seq : SeqNums]
  BY <1>2, BatchesAssumption
<1> QED
  BY <1>3 DEF Plain

\* A batch is handed over: its logs go into the buffer.
LEMMA ReceiveConserves ==
    ASSUME BufferTyped, Conserved, StreamTyped, ScanBatch
    PROVE  BufferTyped' /\ Conserved'
<1> DEFINE id == Line.id
           batch == Published[id[1]][id[2]]
<1>1. id \in StreamIDs /\ sent \in Seq(StreamIDs)
  BY ScanTakes DEF ScanBatch, StreamTyped
<1>2. sent' = Append(sent, id) /\ Receive(batch)
  BY DEF ScanBatch
<1> HIDE DEF id
<1>3. Range(sent') = Range(sent) \cup {id}
  <2>1. /\ DOMAIN sent = 1 .. Len(sent) /\ Len(sent) \in Nat
        /\ DOMAIN sent' = 1 .. Len(sent) + 1
        /\ \A i \in 1 .. Len(sent) + 1 : sent'[i] = IF i = Len(sent) + 1 THEN id ELSE sent[i]
    BY <1>1, <1>2
  <2> QED
    BY <2>1 DEF Range
<1>4. Taken' = Taken \cup batch
  BY <1>3 DEF Taken
<1>5. /\ printed' = printed
      /\ logs' = [r \in RequestIDs |->
             logs[r] \cup {[req |-> r, seq |-> s, at |-> now] : s \in splitByReqID(batch, r)}]
      /\ \A t \in timers' : t \in timers \/ t.req \in RequestIDs
  BY <1>2 DEF Receive
<1>6. \A x \in batch : x.req \in RequestIDs /\ x = Plain(x)
  BY <1>1, PublishedLogs
<1> HIDE DEF batch
<1>7. ASSUME NEW x PROVE Buffered(x)' <=> Buffered(x) \/ x \in batch
  <2>1. ASSUME NEW r \in RequestIDs, NEW l \in logs'[r], x = Plain(l)
        PROVE  Buffered(x) \/ x \in batch
    <3>1. CASE l \in logs[r]
      BY <2>1, <3>1 DEF Buffered
    <3>2. CASE l \notin logs[r]
      <4>1. PICK s \in splitByReqID(batch, r) : l = [req |-> r, seq |-> s, at |-> now]
        BY <1>5, <2>1, <3>2
      <4>2. PICK y \in batch : y.req = r /\ y.seq = s
        BY <4>1 DEF splitByReqID
      <4>3. x = Plain(y)
        BY <2>1, <4>1, <4>2 DEF Plain
      <4> QED
        BY <1>6, <4>2, <4>3
    <3> QED
      BY <3>1, <3>2
  <2>2. ASSUME x \in batch PROVE Buffered(x)'
    <3> DEFINE l == [req |-> x.req, seq |-> x.seq, at |-> now]
    <3>1. x.req \in RequestIDs /\ x.seq \in splitByReqID(batch, x.req)
      BY <1>6, <2>2 DEF splitByReqID
    <3>2. l \in logs'[x.req]
      BY <1>5, <3>1
    <3>3. x = Plain(l)
      BY <1>6, <2>2 DEF Plain
    <3> QED
      BY <3>1, <3>2, <3>3 DEF Buffered, Plain
  <2>3. ASSUME Buffered(x) PROVE Buffered(x)'
    BY <1>5, <2>3 DEF Buffered
  <2> QED
    BY <2>1, <2>2, <2>3 DEF Buffered
<1>8. \A x : Shown(x)' <=> Shown(x)
  BY <1>5 DEF Shown
<1>9. BufferTyped'
  BY <1>5 DEF BufferTyped
<1>10. Conserved'
  BY <1>4, <1>7, <1>8 DEF Conserved, filterStream
<1> QED
  BY <1>9, <1>10

\* A timer fires: what leaves the buffer is printed if it is wanted.
LEMMA FireConserves ==
    ASSUME BufferTyped, Conserved, NEW t \in timers, Fire(t), sent' = sent
    PROVE  BufferTyped' /\ Conserved'
<1>1. /\ t.req \in RequestIDs
      /\ printed' = printed \cup {l \in UpTo(t) : filterStream(l)}
      /\ logs' = [logs EXCEPT ![t.req] = Beyond(t)]
  BY DEF Fire, BufferTyped
<1>2. /\ logs'[t.req] = Beyond(t) /\ logs[t.req] = UpTo(t) \cup Beyond(t)
      /\ \A r \in RequestIDs \ {t.req} : logs'[r] = logs[r]
  BY <1>1 DEF BufferTyped, UpTo, Beyond
<1>3. BufferTyped'
  <2>1. \A u \in timers' : u \in timers \/ u.req = t.req
    BY DEF Fire, Successor
  <2> QED
    BY <1>1, <2>1 DEF BufferTyped
<1>4. ASSUME NEW x, Buffered(x)' \/ Shown(x)' PROVE Buffered(x) \/ Shown(x)
  <2>1. CASE Buffered(x)'
    BY <1>2, <2>1 DEF Buffered
  <2>2. CASE Shown(x)'
    BY <1>1, <1>2, <2>2 DEF Shown, Buffered
  <2> QED
    BY <1>4, <2>1, <2>2
<1>5. ASSUME NEW x, filterStream(x), Buffered(x) \/ Shown(x) PROVE Buffered(x)' \/ Shown(x)'
  <2>1. CASE Shown(x)
    BY <1>1, <2>1 DEF Shown
  <2>2. ASSUME NEW r \in RequestIDs, NEW l \in logs[r], x = Plain(l)
        PROVE  Buffered(x)' \/ Shown(x)'
    <3>1. filterStream(l)
      BY <1>5, <2>2 DEF filterStream, Plain
    <3>2. CASE r = t.req /\ l \in UpTo(t)
      BY <1>1, <2>2, <3>1, <3>2 DEF Shown
    <3>3. CASE ~(r = t.req /\ l \in UpTo(t))
      BY <1>2, <2>2, <3>3 DEF Buffered
    <3> QED
      BY <3>2, <3>3
  <2> QED
    BY <1>5, <2>1, <2>2 DEF Buffered
<1>6. Taken' = Taken
  BY DEF Taken
<1>7. Conserved'
  BY <1>4, <1>5, <1>6 DEF Conserved, filterStream
<1> QED
  BY <1>3, <1>7

LEMMA ConservedStep ==
    ASSUME BufferTyped, Conserved, StreamTyped, [Next]_vars
    PROVE  BufferTyped' /\ Conserved'
<1>1. ASSUME UNCHANGED <<logs, timers, printed, sent>> PROVE BufferTyped' /\ Conserved'
  BY <1>1 DEF BufferTyped, Conserved, Buffered, Shown, Taken, filterStream
<1>2. CASE ServerStep
  <2>1. UNCHANGED <<logs, timers, printed, sent>>
    BY <1>2 DEF ServerStep, AnswerAll, AnswerCut, AnswerSpoilt, AnswerMislinked, Answer, Busy,
                Refused, outputVars
  <2> QED
    BY <1>1, <2>1
<1>3. CASE TailStep /\ ~ScanBatch
  <2>1. UNCHANGED <<logs, timers, printed, sent>>
    BY <1>3 DEF TailStep, ReachTo, Request, ScanBlank, ScanGarbled, ScanBroken, ScanEnds,
                FollowLink, LinkPanic, outputVars, tailVars
  <2> QED
    BY <1>1, <2>1
<1>4. CASE ScanBatch
  BY <1>4, ReceiveConserves
<1>5. CASE OutputStep
  <2>1. sent' = sent
    BY <1>5 DEF OutputStep, tailVars
  <2>2. CASE \E t \in timers : Fire(t)
    BY <2>1, <2>2, FireConserves
  <2>3. CASE Tick
    BY <1>1, <2>1, <2>3 DEF Tick
  <2> QED
    BY <1>5, <2>2, <2>3 DEF OutputStep
<1>6. CASE ExecReturns \/ ExecSignalled \/ UNCHANGED vars
  BY <1>1, <1>6 DEF ExecReturns, ExecSignalled, vars, outputVars, tailVars
<1> QED
  BY <1>2, <1>3, <1>4, <1>5, <1>6 DEF Next

\* For any stream and whatever goes wrong with it: a log of a batch that tail has handed
\* over is buffered, or printed if its stream is wanted, and no other log is
\* (outputLoop and printLogs, logtail/root.go).
THEOREM LogsAreConserved == Spec => []LogsConserved
<1> DEFINE I == StreamTyped /\ BufferTyped /\ LogsConserved
<1>1. I /\ [Next]_vars => I'
  <2> SUFFICES ASSUME I, [Next]_vars PROVE I'
    OBVIOUS
  <2>1. BufferTyped' /\ Conserved'
    BY ConservedIs, ConservedStep
  <2>2. LogsConserved'
    BY <2>1, ConservedIs, PTL
  <2> QED
    BY <2>1, <2>2, StreamStep
<1>2. Init => I
  BY StreamInit
<1> QED
  BY <1>1, <1>2, PTL DEF Spec

-----------------------------------------------------------------------------
(* No batch is skipped.                                                    *)

\* Every line has parsed, and every link has led on.
Clean == Range(faults) \cap {"garbled", "badlink", "nolink"} = {}

\* The window tail is reading, and the number of batches it has handed over of it.
Window == IF curWindow = 0 THEN Live ELSE curWindow
Reached == lastBatchID[2]

Behind(id) == id[1] < Window \/ (id[1] = Window /\ id[2] <= Reached)

SentInOrder ==
    /\ \A j, k \in 1 .. Len(sent) : j < k => Earlier(sent[j], sent[k])
    /\ \A id \in StreamIDs : id \in Range(sent) <=> FirstWindow <= id[1] /\ Behind(id)

\* Line i of an answer in which the line at p is blank and the others carry on from
\* batch r of window w.
LineFollows(line, i, p, w, r) ==
    /\ i < p => line.kind = "batch" /\ line.id = <<w, r + i>>
    /\ i = p => line.kind = "blank"
    /\ i > p => line.kind = "batch" /\ line.id = <<w, r + i - 1>>

\* Its lines reach to the end of the window if it is whole.
Follows(lines, cut, p, w, r) ==
    /\ \A i \in 1 .. Len(lines) : LineFollows(lines[i], i, p, w, r)
    /\ ~cut => Len(IDs(w)) = r + IF p <= Len(lines) THEN Len(lines) - 1 ELSE Len(lines)

\* tail asks for what follows the last batch, and reads what it asked for.
ReadsOn ==
    /\ curWindow \in Nat /\ FirstWindow <= Window
    /\ lastBatchID = NoID \/ (lastBatchID \in StreamIDs /\ lastBatchID[1] = Window)
    /\ tailAt \in {"check", "request"} => path.from = curWindow /\ path.batch = lastBatchID
    /\ tailAt = "scan" =>
          /\ resp.window = Window /\ resp.link = "ok"
          /\ \E p \in Nat \ {0} : Follows(resp.lines, resp.cut, p, Window, Reached)

CleanInv == Clean => SentInOrder /\ ReadsOn

LEMMA CleanInit == ASSUME From >= 0, Init PROVE CleanInv
<1>1. From \in Nat /\ Live \in Nat \ {0} /\ curWindow = From
  BY FromType DEF Init
<1>2. Window = FirstWindow /\ Window \in Nat \ {0} /\ Reached = 0 /\ lastBatchID = NoID
  BY <1>1 DEF Window, FirstWindow, Reached, Init, NoID
<1>3. Range(sent) = {} /\ Len(sent) = 0
  BY DEF Init, Range
<1>4. SentInOrder
  <2>1. \A id \in StreamIDs : id[1] \in Nat /\ id[2] \in Nat \ {0}
    BY DEF StreamIDs
  <2> QED
    BY <1>2, <1>3, <2>1 DEF SentInOrder, Behind
<1>5. ReadsOn
  BY <1>1, <1>2 DEF Init, ReadsOn, makeNewPath
<1> QED
  BY <1>4, <1>5 DEF CleanInv

\* What has gone wrong is remembered.
LEMMA FaultKept ==
    ASSUME StreamTyped, NEW kind, Fault(kind)
    PROVE  Clean' <=> Clean /\ kind \notin {"garbled", "badlink", "nolink"}
<1>1. faults \in Seq(FaultKinds) /\ faults' = Append(faults, kind)
  BY DEF Fault, StreamTyped
<1>2. /\ DOMAIN faults = 1 .. Len(faults) /\ Len(faults) \in Nat
      /\ DOMAIN faults' = 1 .. Len(faults) + 1
      /\ \A i \in 1 .. Len(faults) + 1 :
            faults'[i] = IF i = Len(faults) + 1 THEN kind ELSE faults[i]
  BY <1>1
<1>3. Range(faults') = Range(faults) \cup {kind}
  BY <1>2 DEF Range
<1> QED
  BY <1>3 DEF Clean

\* What is asked for is the rest of the window.
LEMMA PendingFollows ==
    ASSUME StreamTyped, ReadsOn, tailAt = "request"
    PROVE  /\ Requested = Window /\ Reached \in Nat
           /\ Pending \in Seq(StreamIDs)
           /\ Len(IDs(Window)) = Reached + Len(Pending)
           /\ \A i \in 1 .. Len(Pending) : Pending[i] = <<Window, Reached + i>>
<1>1. /\ Requested = Window /\ Window \in Nat \ {0}
      /\ path.batch = lastBatchID
  BY FromType DEF ReadsOn, Requested, Window
<1>2. Reached \in Nat
  BY DEF StreamTyped, Reached
<1>3. /\ IDs(Window) \in Seq(StreamIDs) /\ Len(IDs(Window)) \in Nat
      /\ \A i \in 1 .. Len(IDs(Window)) : IDs(Window)[i] = <<Window, i>>
  BY IDsType
<1>4. Pending \in Seq(StreamIDs)
  BY PendingType
<1>5. CASE lastBatchID = NoID
  <2>1. Reached = 0 /\ path.batch[1] # Requested
    BY <1>1, <1>5 DEF NoID, Reached
  <2>2. Pending = IDs(Window)
    BY <1>1, <2>1, PendingType
  <2> QED
    BY <1>1, <1>3, <2>1, <2>2
<1>6. CASE lastBatchID \in StreamIDs /\ lastBatchID[1] = Window
  <2>1. Reached \in 1 .. Len(IDs(Window))
    BY <1>6, IDsType DEF StreamIDs, Reached
  <2>2. /\ path.batch[1] = Requested /\ path.batch[2] = Reached
    BY <1>1, <1>6 DEF Reached
  <2>3. /\ Len(Pending) = IF Reached < Len(IDs(Window)) THEN Len(IDs(Window)) - Reached ELSE 0
        /\ \A i \in 1 .. Len(Pending) : Pending[i] = <<Window, Reached + i>>
    BY <1>1, <2>2, PendingType
  <2>4. Len(IDs(Window)) = Reached + Len(Pending)
    BY <1>3, <2>1, <2>3
  <2> QED
    BY <1>1, <1>2, <1>4, <2>3, <2>4
<1> QED
  BY <1>5, <1>6 DEF ReadsOn

LEMMA AnswerFollows ==
    ASSUME StreamTyped, CleanInv, ServerStep PROVE CleanInv'
<1> SUFFICES ASSUME Clean' PROVE (SentInOrder /\ ReadsOn)'
  BY DEF CleanInv
<1>1. ASSUME Clean, NEW lines, NEW cut, NEW p \in Nat \ {0}, Answer(lines, cut, "ok"),
             tailAt = "request" => Follows(lines, cut, p, Window, Reached)
      PROVE  (SentInOrder /\ ReadsOn)'
  <2>1. /\ tailAt = "request" /\ tailAt' = "scan" /\ SentInOrder /\ ReadsOn
        /\ resp' = [window |-> Requested, lines |-> lines, cut |-> cut, link |-> "ok"]
        /\ UNCHANGED <<curWindow, lastBatchID, sent, path>>
    BY <1>1 DEF Answer, CleanInv
  <2>2. Requested = Window
    BY <2>1, PendingFollows
  <2>3. SentInOrder'
    BY <2>1 DEF SentInOrder, Behind, Window, Reached
  <2>4. Window' = Window /\ Reached' = Reached
    BY <2>1 DEF Window, Reached
  <2>5. resp'.lines = lines /\ resp'.cut = cut /\ resp'.window = Window /\ resp'.link = "ok"
    BY <2>1, <2>2
  <2>6. Follows(resp'.lines, resp'.cut, p, Window', Reached')
    BY <1>1, <2>1, <2>4, <2>5
  <2> QED
    BY <1>1, <2>1, <2>3, <2>4, <2>5, <2>6 DEF ReadsOn
<1>2. ASSUME Clean, tailAt = "request"
      PROVE  /\ Requested = Window /\ Reached \in Nat /\ Pending \in Seq(StreamIDs)
             /\ Len(Pending) \in Nat
             /\ Len(IDs(Window)) = Reached + Len(Pending)
             /\ \A i \in 1 .. Len(Pending) : Pending[i] = <<Window, Reached + i>>
  BY <1>2, PendingFollows DEF CleanInv
<1>3. ASSUME NEW ids \in Seq(StreamIDs), NEW cut, Len(IDs(Window)) = Reached + Len(ids) \/ cut,
             \A i \in 1 .. Len(ids) : ids[i] = <<Window, Reached + i>>
      PROVE  /\ Len(ids) + 1 \in Nat \ {0}
             /\ Follows(AsLines(ids), cut, Len(ids) + 1, Window, Reached)
  <2>1. Len(AsLines(ids)) = Len(ids) /\ Len(ids) \in Nat
    BY LinesType
  <2>2. ASSUME NEW i \in 1 .. Len(ids)
        PROVE  LineFollows(AsLines(ids)[i], i, Len(ids) + 1, Window, Reached)
    <3>1. AsLines(ids)[i] = [kind |-> "batch", id |-> <<Window, Reached + i>>]
      BY <1>3, LinesType
    <3>2. i < Len(ids) + 1 /\ ~(i = Len(ids) + 1) /\ ~(i > Len(ids) + 1)
      BY <2>1
    <3> QED
      BY <3>1, <3>2 DEF LineFollows
  <2> QED
    BY <1>3, <2>1, <2>2 DEF Follows
<1>5. CASE AnswerAll
  <2>1. Clean /\ Answer(AsLines(Pending), FALSE, "ok")
    BY <1>5 DEF AnswerAll, Clean
  <2>2. tailAt = "request"
    BY <2>1 DEF Answer
  <2>3. /\ Len(Pending) + 1 \in Nat \ {0}
        /\ Follows(AsLines(Pending), FALSE, Len(Pending) + 1, Window, Reached)
    BY <1>2, <1>3, <2>1, <2>2
  <2> QED
    BY <1>1, <2>1, <2>3
<1>6. CASE AnswerCut
  <2>1. PICK n \in 0 .. Len(Pending) :
          Fault("cut") /\ Answer(AsLines(SubSeq(Pending, 1, n)), TRUE, "ok")
    BY <1>6 DEF AnswerCut
  <2>2. Clean /\ tailAt = "request"
    BY <2>1, FaultKept DEF Answer
  <2> DEFINE ids == SubSeq(Pending, 1, n)
  <2>3. ids \in Seq(StreamIDs) /\ Len(ids) = n /\ \A i \in 1 .. n : ids[i] = Pending[i]
    BY <1>2, <2>2, FrontType
  <2>4. \A i \in 1 .. Len(ids) : ids[i] = <<Window, Reached + i>>
    BY <1>2, <2>2, <2>3
  <2>5. Len(ids) + 1 \in Nat \ {0} /\ Follows(AsLines(ids), TRUE, Len(ids) + 1, Window, Reached)
    BY <1>3, <2>3, <2>4
  <2> QED
    BY <1>1, <2>1, <2>2, <2>5
<1>7. CASE AnswerSpoilt("blank")
  <2> DEFINE lines == AsLines(Pending)
             blank == [kind |-> "blank", id |-> NoID]
  <2>1. PICK n \in DOMAIN Pending :
          Fault("blank") /\ Answer(InsertAt(lines, n, blank), FALSE, "ok")
    BY <1>7 DEF AnswerSpoilt
  <2>2. Clean /\ tailAt = "request"
    BY <2>1, FaultKept DEF Answer
  <2>3. n \in 1 .. Len(Pending) /\ n \in Nat \ {0}
    BY <1>2, <2>2
  <2>4. blank \in StreamLine /\ blank.kind = "blank"
    BY DEF StreamLine, OtherLine, NoID
  <2>5. lines \in Seq(StreamLine) /\ Len(lines) = Len(Pending)
    BY <1>2, <2>2, LinesType
  <2>6. \A i \in 1 .. Len(Pending) :
            lines[i].kind = "batch" /\ lines[i].id = <<Window, Reached + i>>
    <3>1. \A i \in 1 .. Len(Pending) : lines[i] = [kind |-> "batch", id |-> Pending[i]]
      BY <1>2, <2>2, LinesType
    <3>2. \A i \in 1 .. Len(Pending) : Pending[i] = <<Window, Reached + i>>
      BY <1>2, <2>2
    <3> HIDE DEF lines
    <3>3. ASSUME NEW i \in 1 .. Len(Pending)
          PROVE  lines[i].kind = "batch" /\ lines[i].id = <<Window, Reached + i>>
      <4>1. lines[i] = [kind |-> "batch", id |-> Pending[i]]
        BY <3>1
      <4>2. lines[i].kind = "batch" /\ lines[i].id = Pending[i]
        BY <4>1
      <4> QED
        BY <3>2, <4>2
    <3> QED
      BY <3>3
  <2> HIDE DEF lines, blank
  <2> DEFINE spoilt == InsertAt(lines, n, blank)
  <2>7. n \in 1 .. Len(lines)
    BY <2>3, <2>5
  <2>8. /\ Len(spoilt) = Len(Pending) + 1 /\ spoilt[n] = blank
        /\ \A i \in 1 .. Len(Pending) + 1 :
              /\ i < n => spoilt[i] = lines[i]
              /\ i > n => spoilt[i] = lines[i - 1]
    <3>1. /\ Len(spoilt) = Len(lines) + 1 /\ spoilt[n] = blank
          /\ \A i \in 1 .. Len(lines) + 1 :
                /\ i < n => spoilt[i] = lines[i]
                /\ i > n => spoilt[i] = lines[i - 1]
      <4>1. spoilt = InsertAt(lines, n, blank)
        OBVIOUS
      <4> HIDE DEF spoilt
      <4>2. lines \in Seq(StreamLine) /\ blank \in StreamLine /\ n \in 1 .. Len(lines)
        BY <2>4, <2>5, <2>7
      <4> QED
        BY ONLY <4>1, <4>2, InsertedType
    <3> QED
      BY <2>5, <3>1
  <2> HIDE DEF spoilt
  <2>9. ASSUME NEW i \in 1 .. Len(spoilt) PROVE LineFollows(spoilt[i], i, n, Window, Reached)
    <3>1. CASE i < n
      <4>1. spoilt[i] = lines[i] /\ i \in 1 .. Len(Pending) /\ ~(i = n) /\ ~(i > n)
        BY <2>3, <2>8, <3>1
      <4> QED
        BY <2>6, <4>1 DEF LineFollows
    <3>2. CASE i = n
      BY <2>3, <2>4, <2>8, <3>2 DEF LineFollows
    <3>3. CASE i > n
      <4>1. i - 1 \in 1 .. Len(Pending) /\ Reached + (i - 1) = Reached + i - 1
        BY <1>2, <2>2, <2>3, <2>8, <3>3
      <4>2. spoilt[i] = lines[i - 1] /\ ~(i < n) /\ ~(i = n)
        BY <2>3, <2>8, <3>3
      <4>3. spoilt[i].kind = "batch" /\ spoilt[i].id = <<Window, Reached + i - 1>>
        BY <2>6, <4>1, <4>2
      <4> QED
        BY <4>2, <4>3 DEF LineFollows
    <3> QED
      BY <2>3, <3>1, <3>2, <3>3
  <2>10. n <= Len(spoilt) /\ Len(IDs(Window)) = Reached + (Len(spoilt) - 1)
    BY <1>2, <2>2, <2>3, <2>8
  <2>11. Follows(spoilt, FALSE, n, Window, Reached)
    BY <2>9, <2>10 DEF Follows
  <2> QED
    BY <1>1, <2>1, <2>2, <2>3, <2>11 DEF spoilt
<1>8. CASE AnswerSpoilt("garbled") \/ \E kind \in {"badlink", "nolink"} : AnswerMislinked(kind)
  BY <1>8, FaultKept DEF AnswerSpoilt, AnswerMislinked
<1>9. CASE Busy \/ Refused
  <2>1. /\ Clean /\ tailAt = "request" /\ tailAt' \in {"check", "returned"}
        /\ UNCHANGED <<curWindow, lastBatchID, path, sent, resp>>
    BY <1>9, FaultKept DEF Busy, Refused, TailReturns
  <2>2. SentInOrder'
    BY <2>1 DEF CleanInv, SentInOrder, Behind, Window, Reached
  <2> QED
    BY <2>1, <2>2 DEF CleanInv, ReadsOn, Window
<1> QED
  BY <1>5, <1>6, <1>7, <1>8, <1>9 DEF ServerStep

\* The next batch of the window is handed over.
LEMMA BatchFollows ==
    ASSUME StreamTyped, Clean, SentInOrder, ReadsOn, ScanBatch PROVE (SentInOrder /\ ReadsOn)'
<1> DEFINE lines == resp.lines
           rest == Tail(resp.lines)
<1>1. /\ Line.id \in StreamIDs /\ Line.kind = "batch" /\ Line = lines[1]
      /\ resp' = [resp EXCEPT !.lines = rest]
      /\ UNCHANGED <<curWindow, tailAt, path>>
      /\ tailAt = "scan" /\ lines # <<>>
      /\ lastBatchID' = Line.id /\ sent' = Append(sent, Line.id)
  BY ScanTakes DEF ScanBatch, Scan, Scanning
<1>2. /\ lines \in Seq(StreamLine) /\ Len(lines) \in Nat \ {0}
      /\ Len(rest) = Len(lines) - 1
      /\ \A i \in 1 .. Len(rest) : rest[i] = lines[i + 1]
  BY <1>1, HeadTailProperties, EmptySeq DEF StreamTyped
<1>3. PICK p \in Nat \ {0} : Follows(lines, resp.cut, p, Window, Reached)
  BY <1>1 DEF ReadsOn
<1>4. Reached \in Nat /\ Window \in Nat
  BY FromType DEF StreamTyped, Reached, ReadsOn, Window
<1>5. resp'.lines = rest /\ UNCHANGED <<resp.window, resp.link, resp.cut>>
  BY <1>1 DEF StreamTyped
<1> HIDE DEF lines, rest
<1>6. p > 1 /\ Line.id = <<Window, Reached + 1>>
  <2>1. LineFollows(lines[1], 1, p, Window, Reached)
    BY <1>2, <1>3 DEF Follows
  <2> QED
    BY <1>1, <1>2, <2>1 DEF LineFollows
<1>7. Reached' = Reached + 1 /\ Window' = Window
  BY <1>1, <1>6 DEF Reached, Window
<1>8. \A id \in StreamIDs : Behind(id)' <=> Behind(id) \/ id = Line.id
  <2>1. ASSUME NEW id \in StreamIDs PROVE id = <<id[1], id[2]>> /\ id[1] \in Nat /\ id[2] \in Nat
    BY <2>1 DEF StreamIDs
  <2>2. ASSUME NEW id \in StreamIDs
        PROVE  id = Line.id <=> id[1] = Window /\ id[2] = Reached + 1
    BY <1>6, <2>1
  <2>3. ASSUME NEW id \in StreamIDs PROVE Behind(id)' <=> Behind(id) \/ id = Line.id
    BY <1>4, <1>7, <2>1, <2>2 DEF Behind
  <2> QED
    BY <2>3
<1>9. SentInOrder'
  <2>1. /\ sent \in Seq(StreamIDs) /\ DOMAIN sent = 1 .. Len(sent) /\ Len(sent) \in Nat
        /\ Len(sent') = Len(sent) + 1 /\ DOMAIN sent' = 1 .. Len(sent) + 1
        /\ \A k \in 1 .. Len(sent) + 1 :
              sent'[k] = IF k = Len(sent) + 1 THEN Line.id ELSE sent[k]
    BY <1>1 DEF StreamTyped
  <2>2. Range(sent') = Range(sent) \cup {Line.id}
    BY <2>1 DEF Range
  <2>3. ASSUME NEW j \in 1 .. Len(sent) PROVE Earlier(sent[j], Line.id)
    <3>1. sent[j] \in StreamIDs /\ sent[j] \in Range(sent)
      BY <2>1 DEF Range
    <3>2. Behind(sent[j])
      BY <3>1 DEF SentInOrder
    <3>3. sent[j][1] \in Nat /\ sent[j][2] \in Nat
      BY <3>1 DEF StreamIDs
    <3> QED
      BY <1>4, <1>6, <3>2, <3>3 DEF Behind, Earlier
  <2>4. ASSUME NEW j \in 1 .. Len(sent'), NEW k \in 1 .. Len(sent'), j < k
        PROVE  Earlier(sent'[j], sent'[k])
    <3>1. j \in 1 .. Len(sent) /\ sent'[j] = sent[j]
      BY <2>1, <2>4
    <3>2. CASE k = Len(sent) + 1
      BY <2>1, <2>3, <3>1, <3>2
    <3>3. CASE k # Len(sent) + 1
      <4>1. k \in 1 .. Len(sent) /\ sent'[k] = sent[k]
        BY <2>1, <3>3
      <4> QED
        BY <2>4, <3>1, <4>1 DEF SentInOrder
    <3> QED
      BY <3>2, <3>3
  <2>5. FirstWindow <= Line.id[1]
    BY <1>6 DEF ReadsOn
  <2>6. \A id \in StreamIDs : id \in Range(sent') <=> FirstWindow <= id[1] /\ Behind(id)'
    BY <1>8, <2>2, <2>5 DEF SentInOrder
  <2> QED
    BY <2>4, <2>6 DEF SentInOrder, Earlier
<1>10. Follows(rest, resp.cut, p - 1, Window, Reached + 1)
  <2>1. ASSUME NEW i \in 1 .. Len(rest)
        PROVE  LineFollows(rest[i], i, p - 1, Window, Reached + 1)
    <3>1. rest[i] = lines[i + 1] /\ i + 1 \in 1 .. Len(lines)
      BY <1>2
    <3>2. LineFollows(rest[i], i + 1, p, Window, Reached)
      BY <1>3, <3>1 DEF Follows
    <3>3. /\ Reached + (i + 1) = Reached + 1 + i /\ Reached + (i + 1) - 1 = Reached + 1 + i - 1
          /\ (i < p - 1 <=> i + 1 < p) /\ (i = p - 1 <=> i + 1 = p) /\ (i > p - 1 <=> i + 1 > p)
      BY <1>4
    <3> QED
      BY <3>2, <3>3 DEF LineFollows
  <2>2. ASSUME ~resp.cut
        PROVE  Len(IDs(Window)) =
                   Reached + 1 + IF p - 1 <= Len(rest) THEN Len(rest) - 1 ELSE Len(rest)
    <3>1. Len(IDs(Window)) = Reached + IF p <= Len(lines) THEN Len(lines) - 1 ELSE Len(lines)
      BY <1>3, <2>2 DEF Follows
    <3> QED
      <4> DEFINE m == Len(lines)
                 n == Len(rest)
      <4>1. m \in Nat \ {0} /\ n = m - 1 /\ p \in Nat /\ Reached \in Nat
        BY <1>2, <1>3, <1>4
      <4> HIDE DEF m, n
      <4>2. Reached + (IF p <= m THEN m - 1 ELSE m) = Reached + 1 + IF p - 1 <= n THEN n - 1 ELSE n
        BY ONLY <4>1
      <4> QED
        BY <3>1, <4>2 DEF m, n
  <2> QED
    BY <2>1, <2>2 DEF Follows
<1>11. p - 1 \in Nat \ {0}
  BY <1>6
<1>12. lastBatchID' \in StreamIDs /\ lastBatchID'[1] = Window'
  BY <1>1, <1>6, <1>7
<1>13. ReadsOn'
  <2>1. Follows(resp'.lines, resp'.cut, p - 1, Window', Reached')
    BY <1>5, <1>7, <1>10
  <2>2. resp'.window = Window' /\ resp'.link = "ok" /\ tailAt' = "scan"
        /\ curWindow' \in Nat /\ FirstWindow <= Window'
    BY <1>1, <1>5, <1>7 DEF ReadsOn
  <2> QED
    BY <1>11, <1>12, <2>1, <2>2 DEF ReadsOn
<1> QED
  BY <1>9, <1>13


\* A blank line is passed over.
LEMMA BlankPassed ==
    ASSUME StreamTyped, Clean, SentInOrder, ReadsOn, ScanBlank PROVE (SentInOrder /\ ReadsOn)'
<1> DEFINE lines == resp.lines
           rest == Tail(resp.lines)
<1>1. /\ Line.kind = "blank" /\ Line = lines[1]
      /\ resp' = [resp EXCEPT !.lines = rest]
      /\ UNCHANGED <<curWindow, tailAt, path, lastBatchID, sent>>
      /\ tailAt = "scan" /\ lines # <<>>
  BY ScanTakes DEF ScanBlank, Scan, Scanning
<1>2. /\ lines \in Seq(StreamLine) /\ Len(lines) \in Nat \ {0}
      /\ Len(rest) = Len(lines) - 1
      /\ \A i \in 1 .. Len(rest) : rest[i] = lines[i + 1]
  BY <1>1, HeadTailProperties, EmptySeq DEF StreamTyped
<1>3. PICK p \in Nat \ {0} : Follows(lines, resp.cut, p, Window, Reached)
  BY <1>1 DEF ReadsOn
<1>4. Reached \in Nat /\ Window \in Nat
  BY FromType DEF StreamTyped, Reached, ReadsOn, Window
<1>5. resp'.lines = rest /\ UNCHANGED <<resp.window, resp.link, resp.cut>>
  BY <1>1 DEF StreamTyped
<1> HIDE DEF lines, rest
<1>6. p = 1
  <2>1. LineFollows(lines[1], 1, p, Window, Reached)
    BY <1>2, <1>3 DEF Follows
  <2> QED
    BY <1>1, <1>3, <2>1 DEF LineFollows
<1>7. Reached' = Reached /\ Window' = Window
  BY <1>1 DEF Reached, Window
<1>8. SentInOrder'
  BY <1>1, <1>7 DEF SentInOrder, Behind
<1>9. Len(rest) + 1 \in Nat \ {0}
  BY <1>2
<1>10. Follows(rest, resp.cut, Len(rest) + 1, Window, Reached)
  <2>1. ASSUME NEW i \in 1 .. Len(rest)
        PROVE  LineFollows(rest[i], i, Len(rest) + 1, Window, Reached)
    <3>1. rest[i] = lines[i + 1] /\ i + 1 \in 1 .. Len(lines)
      BY <1>2
    <3>2. LineFollows(rest[i], i + 1, 1, Window, Reached)
      BY <1>3, <1>6, <3>1 DEF Follows
    <3>3. /\ Reached + (i + 1) - 1 = Reached + i /\ i + 1 > 1
          /\ i < Len(rest) + 1 /\ ~(i = Len(rest) + 1) /\ ~(i > Len(rest) + 1)
      BY <1>2, <1>4
    <3> QED
      BY <3>2, <3>3 DEF LineFollows
  <2>2. ASSUME ~resp.cut PROVE Len(IDs(Window)) = Reached + Len(rest) /\ ~(Len(rest) + 1 <= Len(rest))
    <3>1. Len(IDs(Window)) = Reached + IF 1 <= Len(lines) THEN Len(lines) - 1 ELSE Len(lines)
      BY <1>3, <1>6, <2>2 DEF Follows
    <3>2. 1 <= Len(lines) /\ ~(Len(rest) + 1 <= Len(rest))
      BY <1>2
    <3> QED
      BY <1>2, <3>1, <3>2
  <2> QED
    BY <2>1, <2>2 DEF Follows
<1>11. ReadsOn'
  <2>1. Follows(resp'.lines, resp'.cut, Len(rest) + 1, Window', Reached')
    BY <1>5, <1>7, <1>10
  <2>2. resp'.window = Window' /\ resp'.link = "ok" /\ tailAt' = "scan"
        /\ curWindow' \in Nat /\ FirstWindow <= Window'
        /\ (lastBatchID' = NoID \/ (lastBatchID' \in StreamIDs /\ lastBatchID'[1] = Window'))
    BY <1>1, <1>5, <1>7 DEF ReadsOn
  <2> QED
    BY <1>9, <2>1, <2>2 DEF ReadsOn
<1> QED
  BY <1>8, <1>11

\* Without a fault no line is garbled.
LEMMA NothingGarbled == ASSUME StreamTyped, ReadsOn PROVE ~ScanGarbled
<1> SUFFICES ASSUME ScanGarbled PROVE FALSE
  OBVIOUS
<1>1. Line.kind = "garbled" /\ Line = resp.lines[1] /\ tailAt = "scan" /\ resp.lines # <<>>
  BY ScanTakes DEF ScanGarbled, Scan, Scanning
<1>2. PICK p \in Nat \ {0} : Follows(resp.lines, resp.cut, p, Window, Reached)
  BY <1>1 DEF ReadsOn
<1>3. Len(resp.lines) \in Nat \ {0}
  BY <1>1, EmptySeq DEF StreamTyped
<1>4. LineFollows(resp.lines[1], 1, p, Window, Reached)
  BY <1>2, <1>3 DEF Follows
<1> QED
  BY <1>1, <1>2, <1>4 DEF LineFollows

\* At the end of an answer that is whole nothing of the window is left.
LEMMA LinkFollows ==
    ASSUME StreamTyped, Clean, SentInOrder, ReadsOn, FollowLink PROVE (SentInOrder /\ ReadsOn)'
<1>1. /\ resp.lines = <<>> /\ ~resp.cut /\ tailAt = "scan" /\ tailAt' = "check"
      /\ resp.window = Window /\ resp.link = "ok"
      /\ curWindow' = NextLink(Window) /\ lastBatchID' = NoID /\ sent' = sent
      /\ path' = [from |-> curWindow', batch |-> NoID]
  BY DEF FollowLink, ScanEnds, Scanning, ReadsOn, makeNewPath
<1>2. Window \in Nat \ {0} /\ Reached \in Nat /\ FirstWindow <= Window /\ FirstWindow \in Int
  BY FromType DEF StreamTyped, ReadsOn, Window, Reached, FirstWindow
<1>3. Len(IDs(Window)) = Reached
  <2>1. PICK p \in Nat \ {0} : Follows(resp.lines, resp.cut, p, Window, Reached)
    BY <1>1 DEF ReadsOn
  <2>2. Len(resp.lines) = 0 /\ ~(p <= 0)
    BY <1>1, <2>1
  <2>3. Len(IDs(Window)) = Reached + IF p <= Len(resp.lines) THEN Len(resp.lines) - 1 ELSE Len(resp.lines)
    BY <1>1, <2>1 DEF Follows
  <2> QED
    BY <1>2, <2>2, <2>3
<1>4. LastWindow \in Nat
  BY PublishedAssumption DEF LastWindow
<1>5. curWindow' \in Nat \ {0} /\ Window' = curWindow' /\ Reached' = 0 /\ FirstWindow <= Window'
  BY <1>1, <1>2, <1>4 DEF NextLink, Window, Reached, NoID
<1>6. ASSUME NEW id \in StreamIDs PROVE Behind(id)' <=> Behind(id)
  <2>1. /\ id[1] \in 1 .. LastWindow /\ id[2] \in Nat \ {0}
        /\ id[1] = Window => id[2] <= Reached
    <3>1. id[1] \in 1 .. LastWindow /\ id[2] \in 1 .. Len(Published[id[1]])
      BY DEF StreamIDs
    <3>2. id[2] \in Nat \ {0} /\ id[2] <= Len(Published[id[1]])
      <4>1. Published[id[1]] \in Seq(Batches)
        BY <3>1, PublishedAssumption DEF LastWindow
      <4>2. Len(Published[id[1]]) \in Nat
        BY <4>1
      <4> QED
        BY <3>1, <4>2
    <3>3. id[1] = Window => Len(Published[id[1]]) = Reached
      BY <1>3, <3>1, IDsType
    <3> QED
      BY <3>1, <3>2, <3>3
  <2>2. Window' = IF Window > LastWindow THEN Window ELSE Window + 1
    BY <1>1, <1>5 DEF NextLink
  <2>3. Behind(id)' <=> id[1] < Window' \/ (id[1] = Window' /\ id[2] <= 0)
    BY <1>5 DEF Behind
  <2>4. id[1] < Window' \/ (id[1] = Window' /\ id[2] <= 0)
            <=> id[1] < Window \/ (id[1] = Window /\ id[2] <= Reached)
    BY <1>2, <1>4, <2>1, <2>2
  <2> QED
    BY <2>3, <2>4 DEF Behind
<1>7. SentInOrder'
  BY <1>1, <1>6 DEF SentInOrder
<1>8. ReadsOn'
  BY <1>1, <1>5 DEF ReadsOn
<1> QED
  BY <1>7, <1>8

LEMMA TailFollows ==
    ASSUME StreamTyped, CleanInv, TailStep PROVE CleanInv'
<1>1. faults' = faults
  BY DEF TailStep, ReachTo, Request, ScanBatch, ScanBlank, ScanGarbled, Scan, ScanBroken,
         FollowLink, ScanEnds, LinkPanic, tailVars
<1> SUFFICES ASSUME Clean, SentInOrder, ReadsOn PROVE (SentInOrder /\ ReadsOn)'
  BY <1>1 DEF CleanInv, Clean
<1>2. CASE ReachTo \/ Request
  <2>1. /\ UNCHANGED <<curWindow, lastBatchID, path, resp, sent>>
        /\ tailAt' = "returned" \/ (tailAt = "check" /\ tailAt' = "request")
    BY <1>2 DEF ReachTo, Request, TailReturns
  <2>2. SentInOrder'
    BY <2>1 DEF SentInOrder, Behind, Window, Reached
  <2>3. ReadsOn'
    BY <2>1 DEF ReadsOn, Window
  <2> QED
    BY <2>2, <2>3
<1>3. CASE ScanBroken
  <2>1. /\ UNCHANGED <<curWindow, lastBatchID, resp, sent>>
        /\ path' = [from |-> curWindow, batch |-> lastBatchID] /\ tailAt' = "check"
    BY <1>3 DEF ScanBroken, ScanEnds, makeNewPath
  <2>2. SentInOrder'
    BY <2>1 DEF SentInOrder, Behind, Window, Reached
  <2>3. ReadsOn'
    BY <2>1 DEF ReadsOn, Window
  <2> QED
    BY <2>2, <2>3
<1>4. CASE LinkPanic
  BY <1>4 DEF LinkPanic, tailVars, SentInOrder, Behind, Window, Reached, ReadsOn
<1> QED
  BY <1>2, <1>3, <1>4, BatchFollows, BlankPassed, NothingGarbled, LinkFollows DEF TailStep

LEMMA CleanStep == StreamTyped /\ CleanInv /\ [Next]_vars => CleanInv'
<1> SUFFICES ASSUME StreamTyped, CleanInv, [Next]_vars PROVE CleanInv'
  OBVIOUS
<1>1. CASE OutputStep \/ ExecReturns \/ ExecSignalled \/ UNCHANGED vars
  <2>1. UNCHANGED <<curWindow, lastBatchID, path, tailAt, resp, sent, faults>>
    BY <1>1, OthersQuiet DEF tailVars
  <2>2. Window' = Window /\ Reached' = Reached
    BY <2>1 DEF Window, Reached
  <2>3. (Clean' <=> Clean) /\ (SentInOrder => SentInOrder') /\ (ReadsOn => ReadsOn')
    BY <2>1, <2>2 DEF Clean, SentInOrder, Behind, ReadsOn
  <2> QED
    BY <2>3 DEF CleanInv
<1> QED
  BY <1>1, AnswerFollows, TailFollows DEF Next

\* The batches of the stream from the first window on.
LEMMA BatchIDs ==
    ASSUME From >= 0
    PROVE  /\ FirstWindow \in Nat \ {0}
           /\ \A id : id \in Batch <=> id \in StreamIDs /\ FirstWindow <= id[1]
<1>1. FirstWindow \in Nat \ {0}
  BY FromType DEF FirstWindow
<1>2. LastWindow \in Nat
  BY PublishedAssumption DEF LastWindow
<1>3. ASSUME NEW w \in FirstWindow .. LastWindow, NEW id \in Range(IDs(w))
      PROVE  id \in StreamIDs /\ id[1] = w
  <2>1. IDs(w) \in Seq(StreamIDs) /\ \A i \in 1 .. Len(IDs(w)) : IDs(w)[i] = <<w, i>>
    BY IDsType
  <2>2. PICK i \in DOMAIN IDs(w) : id = IDs(w)[i]
    BY <1>3 DEF Range
  <2>3. i \in 1 .. Len(IDs(w)) /\ IDs(w)[i] \in StreamIDs
    BY <2>1, <2>2
  <2> QED
    BY <2>1, <2>2, <2>3
<1>4. ASSUME NEW id \in StreamIDs, FirstWindow <= id[1] PROVE id \in Batch
  <2>1. /\ id[1] \in FirstWindow .. LastWindow /\ id[2] \in 1 .. Len(Published[id[1]])
        /\ id = <<id[1], id[2]>>
    BY <1>1, <1>2, <1>4 DEF StreamIDs
  <2>2. id[1] \in 1 .. LastWindow
    BY <1>4 DEF StreamIDs
  <2>3. /\ Len(IDs(id[1])) = Len(Published[id[1]]) /\ IDs(id[1]) \in Seq(StreamIDs)
        /\ \A i \in 1 .. Len(IDs(id[1])) : IDs(id[1])[i] = <<id[1], i>>
    BY <2>2, IDsType
  <2>4. id[2] \in DOMAIN IDs(id[1]) /\ IDs(id[1])[id[2]] = id
    BY <2>1, <2>3
  <2>5. id \in Range(IDs(id[1]))
    BY <2>4 DEF Range
  <2> QED
    BY <2>1, <2>5 DEF Batch
<1>5. ASSUME NEW id \in Batch PROVE id \in StreamIDs /\ FirstWindow <= id[1]
  <2>1. PICK w \in FirstWindow .. LastWindow : id \in Range(IDs(w))
    BY <1>5 DEF Batch
  <2> QED
    BY <1>1, <1>2, <1>3, <2>1
<1> QED
  BY <1>1, <1>4, <1>5

LEMMA FollowedInOrder ==
    ASSUME From >= 0, StreamTyped, SentInOrder, ReadsOn PROVE InOrder /\ WindowsComplete
<1>1. /\ sent \in Seq(StreamIDs) /\ DOMAIN sent = 1 .. Len(sent)
      /\ \A k \in 1 .. Len(sent) : sent[k] \in StreamIDs /\ sent[k] \in Range(sent)
  BY DEF StreamTyped, Range
<1>2. Range(sent) \subseteq Batch
  <2>1. ASSUME NEW id \in Range(sent) PROVE id \in StreamIDs
    BY <1>1, <2>1 DEF Range
  <2> QED
    BY <2>1, BatchIDs DEF SentInOrder
<1>3. ASSUME NEW id \in Batch, NEW k \in DOMAIN sent, Earlier(id, sent[k])
      PROVE  id \in Range(sent)
  <2>1. id \in StreamIDs /\ FirstWindow <= id[1]
    BY BatchIDs
  <2>2. Behind(sent[k])
    BY <1>1 DEF SentInOrder
  <2>3. /\ id[1] \in Nat /\ id[2] \in Nat /\ sent[k][1] \in Nat /\ sent[k][2] \in Nat
        /\ Window \in Nat /\ Reached \in Nat
    BY <1>1, <2>1, FromType DEF StreamIDs, ReadsOn, StreamTyped, Window, Reached
  <2>4. Behind(id)
    BY <1>3, <2>2, <2>3 DEF Behind, Earlier
  <2> QED
    BY <2>1, <2>4 DEF SentInOrder
<1>4. ASSUME NEW w \in FirstWindow .. LastWindow, curWindow > w, NEW id \in Range(IDs(w))
      PROVE  id \in Range(sent)
  <2>1. id \in Batch
    BY DEF Batch
  <2>2. id[1] = w
    <3>1. IDs(w) \in Seq(StreamIDs) /\ \A i \in 1 .. Len(IDs(w)) : IDs(w)[i] = <<w, i>>
      BY IDsType
    <3>2. PICK i \in DOMAIN IDs(w) : id = IDs(w)[i]
      BY <1>4 DEF Range
    <3> QED
      BY <3>1, <3>2
  <2>3. w \in Nat \ {0} /\ curWindow \in Nat
    BY <1>4, BatchIDs DEF ReadsOn
  <2>4. Window = curWindow
    BY <1>4, <2>3 DEF Window
  <2>5. Behind(id)
    BY <1>4, <2>2, <2>3, <2>4 DEF Behind
  <2> QED
    BY <2>1, <2>5, BatchIDs DEF SentInOrder
<1>5. InOrder
  BY <1>1, <1>2, <1>3 DEF InOrder, SentInOrder
<1> QED
  BY <1>4, <1>5 DEF WindowsComplete

\* tail hands over every batch of the stream from its first window on, each once
\* and in order, however often the connection breaks or the server is busy, as long
\* as every line parses and every link leads on.  --from must not be smaller than
\* the padding: counted up from below 0, the window passes 0, and a path names no
\* window then (makeNewPath).
THEOREM NoBatchIsSkipped == ASSUME From >= 0 PROVE Spec => []NoBatchSkipped
<1>1. Init => StreamTyped /\ CleanInv
  BY StreamInit, CleanInit
<1>2. StreamTyped /\ CleanInv /\ [Next]_vars => (StreamTyped /\ CleanInv)'
  BY StreamStep, CleanStep
<1>3. StreamTyped /\ CleanInv => NoBatchSkipped
  BY FollowedInOrder DEF CleanInv, Clean, NoBatchSkipped
<1> QED
  BY <1>1, <1>2, <1>3, PTL DEF Spec

-----------------------------------------------------------------------------
(* The output loop, driven by tail.                                        *)

\* What tail does to the loop is a step of the loop: it hands over a batch.
LEMMA TailDrivesLoop == StreamTyped /\ [Next]_vars => [LoopNext]_outputVars
<1> SUFFICES ASSUME StreamTyped, [Next]_vars PROVE [LoopNext]_outputVars
  OBVIOUS
<1>1. CASE ServerStep
  BY <1>1 DEF ServerStep, AnswerAll, AnswerCut, AnswerSpoilt, AnswerMislinked, Answer, Busy,
              Refused
<1>2. CASE TailStep /\ ~ScanBatch
  BY <1>2 DEF TailStep, ReachTo, Request, ScanBlank, ScanGarbled, ScanBroken, ScanEnds,
              FollowLink, LinkPanic
<1>3. CASE ScanBatch
  <2>1. Line.id \in StreamIDs
    BY <1>3, ScanTakes DEF ScanBatch
  <2>2. Published[Line.id[1]] \in Seq(Batches)
    BY <2>1, PublishedAssumption DEF StreamIDs, LastWindow
  <2>3. Published[Line.id[1]][Line.id[2]] \in Batches
    BY <2>1, <2>2 DEF StreamIDs
  <2> QED
    BY <1>3, <2>3 DEF ScanBatch, LoopNext
<1>4. CASE OutputStep
  BY <1>4 DEF OutputStep, LoopNext
<1>5. CASE ExecReturns \/ ExecSignalled \/ UNCHANGED vars
  BY <1>5 DEF ExecReturns, ExecSignalled, vars
<1> QED
  BY <1>1, <1>2, <1>3, <1>4, <1>5 DEF Next

LEMMA DrivenInv == Spec => [](StreamTyped /\ OutputInv)
<1>1. Init => StreamTyped /\ OutputInv
  BY StreamInit, InitInv DEF Init
<1>2. StreamTyped /\ OutputInv /\ [Next]_vars => (StreamTyped /\ OutputInv)'
  BY StreamStep, TailDrivesLoop, LoopInv
<1> QED
  BY <1>1, <1>2, PTL DEF Spec

\* The loop keeps what it promises when tail drives it, however many batches come:
\* one timer per request, a receipt left for every log left behind, no log held
\* beyond --sort-buffer.
THEOREM OutputOfTail == Spec => [](OneTimerPerRequest /\ NoLogStranded /\ NoLogOverstays)
<1>1. OutputInv => OneTimerPerRequest /\ NoLogStranded /\ NoLogOverstays
  BY OneTimerInv, StrandedInv, OverstaysInv
<1> QED
  BY <1>1, DrivenInv, PTL

\* The whole command implements the abstract sort buffer.
THEOREM TailRefinement == Spec => ImplementsSortBuffer
<1>1. Init => Abstract!AbsInit
  BY DEF Init, OutputInit, Abstract!AbsInit
<1>2. (StreamTyped /\ OutputInv) /\ (StreamTyped /\ OutputInv)' /\ [Next]_vars
        => [Abstract!AbsNext]_(Abstract!abstractVars)
  BY TailDrivesLoop, LoopImplements
<1> QED
  BY <1>1, <1>2, DrivenInv, PTL DEF Spec, ImplementsSortBuffer, Abstract!AbsSpec
=============================================================================
