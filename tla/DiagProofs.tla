---------------------------- MODULE DiagProofs ----------------------------
(***************************************************************************)
(* The message queues and the accounts of the BMS, for any set of nodes,   *)
(* any sizes of the queues and any number of tokens and timeouts.          *)
(*                                                                         *)
(* TokensMatch holds because both queues are in the order of the tokens    *)
(* and every Data that waits, and the one that may still come, has its     *)
(* token in tx_msgq (Ordered): what searchTX throws away is older than     *)
(* all of them.  RejectedIsCombined needs the value the diagnostic thread  *)
(* has read to be that of the counter (Read), as long as no interrupt came *)
(* in between.                                                             *)
(***************************************************************************)
EXTENDS DiagQueues, NumberProofs, FiniteSetTheorems, SequenceTheorems

(* Only one node is polled, and it was sent the latest token.              *)
Exclusive ==
  \A n \in Nodes :
    phase[n] = "polled" =>
      /\ serial > 0
      /\ \A m \in Nodes \ {n} : phase[m] # "polled"

HasToken(n, t) == \E i \in 1..Len(tx_msgq) : tx_msgq[i].addr = n /\ tx_msgq[i].token = t

Sorted(q) == \A i, j \in 1..Len(q) : i < j => q[i].token < q[j].token

Kept ==
  /\ Sorted(tx_msgq) /\ Sorted(rx_msgq)
  /\ \A i \in 1..Len(rx_msgq) : HasToken(rx_msgq[i].addr, rx_msgq[i].token)
  /\ \A n \in Nodes : phase[n] = "polled" => HasToken(n, serial)

Ordered ==
  /\ \A i \in 1..Len(tx_msgq) : tx_msgq[i].token <= serial
  /\ \A i \in 1..Len(rx_msgq) : rx_msgq[i].token <= serial
  /\ \A n \in Nodes : phase[n] = "polled" =>
       \A i \in 1..Len(rx_msgq) : rx_msgq[i].token < serial
  /\ overrun = {} => Kept

Read ==
  /\ reg # None => todo # <<>>
  /\ reg # None /\ ~raced => Head(reg) = transLog[Head(todo)].tRejected

IInv ==
  /\ TypeOK /\ Exclusive /\ Ordered /\ TokensMatch /\ DataAccounted
  /\ Read /\ RejectedIsCombined /\ PacketsFollow

-----------------------------------------------------------------------------
(* Sequences: queues, and how many of their elements are in a set.         *)

Count(q, G) == Cardinality({i \in 1..Len(q) : q[i] \in G})

LEMMA CountFinite ==
  ASSUME NEW S, NEW q \in Seq(S), NEW G
  PROVE  /\ IsFiniteSet({i \in 1..Len(q) : q[i] \in G}) /\ Count(q, G) \in Nat
         /\ Len(q) \in Nat
  <1>1. Len(q) \in Nat
    BY LenProperties
  <1>2. IsFiniteSet(1..Len(q))
    BY <1>1, FS_Interval
  <1>3. QED BY <1>1, <1>2, FS_Subset, FS_CardinalityType DEF Count

LEMMA CountEmpty == \A G : Count(<<>>, G) = 0
  <1> SUFFICES ASSUME NEW G PROVE Count(<<>>, G) = 0
    OBVIOUS
  <1>1. {i \in 1..Len(<<>>) : <<>>[i] \in G} = {}
    OBVIOUS
  <1>2. QED BY <1>1, FS_EmptySet DEF Count

LEMMA CountAppend ==
  ASSUME NEW S, NEW q \in Seq(S), NEW x \in S, NEW G
  PROVE  Count(Append(q, x), G) = Count(q, G) + One(x \in G)
  <1> DEFINE A == {i \in 1..Len(q) : q[i] \in G}
             B == {i \in 1..Len(Append(q, x)) : Append(q, x)[i] \in G}
  <1>1. /\ Len(Append(q, x)) = Len(q) + 1 /\ Append(q, x)[Len(q) + 1] = x
        /\ \A i \in 1..Len(q) : Append(q, x)[i] = q[i]
    BY AppendProperties
  <1>2. IsFiniteSet(A) /\ Cardinality(A) \in Nat /\ Len(q) \in Nat
    BY CountFinite DEF Count
  <1>3. CASE x \in G
    <2>1. B = A \cup {Len(q) + 1} /\ Len(q) + 1 \notin A
      BY <1>1, <1>2, <1>3
    <2> HIDE DEF A, B
    <2>2. Cardinality(B) = Cardinality(A) + 1
      BY <1>2, <2>1, FS_AddElement
    <2>3. QED BY <2>2, <1>3 DEF Count, One, A, B
  <1>4. CASE x \notin G
    <2>1. B = A
      BY <1>1, <1>2, <1>4
    <2>2. Count(Append(q, x), G) = Cardinality(B) /\ Count(q, G) = Cardinality(A)
      BY DEF Count
    <2>3. One(x \in G) = 0
      BY <1>4 DEF One
    <2> HIDE DEF A, B
    <2>4. QED BY <1>2, <2>1, <2>2, <2>3
  <1>5. QED BY <1>3, <1>4

LEMMA CountTail ==
  ASSUME NEW S, NEW q \in Seq(S), q # <<>>, NEW G
  PROVE  Count(q, G) = Count(Tail(q), G) + One(Head(q) \in G)
  <1> DEFINE A == {i \in 1..Len(Tail(q)) : Tail(q)[i] \in G}
             B == {i \in 1..Len(q) : q[i] \in G}
             C == B \ {1}
             f == [i \in A |-> i + 1]
  <1>1. /\ Len(q) \in Nat /\ Len(q) > 0 /\ Len(Tail(q)) = Len(q) - 1 /\ Tail(q) \in Seq(S)
        /\ \A i \in 1..Len(Tail(q)) : Tail(q)[i] = q[i + 1]
        /\ Head(q) = q[1]
    BY HeadTailProperties, EmptySeq
  <1>2. /\ IsFiniteSet(A) /\ Cardinality(A) \in Nat /\ Cardinality(A) = Count(Tail(q), G)
        /\ IsFiniteSet(B) /\ Cardinality(B) \in Nat /\ Cardinality(B) = Count(q, G)
    BY <1>1, CountFinite DEF Count
  <1>3. f \in Bijection(A, C)
    <2>1. f \in [A -> C]
      BY <1>1
    <2>2. \A a, b \in A : f[a] = f[b] => a = b
      BY <1>1
    <2>3. \A t \in C : \E a \in A : f[a] = t
      <3> SUFFICES ASSUME NEW t \in C PROVE \E a \in A : f[a] = t
        OBVIOUS
      <3>1. t - 1 \in A /\ f[t - 1] = t
        BY <1>1
      <3>2. QED BY <3>1
    <2> HIDE DEF A, C, f
    <2>4. QED BY <2>1, <2>2, <2>3 DEF Bijection, Injection, Surjection, IsInjective
  <1>4. Cardinality(C) = Cardinality(A) /\ IsFiniteSet(C)
    <2> HIDE DEF A, C, f
    <2>1. ExistsBijection(A, C)
      BY <1>3 DEF ExistsBijection
    <2>2. QED BY <1>2, <2>1, FS_Bijection
  <1>5. CASE Head(q) \in G
    <2>1. 1 \in B
      BY <1>1, <1>5
    <2> HIDE DEF A, B
    <2>2. Cardinality(C) = Cardinality(B) - 1
      BY <1>2, <2>1, FS_RemoveElement
    <2>3. QED BY <1>2, <1>4, <1>5, <2>2 DEF One
  <1>6. CASE Head(q) \notin G
    <2>1. C = B
      BY <1>1, <1>6
    <2> HIDE DEF A, B, C
    <2>2. QED BY <1>2, <1>4, <1>6, <2>1 DEF One
  <1>7. QED BY <1>5, <1>6

(* A queue that is full is turned by one place, and what was pushed is     *)
(* gone.                                                                   *)
LEMMA PushEffect ==
  ASSUME NEW S, NEW q \in Seq(S), NEW size \in Nat \ {0}, Len(q) <= size, NEW m \in S
  PROVE  /\ Push(q, size, m) \in Seq(S) /\ Len(Push(q, size, m)) <= size
         /\ \A i \in 1..Len(Push(q, size, m)) :
              Push(q, size, m)[i] = m \/ \E j \in 1..Len(q) : Push(q, size, m)[i] = q[j]
         /\ Len(q) < size => Push(q, size, m) = Append(q, m)
         /\ ~(Len(q) < size) => \A G : Count(Push(q, size, m), G) = Count(q, G)
  <1>1. Len(q) \in Nat
    BY LenProperties
  <1>2. CASE Len(q) < size
    <2>1. Push(q, size, m) = Append(q, m)
      BY <1>1, <1>2 DEF Push
    <2>2. QED BY <1>1, <1>2, <2>1, AppendProperties
  <1>3. CASE ~(Len(q) < size)
    <2> DEFINE t == Tail(q)
               h == Head(q)
    <2>1. Push(q, size, m) = Append(t, h) /\ q # <<>>
      BY <1>1, <1>3, EmptySeq DEF Push
    <2>2. /\ t \in Seq(S) /\ h \in S /\ Len(t) = Len(q) - 1 /\ h = q[1]
          /\ \A i \in 1..Len(t) : t[i] = q[i + 1]
      BY <2>1, HeadTailProperties
    <2> HIDE DEF t, h
    <2>3. /\ Append(t, h) \in Seq(S) /\ Len(Append(t, h)) = Len(q)
          /\ \A i \in 1..Len(t) : Append(t, h)[i] = t[i]
          /\ Append(t, h)[Len(t) + 1] = h
      BY <1>1, <2>2, AppendProperties
    <2>4. \A i \in 1..Len(q) : \E j \in 1..Len(q) : Append(t, h)[i] = q[j]
      <3> SUFFICES ASSUME NEW i \in 1..Len(q)
                   PROVE  \E j \in 1..Len(q) : Append(t, h)[i] = q[j]
        OBVIOUS
      <3>1. CASE i = Len(q)
        <4>1. Append(t, h)[i] = q[1] /\ 1 \in 1..Len(q)
          BY <1>1, <2>2, <2>3, <3>1
        <4>2. QED BY <4>1
      <3>2. CASE i # Len(q)
        <4>1. Append(t, h)[i] = q[i + 1] /\ i + 1 \in 1..Len(q)
          BY <1>1, <2>2, <2>3, <3>2
        <4>2. QED BY <4>1
      <3>3. QED BY <3>1, <3>2
    <2>5. ASSUME NEW G PROVE Count(Append(t, h), G) = Count(q, G)
      <3>1. Count(q, G) = Count(t, G) + One(h \in G)
        BY <2>1, CountTail DEF t, h
      <3>2. QED BY <2>2, <3>1, CountAppend
    <2>6. QED BY <1>1, <1>3, <2>1, <2>3, <2>4, <2>5
  <1>4. QED BY <1>2, <1>3

Of(n) == {m \in Data : m.addr = n}

LEMMA PendingIs ==
  ASSUME NEW q \in Seq(Data), NEW n \in Nodes
  PROVE  Cardinality({i \in DOMAIN q : q[i].addr = n}) = Count(q, Of(n))
  <1>1. DOMAIN q = 1..Len(q) /\ \A i \in 1..Len(q) : q[i] \in Data
    BY LenProperties, ElementOfSeq
  <1>2. {i \in DOMAIN q : q[i].addr = n} = {i \in 1..Len(q) : q[i] \in Of(n)}
    BY <1>1 DEF Of
  <1>3. QED BY <1>2 DEF Count

LEMMA OwedIs ==
  ASSUME NEW q \in Seq(Nodes), NEW n \in Nodes
  PROVE  Cardinality({i \in DOMAIN q : q[i] = n}) = Count(q, {n})
  <1>1. DOMAIN q = 1..Len(q)
    BY LenProperties
  <1>2. {i \in DOMAIN q : q[i] = n} = {i \in 1..Len(q) : q[i] \in {n}}
    BY <1>1
  <1>3. QED BY <1>2 DEF Count

(* searchTX: what is left of the tokens comes behind the match.            *)
LEMMA RestEffect ==
  ASSUME TypeOK, NEW m \in Data
  PROVE  /\ RestOf(m) \in Seq(Token) /\ Len(RestOf(m)) <= SIZE_OF_TXQUEUE
         /\ \A i \in 1..Len(RestOf(m)) : \E j \in 1..Len(tx_msgq) : RestOf(m)[i] = tx_msgq[j]
         /\ Sorted(tx_msgq) => Sorted(RestOf(m))
         /\ Sorted(tx_msgq) /\ Matches(m) # {} =>
              \A j \in 1..Len(tx_msgq) :
                tx_msgq[j].token > m.token => \E i \in 1..Len(RestOf(m)) : RestOf(m)[i] = tx_msgq[j]
         /\ Matches(m) = {} => ~HasToken(m.addr, m.token)
  <1>1. /\ tx_msgq \in Seq(Token) /\ Len(tx_msgq) \in Nat /\ Len(tx_msgq) <= SIZE_OF_TXQUEUE
        /\ DOMAIN tx_msgq = 1..Len(tx_msgq) /\ SIZE_OF_TXQUEUE \in Nat
        /\ \A i \in 1..Len(tx_msgq) : tx_msgq[i] \in Token /\ tx_msgq[i].token \in Nat
    <2>1. tx_msgq \in Seq(Token) /\ Len(tx_msgq) <= SIZE_OF_TXQUEUE
      BY DEF TypeOK
    <2>2. \A i \in 1..Len(tx_msgq) : tx_msgq[i] \in Token
      BY <2>1, ElementOfSeq
    <2>3. \A t \in Token : t.token \in Nat
      BY DiagAssumption DEF Token
    <2>4. QED BY <2>1, <2>2, <2>3, LenProperties, DiagAssumption
  <1>2. CASE Matches(m) = {}
    <2>1. RestOf(m) = <<>>
      BY <1>2 DEF RestOf
    <2>2. ~HasToken(m.addr, m.token)
      BY <1>1, <1>2 DEF Matches, HasToken
    <2>3. QED BY <1>1, <1>2, <2>1, <2>2, EmptySeq DEF Sorted
  <1>3. CASE Matches(m) # {}
    <2> DEFINE k == Min(Matches(m))
               L == Len(tx_msgq)
               R == RestOf(m)
    <2>1. k \in 1..L /\ tx_msgq[k].token = m.token
      <3>1. Matches(m) \in SUBSET Nat
        BY <1>1 DEF Matches
      <3>2. k \in Matches(m)
        BY <1>3, <3>1, LeastElement
      <3>3. QED BY <1>1, <3>2 DEF Matches
    <2>2. R = SubSeq(tx_msgq, k + 1, L)
      BY <1>3 DEF RestOf
    <2> HIDE DEF k, R
    <2>3. \A i \in k + 1..L : tx_msgq[i] \in Token
      BY <1>1, <2>1
    <2>4. /\ R \in Seq(Token) /\ Len(R) = L - k
          /\ \A i \in 1..L - k : R[i] = tx_msgq[k + i]
      <3>1. /\ SubSeq(tx_msgq, k + 1, L) \in Seq(Token)
            /\ Len(SubSeq(tx_msgq, k + 1, L)) = IF k + 1 <= L THEN L - (k + 1) + 1 ELSE 0
            /\ \A i \in 1..L - (k + 1) + 1 : SubSeq(tx_msgq, k + 1, L)[i] = tx_msgq[(k + 1) + i - 1]
        BY <1>1, <2>1, <2>3, SubSeqProperties
      <3>2. QED BY <1>1, <2>1, <2>2, <3>1
    <2>5. \A i \in 1..Len(R) : k + i \in 1..L /\ R[i] = tx_msgq[k + i]
      BY <1>1, <2>1, <2>4
    <2>6. \A i \in 1..Len(R) : \E j \in 1..L : R[i] = tx_msgq[j]
      BY <2>5
    <2>7. Sorted(tx_msgq) => Sorted(R)
      BY <1>1, <2>1, <2>4, <2>5 DEF Sorted
    <2>8. ASSUME Sorted(tx_msgq), NEW j \in 1..L, tx_msgq[j].token > m.token
          PROVE  \E i \in 1..Len(R) : R[i] = tx_msgq[j]
      <3>1. ~(j < k) /\ j # k
        BY <1>1, <2>1, <2>8 DEF Sorted
      <3>2. j - k \in 1..Len(R) /\ R[j - k] = tx_msgq[j]
        BY <1>1, <2>1, <2>4, <3>1
      <3>3. QED BY <3>2
    <2>9. Len(R) <= SIZE_OF_TXQUEUE
      BY <1>1, <2>1, <2>4
    <2>10. QED BY <1>3, <2>4, <2>6, <2>7, <2>8, <2>9 DEF R
  <1>4. QED BY <1>2, <1>3

-----------------------------------------------------------------------------
(* The invariant.                                                          *)

TransRec == [tStarted : Nat, tClosed : Nat, tRejected : Nat]
PktRec == [OkCnt : Nat, TokCnt : Nat, CvCnt : Nat, AckCnt : Nat, RcvCnt : Nat]
LogRec == [timeoutCnt : Nat, tokenMisCnt : Nat, pecCnt : Nat]

LEMMA Logs ==
  ASSUME IInv
  PROVE  /\ transLog \in [Nodes -> TransRec] /\ pktCntLog \in [Nodes -> PktRec]
         /\ log \in [Nodes -> LogRec]
  BY DEF IInv, TypeOK, TransRec, PktRec, LogRec

LEMMA Basics ==
  ASSUME IInv
  PROVE  /\ serial \in Nat /\ serial \in 0..MaxTokens /\ MaxTokens \in Nat
         /\ SIZE_OF_TXQUEUE \in Nat \ {0} /\ SIZE_OF_RXQUEUE \in Nat \ {0}
         /\ tx_msgq \in Seq(Token) /\ Len(tx_msgq) \in Nat /\ Len(tx_msgq) <= SIZE_OF_TXQUEUE
         /\ rx_msgq \in Seq(Data) /\ Len(rx_msgq) \in Nat /\ Len(rx_msgq) <= SIZE_OF_RXQUEUE
         /\ \A i \in 1..Len(tx_msgq) : tx_msgq[i] \in Token /\ tx_msgq[i].token \in Nat
         /\ \A i \in 1..Len(rx_msgq) : rx_msgq[i] \in Data /\ rx_msgq[i].token \in Nat
  <1>1. /\ tx_msgq \in Seq(Token) /\ Len(tx_msgq) <= SIZE_OF_TXQUEUE
        /\ rx_msgq \in Seq(Data) /\ Len(rx_msgq) <= SIZE_OF_RXQUEUE /\ serial \in 0..MaxTokens
    BY DEF IInv, TypeOK
  <1>2. /\ \A i \in 1..Len(tx_msgq) : tx_msgq[i] \in Token
        /\ \A i \in 1..Len(rx_msgq) : rx_msgq[i] \in Data
    BY <1>1, ElementOfSeq
  <1>3. /\ SIZE_OF_TXQUEUE \in Nat \ {0} /\ SIZE_OF_RXQUEUE \in Nat \ {0} /\ MaxTokens \in Nat
    BY DiagAssumption
  <1>4. /\ \A t \in Token : t.token \in Nat
        /\ \A d \in Data : d.token \in Nat
    BY <1>3 DEF Token, Data
  <1>5. serial \in Nat
    BY <1>1, <1>3
  <1>6. Len(tx_msgq) \in Nat /\ Len(rx_msgq) \in Nat
    BY <1>1, LenProperties
  <1>7. QED BY <1>1, <1>2, <1>3, <1>4, <1>5, <1>6

LEMMA MoveEffect ==
  ASSUME TypeOK, NEW n \in Nodes, NEW from \in Scan!Phase, NEW to \in Scan!Phase,
         Scan!Move(n, from, to)
  PROVE  /\ phase[n] = from /\ phase'[n] = to
         /\ \A m \in Nodes : m # n => phase'[m] = phase[m]
         /\ phase' \in [Nodes -> Scan!Phase]
  BY DEF Scan!Move, TypeOK, Scan!TypeOK

(* The counters of a node, as PacketsFollow relates them.                  *)
Follows(t, c, l, p) ==
  /\ t.tStarted = c.OkCnt
  /\ c.OkCnt = c.TokCnt + One(p = "reported")
  /\ c.TokCnt + c.RcvCnt = c.CvCnt + 2 * l.timeoutCnt + One(p = "polled")
  /\ c.CvCnt = c.AckCnt + One(p = "read")

LEMMA FollowsAll ==
  PacketsFollow <=> \A n \in Nodes : Follows(transLog[n], pktCntLog[n], log[n], phase[n])
  BY DEF PacketsFollow, Follows

LEMMA InitIInv == Init => IInv
  <1> SUFFICES ASSUME Init PROVE IInv
    OBVIOUS
  <1>1. TypeOK
    <2>1. raced \in BOOLEAN
      BY Zenon DEF Init
    <2>2. phase \in [Nodes -> Scan!Phase] /\ okTimer \subseteq Nodes /\ serial \in 0..MaxTokens
      BY DiagAssumption DEF Init, Scan!Init, Scan!Phase
    <2>3. /\ tx_msgq \in Seq(Token) /\ Len(tx_msgq) <= SIZE_OF_TXQUEUE
          /\ rx_msgq \in Seq(Data) /\ Len(rx_msgq) <= SIZE_OF_RXQUEUE
          /\ todo \in Seq(Nodes) /\ Len(todo) <= 2 /\ reg \in Seq(Nat) /\ Len(reg) <= 1
      BY DiagAssumption, EmptySeq DEF Init, None
    <2>4. /\ transLog \in [Nodes -> TransRec] /\ pktCntLog \in [Nodes -> PktRec]
          /\ log \in [Nodes -> LogRec] /\ overrun \subseteq {"rx", "tx"}
      BY DEF Init, TransRec, PktRec, LogRec
    <2>5. QED BY <2>1, <2>2, <2>3, <2>4 DEF TypeOK, Scan!TypeOK, TransRec, PktRec, LogRec
  <1>2. Exclusive /\ Ordered /\ TokensMatch /\ Read
    BY DEF Init, Scan!Init, Exclusive, Ordered, Kept, Sorted, TokensMatch, Read
  <1>3. DataAccounted
    <2>1. \A n \in Nodes : Pending(n) = 0
      BY PendingIs, CountEmpty, EmptySeq DEF Init, Pending
    <2>2. QED BY <2>1 DEF Init, DataAccounted
  <1>4. RejectedIsCombined
    <2>1. \A n \in Nodes : Owed(n) = 0
      BY OwedIs, CountEmpty, EmptySeq DEF Init, Owed
    <2>2. QED BY <2>1 DEF Init, RejectedIsCombined
  <1>5. PacketsFollow
    BY DEF Init, Scan!Init, PacketsFollow, One
  <1>6. QED BY <1>1, <1>2, <1>3, <1>4, <1>5 DEF IInv

(* An OK: a transaction is started.                                        *)
LEMMA StepTakeOk ==
  ASSUME IInv, NEW n \in Nodes, TakeOk(n)
  PROVE  IInv'
  <1>1. /\ Scan!Move(n, "due", "reported") /\ okTimer' \subseteq okTimer
        /\ transLog' = [transLog EXCEPT ![n].tStarted = @ + 1]
        /\ pktCntLog' = [pktCntLog EXCEPT ![n].OkCnt = @ + 1]
        /\ UNCHANGED <<serial, tx_msgq, rx_msgq, overrun, log, todo, reg, raced>>
    BY DEF TakeOk, Scan!Report, queues, diagVars
  <1>2. /\ phase[n] = "due" /\ phase'[n] = "reported"
        /\ \A m \in Nodes : m # n => phase'[m] = phase[m]
        /\ phase' \in [Nodes -> Scan!Phase]
    BY <1>1, MoveEffect DEF IInv, Scan!Phase
  <1>3. /\ transLog' \in [Nodes -> TransRec]
        /\ transLog'[n].tStarted = transLog[n].tStarted + 1
        /\ \A m \in Nodes : m # n => transLog'[m] = transLog[m]
        /\ \A m \in Nodes : /\ transLog'[m].tClosed = transLog[m].tClosed
                            /\ transLog'[m].tRejected = transLog[m].tRejected
    BY <1>1, Logs DEF TransRec
  <1>4. /\ pktCntLog' \in [Nodes -> PktRec]
        /\ \A m \in Nodes : m # n => pktCntLog'[m] = pktCntLog[m]
        /\ \A m \in Nodes : pktCntLog'[m].CvCnt = pktCntLog[m].CvCnt
        /\ pktCntLog'[n].OkCnt = pktCntLog[n].OkCnt + 1
        /\ pktCntLog'[n].TokCnt = pktCntLog[n].TokCnt
        /\ pktCntLog'[n].AckCnt = pktCntLog[n].AckCnt
        /\ pktCntLog'[n].RcvCnt = pktCntLog[n].RcvCnt
    BY <1>1, Logs DEF PktRec
  <1>5. TypeOK'
    BY <1>1, <1>2, <1>3, <1>4 DEF IInv, TypeOK, Scan!TypeOK, TransRec, PktRec
  <1>6. Exclusive' /\ Ordered' /\ TokensMatch'
    BY <1>1, <1>2 DEF IInv, Exclusive, Ordered, Kept, HasToken, TokensMatch
  <1>7. Read'
    <2>1. todo = <<>> /\ reg = None
      BY DEF TakeOk, Idle, IInv, Read
    <2>2. QED BY <1>1, <2>1 DEF Read
  <1>8. DataAccounted' /\ RejectedIsCombined'
    BY <1>1, <1>3, <1>4 DEF IInv, DataAccounted, Pending, RejectedIsCombined, Owed
  <1>9. PacketsFollow'
    <2>1. Follows(transLog'[n], pktCntLog'[n], log'[n], phase'[n])
      <3>1. Follows(transLog[n], pktCntLog[n], log[n], phase[n])
        BY FollowsAll DEF IInv
      <3>2. transLog[n] \in TransRec /\ pktCntLog[n] \in PktRec /\ log'[n] = log[n]
        BY <1>1, Logs
      <3>3. QED BY <1>2, <1>3, <1>4, <3>1, <3>2 DEF Follows, One, TransRec, PktRec
    <2>2. \A m \in Nodes : m # n => Follows(transLog'[m], pktCntLog'[m], log'[m], phase'[m])
      BY <1>1, <1>2, <1>3, <1>4, FollowsAll DEF IInv
    <2>3. QED BY <2>1, <2>2 DEF PacketsFollow, Follows
  <1>10. QED BY <1>5, <1>6, <1>7, <1>8, <1>9 DEF IInv

LEMMA StepSendAck ==
  ASSUME IInv, NEW n \in Nodes, SendAck(n)
  PROVE  IInv'
  <1>1. /\ Scan!Move(n, "read", "due") /\ okTimer' = okTimer \cup {n}
        /\ pktCntLog' = [pktCntLog EXCEPT ![n].AckCnt = @ + 1]
        /\ UNCHANGED <<serial, tx_msgq, rx_msgq, overrun, transLog, log, todo, reg, raced>>
    BY DEF SendAck, Scan!Release, queues, diagVars
  <1>2. /\ phase[n] = "read" /\ phase'[n] = "due"
        /\ \A m \in Nodes : m # n => phase'[m] = phase[m]
        /\ phase' \in [Nodes -> Scan!Phase]
    BY <1>1, MoveEffect DEF IInv, Scan!Phase
  <1>3. /\ pktCntLog' \in [Nodes -> PktRec]
        /\ \A m \in Nodes : m # n => pktCntLog'[m] = pktCntLog[m]
        /\ \A m \in Nodes : pktCntLog'[m].CvCnt = pktCntLog[m].CvCnt
        /\ pktCntLog'[n].OkCnt = pktCntLog[n].OkCnt
        /\ pktCntLog'[n].TokCnt = pktCntLog[n].TokCnt
        /\ pktCntLog'[n].AckCnt = pktCntLog[n].AckCnt + 1
        /\ pktCntLog'[n].RcvCnt = pktCntLog[n].RcvCnt
    BY <1>1, Logs DEF PktRec
  <1>4. TypeOK'
    BY <1>1, <1>2, <1>3 DEF IInv, TypeOK, Scan!TypeOK, PktRec
  <1>5. Exclusive' /\ Ordered' /\ TokensMatch'
    BY <1>1, <1>2 DEF IInv, Exclusive, Ordered, Kept, HasToken, TokensMatch
  <1>6. Read' /\ DataAccounted' /\ RejectedIsCombined'
    BY <1>1, <1>3 DEF IInv, Read, DataAccounted, Pending, RejectedIsCombined, Owed
  <1>7. PacketsFollow'
    <2>1. Follows(transLog'[n], pktCntLog'[n], log'[n], phase'[n])
      <3>1. Follows(transLog[n], pktCntLog[n], log[n], phase[n])
        BY FollowsAll DEF IInv
      <3>2. transLog'[n] = transLog[n] /\ pktCntLog[n] \in PktRec /\ log'[n] = log[n]
        BY <1>1, Logs
      <3>3. QED BY <1>2, <1>3, <3>1, <3>2 DEF Follows, One, PktRec
    <2>2. \A m \in Nodes : m # n => Follows(transLog'[m], pktCntLog'[m], log'[m], phase'[m])
      BY <1>1, <1>2, <1>3, FollowsAll DEF IInv
    <2>3. QED BY <2>1, <2>2 DEF PacketsFollow, Follows
  <1>8. QED BY <1>4, <1>5, <1>6, <1>7 DEF IInv

(* A timer expires in the interrupt: rejected, a timeout, and one or two   *)
(* recoveries.                                                             *)
LEMMA CountsTimeout ==
  ASSUME IInv, NEW n \in Nodes, NEW k \in Nat, CountTimeout(n), CountRecovery(n, k)
  PROVE  /\ transLog' \in [Nodes -> TransRec] /\ pktCntLog' \in [Nodes -> PktRec]
         /\ log' \in [Nodes -> LogRec]
         /\ \A m \in Nodes : m # n => /\ transLog'[m] = transLog[m]
                                      /\ pktCntLog'[m] = pktCntLog[m] /\ log'[m] = log[m]
         /\ transLog'[n].tStarted = transLog[n].tStarted
         /\ transLog'[n].tClosed = transLog[n].tClosed
         /\ transLog'[n].tRejected = transLog[n].tRejected + 1
         /\ pktCntLog'[n].OkCnt = pktCntLog[n].OkCnt
         /\ pktCntLog'[n].TokCnt = pktCntLog[n].TokCnt
         /\ pktCntLog'[n].CvCnt = pktCntLog[n].CvCnt
         /\ pktCntLog'[n].AckCnt = pktCntLog[n].AckCnt
         /\ pktCntLog'[n].RcvCnt = pktCntLog[n].RcvCnt + k
         /\ log'[n].timeoutCnt = log[n].timeoutCnt + 1
         /\ log'[n].tokenMisCnt = log[n].tokenMisCnt /\ log'[n].pecCnt = log[n].pecCnt
         /\ UNCHANGED <<serial, tx_msgq, rx_msgq, overrun, todo, reg>>
  <1>1. /\ transLog' = [transLog EXCEPT ![n].tRejected = @ + 1]
        /\ log' = [log EXCEPT ![n].timeoutCnt = @ + 1]
        /\ pktCntLog' = [pktCntLog EXCEPT ![n].RcvCnt = @ + k]
        /\ UNCHANGED <<serial, tx_msgq, rx_msgq, overrun, todo, reg>>
    BY DEF CountTimeout, CountRecovery, queues
  <1>2. /\ transLog' \in [Nodes -> TransRec]
        /\ \A m \in Nodes : m # n => transLog'[m] = transLog[m]
        /\ transLog'[n].tStarted = transLog[n].tStarted
        /\ transLog'[n].tClosed = transLog[n].tClosed
        /\ transLog'[n].tRejected = transLog[n].tRejected + 1
    BY <1>1, Logs DEF TransRec
  <1>3. /\ pktCntLog' \in [Nodes -> PktRec]
        /\ \A m \in Nodes : m # n => pktCntLog'[m] = pktCntLog[m]
        /\ pktCntLog'[n].OkCnt = pktCntLog[n].OkCnt
        /\ pktCntLog'[n].TokCnt = pktCntLog[n].TokCnt
        /\ pktCntLog'[n].CvCnt = pktCntLog[n].CvCnt
        /\ pktCntLog'[n].AckCnt = pktCntLog[n].AckCnt
        /\ pktCntLog'[n].RcvCnt = pktCntLog[n].RcvCnt + k
    BY <1>1, Logs DEF PktRec
  <1>4. /\ log' \in [Nodes -> LogRec]
        /\ \A m \in Nodes : m # n => log'[m] = log[m]
        /\ log'[n].timeoutCnt = log[n].timeoutCnt + 1
        /\ log'[n].tokenMisCnt = log[n].tokenMisCnt /\ log'[n].pecCnt = log[n].pecCnt
    BY <1>1, Logs DEF LogRec
  <1>5. QED BY <1>1, <1>2, <1>3, <1>4

(* The accounts of errors, unless the interrupt came between the read and  *)
(* the store of tRejected.                                                 *)
LEMMA ExpiryKeeps ==
  ASSUME IInv, NEW n \in Nodes, NEW k \in Nat, CountTimeout(n), CountRecovery(n, k)
  PROVE  /\ raced' \in BOOLEAN /\ Read' /\ RejectedIsCombined' /\ DataAccounted'
         /\ TokensMatch'
  <1>1. raced' \in BOOLEAN
    BY Zenon DEF CountTimeout
  <1>2. ~raced' => ~raced /\ ~(reg # None /\ Head(todo) = n)
    BY Zenon DEF CountTimeout
  <1>3. Read'
    <2>1. reg' # None => todo' # <<>>
      BY CountsTimeout DEF IInv, Read
    <2>2. ASSUME reg' # None, ~raced'
          PROVE  Head(reg') = transLog'[Head(todo')].tRejected
      <3>1. reg' = reg /\ todo' = todo /\ Head(todo) # n
        BY <1>2, <2>2, CountsTimeout
      <3>2. Head(reg) = transLog[Head(todo)].tRejected /\ todo # <<>>
        BY <1>2, <2>2, <3>1 DEF IInv, Read
      <3>3. Head(todo) \in Nodes
        BY <3>2, HeadTailProperties DEF IInv, TypeOK
      <3>4. QED BY <3>1, <3>2, <3>3, CountsTimeout
    <2>3. QED BY <2>1, <2>2 DEF Read
  <1>4. RejectedIsCombined'
    <2> SUFFICES ASSUME ~raced', NEW m \in Nodes
                 PROVE  transLog'[m].tRejected + Owed(m)' =
                          log'[m].pecCnt + log'[m].timeoutCnt + log'[m].tokenMisCnt
      BY DEF RejectedIsCombined
    <2>1. transLog[m].tRejected + Owed(m) =
            log[m].pecCnt + log[m].timeoutCnt + log[m].tokenMisCnt
      BY <1>2 DEF IInv, RejectedIsCombined
    <2>2. Owed(m)' = Owed(m) /\ Owed(m) \in Nat
      <3>1. Owed(m) = Count(todo, {m}) /\ Owed(m)' = Owed(m)
        BY CountsTimeout, OwedIs DEF Owed, IInv, TypeOK
      <3>2. todo \in Seq(Nodes)
        BY DEF IInv, TypeOK
      <3>3. QED BY <3>1, <3>2, CountFinite
    <2>3. transLog[m] \in TransRec /\ log[m] \in LogRec
      BY Logs
    <2>4. CASE m = n
      <3>1. /\ transLog'[n].tRejected = transLog[n].tRejected + 1
            /\ log'[n].timeoutCnt = log[n].timeoutCnt + 1
            /\ log'[n].tokenMisCnt = log[n].tokenMisCnt /\ log'[n].pecCnt = log[n].pecCnt
        BY CountsTimeout
      <3>2. QED BY <2>1, <2>2, <2>3, <2>4, <3>1 DEF TransRec, LogRec
    <2>5. CASE m # n
      BY <2>1, <2>2, <2>5, CountsTimeout
    <2>6. QED BY <2>4, <2>5
  <1>5. \A m \in Nodes :
          /\ transLog'[m].tClosed = transLog[m].tClosed /\ log'[m].pecCnt = log[m].pecCnt
          /\ pktCntLog'[m].CvCnt = pktCntLog[m].CvCnt
          /\ log'[m].tokenMisCnt = log[m].tokenMisCnt
    BY CountsTimeout
  <1>6. DataAccounted' /\ TokensMatch'
    BY <1>5, CountsTimeout DEF IInv, DataAccounted, Pending, TokensMatch
  <1>7. QED BY <1>1, <1>3, <1>4, <1>6

LEMMA StepOkExpiry ==
  ASSUME IInv, NEW n \in Nodes, OkExpiry(n)
  PROVE  IInv'
  <1>1. /\ CountTimeout(n) /\ CountRecovery(n, 2) /\ okTimer' \subseteq okTimer
        /\ UNCHANGED phase
    BY DEF OkExpiry, RecoveriesPerOk
  <1>2. TypeOK'
    BY <1>1, CountsTimeout, ExpiryKeeps
      DEF IInv, TypeOK, Scan!TypeOK, TransRec, PktRec, LogRec
  <1>3. Exclusive' /\ Ordered'
    <2>1. UNCHANGED <<serial, tx_msgq, rx_msgq, overrun>>
      BY <1>1, CountsTimeout
    <2>2. QED BY <1>1, <2>1 DEF IInv, Exclusive, Ordered, Kept, HasToken
  <1>4. PacketsFollow'
    <2>1. Follows(transLog'[n], pktCntLog'[n], log'[n], phase'[n])
      <3>1. Follows(transLog[n], pktCntLog[n], log[n], phase[n])
        BY FollowsAll DEF IInv
      <3>2. transLog[n] \in TransRec /\ pktCntLog[n] \in PktRec /\ log[n] \in LogRec
        BY Logs
      <3>3. /\ transLog'[n].tStarted = transLog[n].tStarted
            /\ pktCntLog'[n].OkCnt = pktCntLog[n].OkCnt
            /\ pktCntLog'[n].TokCnt = pktCntLog[n].TokCnt
            /\ pktCntLog'[n].CvCnt = pktCntLog[n].CvCnt
            /\ pktCntLog'[n].AckCnt = pktCntLog[n].AckCnt
            /\ pktCntLog'[n].RcvCnt = pktCntLog[n].RcvCnt + 2
            /\ log'[n].timeoutCnt = log[n].timeoutCnt + 1
        BY <1>1, CountsTimeout
      <3>4. QED BY <1>1, <3>1, <3>2, <3>3 DEF Follows, One, TransRec, PktRec, LogRec
    <2>2. \A m \in Nodes : m # n => Follows(transLog'[m], pktCntLog'[m], log'[m], phase'[m])
      BY <1>1, CountsTimeout, FollowsAll DEF IInv
    <2>3. QED BY <2>1, <2>2 DEF PacketsFollow, Follows
  <1>5. QED BY <1>1, <1>2, <1>3, <1>4, ExpiryKeeps DEF IInv

LEMMA StepDataExpiry ==
  ASSUME IInv, NEW n \in Nodes, DataExpiry(n)
  PROVE  IInv'
  <1>1. /\ CountTimeout(n) /\ CountRecovery(n, 1) /\ UNCHANGED okTimer
        /\ Scan!Move(n, "polled", "due")
    BY DEF DataExpiry, Scan!Lose
  <1>2. /\ phase[n] = "polled" /\ phase'[n] = "due"
        /\ \A m \in Nodes : m # n => phase'[m] = phase[m]
        /\ phase' \in [Nodes -> Scan!Phase]
    BY <1>1, MoveEffect DEF IInv, Scan!Phase
  <1>3. TypeOK'
    BY <1>1, <1>2, CountsTimeout, ExpiryKeeps
      DEF IInv, TypeOK, Scan!TypeOK, TransRec, PktRec, LogRec
  <1>4. Exclusive' /\ Ordered'
    <2>1. UNCHANGED <<serial, tx_msgq, rx_msgq, overrun>>
      BY <1>1, CountsTimeout
    <2>2. QED BY <1>1, <1>2, <2>1 DEF IInv, Exclusive, Ordered, Kept, HasToken
  <1>5. PacketsFollow'
    <2>1. Follows(transLog'[n], pktCntLog'[n], log'[n], phase'[n])
      <3>1. Follows(transLog[n], pktCntLog[n], log[n], phase[n])
        BY FollowsAll DEF IInv
      <3>2. transLog[n] \in TransRec /\ pktCntLog[n] \in PktRec /\ log[n] \in LogRec
        BY Logs
      <3>3. /\ transLog'[n].tStarted = transLog[n].tStarted
            /\ pktCntLog'[n].OkCnt = pktCntLog[n].OkCnt
            /\ pktCntLog'[n].TokCnt = pktCntLog[n].TokCnt
            /\ pktCntLog'[n].CvCnt = pktCntLog[n].CvCnt
            /\ pktCntLog'[n].AckCnt = pktCntLog[n].AckCnt
            /\ pktCntLog'[n].RcvCnt = pktCntLog[n].RcvCnt + 1
            /\ log'[n].timeoutCnt = log[n].timeoutCnt + 1
        BY <1>1, CountsTimeout
      <3>4. QED BY <1>2, <3>1, <3>2, <3>3 DEF Follows, One, TransRec, PktRec, LogRec
    <2>2. \A m \in Nodes : m # n => Follows(transLog'[m], pktCntLog'[m], log'[m], phase'[m])
      BY <1>1, <1>2, CountsTimeout, FollowsAll DEF IInv
    <2>3. QED BY <2>1, <2>2 DEF PacketsFollow, Follows
  <1>6. QED BY <1>1, <1>3, <1>4, <1>5, ExpiryKeeps DEF IInv

(* A token is sent: the latest, at the end of tx_msgq.                     *)
LEMMA StepSendToken ==
  ASSUME IInv, NEW n \in Nodes, SendToken(n)
  PROVE  IInv'
  <1> DEFINE t == [addr |-> n, token |-> serial + 1]
  <1>1. /\ Scan!AllIn({"reported", "read"}) /\ Scan!Move(n, "reported", "polled")
        /\ serial < MaxTokens /\ serial' = serial + 1
        /\ tx_msgq' = Push(tx_msgq, SIZE_OF_TXQUEUE, t)
        /\ overrun' = IF Len(tx_msgq) >= SIZE_OF_TXQUEUE THEN overrun \cup {"tx"} ELSE overrun
        /\ pktCntLog' = [pktCntLog EXCEPT ![n].TokCnt = @ + 1]
        /\ UNCHANGED <<okTimer, rx_msgq, transLog, log, todo, reg, raced>>
    BY DEF SendToken, Scan!Poll, QueueToken, Overruns, diagVars
  <1>2. /\ phase[n] = "reported" /\ phase'[n] = "polled"
        /\ \A m \in Nodes : m # n => phase'[m] = phase[m]
        /\ phase' \in [Nodes -> Scan!Phase]
        /\ \A m \in Nodes : phase[m] # "polled"
    <2>1. \A m \in Nodes : phase[m] # "polled"
      BY <1>1 DEF Scan!AllIn
    <2>2. QED BY <1>1, <2>1, MoveEffect DEF IInv, Scan!Phase
  <1>3. /\ serial \in Nat /\ serial + 1 \in 1..MaxTokens
        /\ tx_msgq \in Seq(Token) /\ Len(tx_msgq) <= SIZE_OF_TXQUEUE /\ Len(tx_msgq) \in Nat
        /\ SIZE_OF_TXQUEUE \in Nat \ {0}
        /\ \A i \in 1..Len(tx_msgq) : tx_msgq[i].token \in Nat
    <2>1. serial < MaxTokens
      BY <1>1
    <2>2. serial + 1 \in 1..MaxTokens
      BY <2>1, Basics
    <2>3. QED BY <2>2, Basics
  <1>4. t \in Token /\ t.addr = n /\ t.token = serial + 1
    BY <1>3 DEF Token
  <1> HIDE DEF t
  <1>5. /\ tx_msgq' \in Seq(Token) /\ Len(tx_msgq') <= SIZE_OF_TXQUEUE
        /\ \A i \in 1..Len(tx_msgq') :
             tx_msgq'[i] = t \/ \E j \in 1..Len(tx_msgq) : tx_msgq'[i] = tx_msgq[j]
        /\ Len(tx_msgq) < SIZE_OF_TXQUEUE => tx_msgq' = Append(tx_msgq, t)
    <2> DEFINE Q == Push(tx_msgq, SIZE_OF_TXQUEUE, t)
    <2>1. /\ Q \in Seq(Token) /\ Len(Q) <= SIZE_OF_TXQUEUE
          /\ \A i \in 1..Len(Q) : Q[i] = t \/ \E j \in 1..Len(tx_msgq) : Q[i] = tx_msgq[j]
          /\ Len(tx_msgq) < SIZE_OF_TXQUEUE => Q = Append(tx_msgq, t)
      BY <1>3, <1>4, PushEffect
    <2>2. tx_msgq' = Q
      BY <1>1 DEF t
    <2> HIDE DEF Q
    <2>3. QED BY <2>1, <2>2
  <1>6. /\ pktCntLog' \in [Nodes -> PktRec]
        /\ \A m \in Nodes : m # n => pktCntLog'[m] = pktCntLog[m]
        /\ \A m \in Nodes : pktCntLog'[m].CvCnt = pktCntLog[m].CvCnt
        /\ pktCntLog'[n].OkCnt = pktCntLog[n].OkCnt
        /\ pktCntLog'[n].TokCnt = pktCntLog[n].TokCnt + 1
        /\ pktCntLog'[n].AckCnt = pktCntLog[n].AckCnt
        /\ pktCntLog'[n].RcvCnt = pktCntLog[n].RcvCnt
    <2>1. pktCntLog' = [pktCntLog EXCEPT ![n].TokCnt = @ + 1]
      BY <1>1
    <2>2. pktCntLog \in [Nodes -> PktRec]
      BY Logs
    <2>3. QED BY <2>1, <2>2 DEF PktRec
  <1>7. TypeOK'
    <2>1. overrun' \subseteq {"rx", "tx"} /\ serial' \in 0..MaxTokens
      <3>1. overrun \subseteq {"rx", "tx"}
        BY DEF IInv, TypeOK
      <3>2. overrun' = overrun \/ overrun' = overrun \cup {"tx"}
        BY <1>1, Zenon
      <3>3. overrun' \subseteq {"rx", "tx"}
        BY <3>1, <3>2
      <3>4. serial' \in 1..MaxTokens
        BY <1>1, <1>3
      <3>5. QED BY <3>3, <3>4, Basics
    <2>2. QED BY <1>1, <1>2, <1>5, <1>6, <2>1 DEF IInv, TypeOK, Scan!TypeOK, PktRec
  <1>8. Exclusive'
    BY <1>1, <1>2, <1>3 DEF Exclusive
  <1>9. Ordered'
    <2>1. \A i \in 1..Len(tx_msgq') : tx_msgq'[i].token <= serial'
      <3>1. \A i \in 1..Len(tx_msgq) : tx_msgq[i].token <= serial + 1
        BY <1>3 DEF IInv, Ordered
      <3>2. serial' = serial + 1
        BY <1>1
      <3>3. QED BY <1>3, <1>4, <1>5, <3>1, <3>2
    <2>2. \A i \in 1..Len(rx_msgq') : rx_msgq'[i].token < serial'
      <3>1. \A i \in 1..Len(rx_msgq) : rx_msgq[i].token \in Nat
        BY Basics
      <3>2. \A i \in 1..Len(rx_msgq) : rx_msgq[i].token <= serial
        BY DEF IInv, Ordered
      <3>3. serial' = serial + 1 /\ rx_msgq' = rx_msgq
        BY <1>1
      <3>4. QED BY <1>3, <3>1, <3>2, <3>3
    <2>3. ASSUME overrun' = {}
          PROVE  Kept'
      <3>1. overrun = {} /\ Len(tx_msgq) < SIZE_OF_TXQUEUE
        <4>1. overrun' = IF Len(tx_msgq) >= SIZE_OF_TXQUEUE THEN overrun \cup {"tx"} ELSE overrun
          BY <1>1
        <4>2. ~(Len(tx_msgq) >= SIZE_OF_TXQUEUE)
          BY <2>3, <4>1, Zenon
        <4>3. Len(tx_msgq) \in Nat /\ SIZE_OF_TXQUEUE \in Nat
          BY <1>3
        <4>4. QED BY <2>3, <4>1, <4>2, <4>3
      <3>2. /\ tx_msgq' = Append(tx_msgq, t) /\ Len(tx_msgq') = Len(tx_msgq) + 1
            /\ \A i \in 1..Len(tx_msgq) : tx_msgq'[i] = tx_msgq[i]
            /\ tx_msgq'[Len(tx_msgq) + 1] = t
        <4>1. tx_msgq' = Append(tx_msgq, t)
          BY <1>5, <3>1
        <4>2. QED BY <1>3, <1>4, <4>1, AppendProperties
      <3>3. /\ Sorted(tx_msgq) /\ Sorted(rx_msgq)
            /\ \A i \in 1..Len(rx_msgq) : HasToken(rx_msgq[i].addr, rx_msgq[i].token)
            /\ \A i \in 1..Len(tx_msgq) : tx_msgq[i].token <= serial
        BY <3>1 DEF IInv, Ordered, Kept
      <3>4. Sorted(tx_msgq)'
        <4>1. ASSUME NEW i \in 1..Len(tx_msgq'), NEW j \in 1..Len(tx_msgq'), i < j
              PROVE  tx_msgq'[i].token < tx_msgq'[j].token
          <5>1. i \in 1..Len(tx_msgq) /\ tx_msgq'[i] = tx_msgq[i]
            BY <1>3, <3>2, <4>1
          <5>2. CASE j = Len(tx_msgq) + 1
            BY <1>3, <1>4, <3>2, <3>3, <5>1, <5>2
          <5>3. CASE j # Len(tx_msgq) + 1
            <6>1. j \in 1..Len(tx_msgq) /\ tx_msgq'[j] = tx_msgq[j]
              BY <1>3, <3>2, <5>3
            <6>2. QED BY <3>3, <4>1, <5>1, <6>1 DEF Sorted
          <5>4. QED BY <5>2, <5>3
        <4>2. QED BY <4>1 DEF Sorted
      <3>5. \A a, k : HasToken(a, k) => HasToken(a, k)'
        BY <1>3, <3>2 DEF HasToken
      <3>6. HasToken(n, serial)'
        <4>1. serial' = serial + 1 /\ Len(tx_msgq) + 1 \in 1..Len(tx_msgq')
          BY <1>1, <1>3, <3>2
        <4>2. QED BY <1>4, <3>2, <4>1 DEF HasToken
      <3>7. rx_msgq' = rx_msgq
        BY <1>1
      <3>8. (\A i \in 1..Len(rx_msgq) : HasToken(rx_msgq[i].addr, rx_msgq[i].token))'
        BY <3>3, <3>5, <3>7
      <3>9. (\A m \in Nodes : phase[m] = "polled" => HasToken(m, serial))'
        BY <1>2, <3>6
      <3>10. Sorted(rx_msgq)'
        BY <3>3, <3>7
      <3>11. QED BY <3>4, <3>8, <3>9, <3>10, Zenon DEF Kept
    <2>4. \A i \in 1..Len(rx_msgq') : rx_msgq'[i].token <= serial'
      <3>1. serial' = serial + 1 /\ rx_msgq' = rx_msgq
        BY <1>1
      <3>2. \A i \in 1..Len(rx_msgq) : rx_msgq[i].token \in Nat /\ rx_msgq[i].token <= serial
        <4>1. \A i \in 1..Len(rx_msgq) : rx_msgq[i].token <= serial
          BY DEF IInv, Ordered
        <4>2. QED BY <4>1, Basics
      <3>3. QED BY <1>3, <3>1, <3>2
    <2>5. QED BY <2>1, <2>2, <2>3, <2>4, Zenon DEF Ordered
  <1>10. TokensMatch' /\ Read' /\ DataAccounted' /\ RejectedIsCombined'
    <2>1. overrun' = {} => overrun = {}
      BY <1>1
    <2>2. "rx" \notin overrun' => "rx" \notin overrun
      BY <1>1
    <2>3. QED BY <1>1, <1>6, <2>1, <2>2
            DEF IInv, TokensMatch, Read, DataAccounted, Pending, RejectedIsCombined, Owed
  <1>11. PacketsFollow'
    <2>1. Follows(transLog'[n], pktCntLog'[n], log'[n], phase'[n])
      <3>1. Follows(transLog[n], pktCntLog[n], log[n], phase[n])
        BY FollowsAll DEF IInv
      <3>2. /\ transLog'[n] = transLog[n] /\ pktCntLog[n] \in PktRec /\ log'[n] = log[n]
            /\ log[n] \in LogRec
        BY <1>1, Logs
      <3>3. QED BY <1>2, <1>6, <3>1, <3>2 DEF Follows, One, PktRec, LogRec
    <2>2. \A m \in Nodes : m # n => Follows(transLog'[m], pktCntLog'[m], log'[m], phase'[m])
      BY <1>1, <1>2, <1>6, FollowsAll DEF IInv
    <2>3. QED BY <2>1, <2>2 DEF PacketsFollow, Follows
  <1>12. QED BY <1>7, <1>8, <1>9, <1>10, <1>11 DEF IInv

(* A Data is taken: it has the latest token, and goes to the end of        *)
(* rx_msgq if there is room.                                               *)
LEMMA StepTakeData ==
  ASSUME IInv, NEW n \in Nodes, TakeData(n)
  PROVE  IInv'
  <1>1. /\ Scan!Move(n, "polled", "read")
        /\ pktCntLog' = [pktCntLog EXCEPT ![n].CvCnt = @ + 1]
        /\ UNCHANGED <<okTimer, serial, tx_msgq, transLog, log, todo, reg, raced>>
    BY DEF TakeData, Scan!Read, QueueData, Overruns, diagVars
  <1>2. PICK ok \in BOOLEAN : QueueData([addr |-> n, token |-> serial, crcOk |-> ok])
    BY DEF TakeData
  <1> DEFINE d == [addr |-> n, token |-> serial, crcOk |-> ok]
  <1>3. /\ rx_msgq' = Push(rx_msgq, SIZE_OF_RXQUEUE, d)
        /\ overrun' = IF Len(rx_msgq) >= SIZE_OF_RXQUEUE THEN overrun \cup {"rx"} ELSE overrun
    BY <1>2 DEF QueueData, Overruns
  <1>4. /\ phase[n] = "polled" /\ phase'[n] = "read"
        /\ \A m \in Nodes : m # n => phase'[m] = phase[m]
        /\ phase' \in [Nodes -> Scan!Phase]
        /\ \A m \in Nodes : phase'[m] # "polled"
    <2>1. /\ phase[n] = "polled" /\ phase'[n] = "read"
          /\ \A m \in Nodes : m # n => phase'[m] = phase[m]
          /\ phase' \in [Nodes -> Scan!Phase]
      BY <1>1, MoveEffect DEF IInv, Scan!Phase
    <2>2. QED BY <2>1 DEF IInv, Exclusive
  <1>5. d \in Data /\ d.addr = n /\ d.token = serial
    <2>1. serial > 0
      BY <1>4 DEF IInv, Exclusive
    <2>2. serial \in 1..MaxTokens
      BY <2>1, Basics
    <2>3. QED BY <2>2 DEF Data
  <1> HIDE DEF d
  <1>6. /\ rx_msgq \in Seq(Data) /\ Len(rx_msgq) \in Nat /\ Len(rx_msgq) <= SIZE_OF_RXQUEUE
        /\ SIZE_OF_RXQUEUE \in Nat /\ serial \in Nat
        /\ \A i \in 1..Len(rx_msgq) : rx_msgq[i].token \in Nat /\ rx_msgq[i].token < serial
    <2>1. \A i \in 1..Len(rx_msgq) : rx_msgq[i].token < serial
      BY <1>4 DEF IInv, Ordered
    <2>2. QED BY <2>1, Basics
  <1>7. /\ rx_msgq' \in Seq(Data) /\ Len(rx_msgq') <= SIZE_OF_RXQUEUE
        /\ \A i \in 1..Len(rx_msgq') :
             rx_msgq'[i] = d \/ \E j \in 1..Len(rx_msgq) : rx_msgq'[i] = rx_msgq[j]
        /\ Len(rx_msgq) < SIZE_OF_RXQUEUE => rx_msgq' = Append(rx_msgq, d)
        /\ ~(Len(rx_msgq) < SIZE_OF_RXQUEUE) => \A G : Count(rx_msgq', G) = Count(rx_msgq, G)
    <2> DEFINE Q == Push(rx_msgq, SIZE_OF_RXQUEUE, d)
    <2>1. /\ Q \in Seq(Data) /\ Len(Q) <= SIZE_OF_RXQUEUE
          /\ \A i \in 1..Len(Q) : Q[i] = d \/ \E j \in 1..Len(rx_msgq) : Q[i] = rx_msgq[j]
          /\ Len(rx_msgq) < SIZE_OF_RXQUEUE => Q = Append(rx_msgq, d)
          /\ ~(Len(rx_msgq) < SIZE_OF_RXQUEUE) => \A G : Count(Q, G) = Count(rx_msgq, G)
      <3>1. /\ rx_msgq \in Seq(Data) /\ SIZE_OF_RXQUEUE \in Nat \ {0}
            /\ Len(rx_msgq) <= SIZE_OF_RXQUEUE /\ d \in Data
        BY <1>5, Basics
      <3>2. QED BY <3>1, PushEffect
    <2>2. rx_msgq' = Q
      BY <1>3 DEF d
    <2> HIDE DEF Q
    <2>3. QED BY <2>1, <2>2
  <1>8. /\ pktCntLog' \in [Nodes -> PktRec]
        /\ \A m \in Nodes : m # n => pktCntLog'[m] = pktCntLog[m]
        /\ pktCntLog'[n].CvCnt = pktCntLog[n].CvCnt + 1
        /\ pktCntLog'[n].OkCnt = pktCntLog[n].OkCnt
        /\ pktCntLog'[n].TokCnt = pktCntLog[n].TokCnt
        /\ pktCntLog'[n].AckCnt = pktCntLog[n].AckCnt
        /\ pktCntLog'[n].RcvCnt = pktCntLog[n].RcvCnt
    <2>1. pktCntLog' = [pktCntLog EXCEPT ![n].CvCnt = @ + 1]
      BY <1>1
    <2>2. pktCntLog \in [Nodes -> PktRec]
      BY Logs
    <2>3. QED BY <2>1, <2>2 DEF PktRec
  <1>9. /\ overrun' = {} => overrun = {}
        /\ "rx" \notin overrun' => "rx" \notin overrun /\ ~(Len(rx_msgq) >= SIZE_OF_RXQUEUE)
        /\ overrun' = {} => "rx" \notin overrun'
    BY <1>3, Zenon
  <1>10. TypeOK'
    <2>1. overrun' \subseteq {"rx", "tx"}
      <3>1. overrun \subseteq {"rx", "tx"}
        BY DEF IInv, TypeOK
      <3>2. overrun' = overrun \/ overrun' = overrun \cup {"rx"}
        BY <1>3, Zenon
      <3>3. QED BY <3>1, <3>2
    <2>2. QED BY <1>1, <1>4, <1>7, <1>8, <2>1 DEF IInv, TypeOK, Scan!TypeOK, PktRec
  <1>11. Exclusive'
    BY <1>4 DEF Exclusive
  <1>12. Ordered'
    <2>1. \A i \in 1..Len(rx_msgq') : rx_msgq'[i].token <= serial'
      <3>1. serial' = serial
        BY <1>1
      <3>2. QED BY <1>5, <1>6, <1>7, <3>1
    <2>2. \A i \in 1..Len(tx_msgq') : tx_msgq'[i].token <= serial'
      BY <1>1 DEF IInv, Ordered
    <2>3. ASSUME overrun' = {}
          PROVE  Kept'
      <3>1. overrun = {} /\ rx_msgq' = Append(rx_msgq, d)
        <4>1. overrun = {} /\ ~(Len(rx_msgq) >= SIZE_OF_RXQUEUE)
          BY <1>9, <2>3, Zenon
        <4>2. Len(rx_msgq) < SIZE_OF_RXQUEUE
          BY <1>6, <4>1
        <4>3. QED BY <1>7, <4>1, <4>2
      <3>2. /\ Len(rx_msgq') = Len(rx_msgq) + 1 /\ rx_msgq'[Len(rx_msgq) + 1] = d
            /\ \A i \in 1..Len(rx_msgq) : rx_msgq'[i] = rx_msgq[i]
        BY <1>5, <1>6, <3>1, AppendProperties
      <3>3. /\ Sorted(tx_msgq) /\ Sorted(rx_msgq) /\ HasToken(n, serial)
            /\ \A i \in 1..Len(rx_msgq) : HasToken(rx_msgq[i].addr, rx_msgq[i].token)
        BY <1>4, <3>1 DEF IInv, Ordered, Kept
      <3>4. Sorted(rx_msgq)'
        <4>1. ASSUME NEW i \in 1..Len(rx_msgq'), NEW j \in 1..Len(rx_msgq'), i < j
              PROVE  rx_msgq'[i].token < rx_msgq'[j].token
          <5>1. i \in 1..Len(rx_msgq) /\ rx_msgq'[i] = rx_msgq[i]
            BY <1>6, <3>2, <4>1
          <5>2. CASE j = Len(rx_msgq) + 1
            BY <1>5, <1>6, <3>2, <5>1, <5>2
          <5>3. CASE j # Len(rx_msgq) + 1
            <6>1. j \in 1..Len(rx_msgq) /\ rx_msgq'[j] = rx_msgq[j]
              BY <1>6, <3>2, <5>3
            <6>2. QED BY <3>3, <4>1, <5>1, <6>1 DEF Sorted
          <5>4. QED BY <5>2, <5>3
        <4>2. QED BY <4>1 DEF Sorted
      <3>5. Sorted(tx_msgq)'
        BY <1>1, <3>3 DEF Sorted
      <3>6. \A a, k : HasToken(a, k)' <=> HasToken(a, k)
        BY <1>1 DEF HasToken
      <3>7. (\A i \in 1..Len(rx_msgq) : HasToken(rx_msgq[i].addr, rx_msgq[i].token))'
        <4>1. \A i \in 1..Len(rx_msgq') : HasToken(rx_msgq'[i].addr, rx_msgq'[i].token)
          BY <1>5, <1>6, <3>2, <3>3
        <4>2. tx_msgq' = tx_msgq
          BY <1>1
        <4>3. QED BY <4>1, <4>2 DEF HasToken
      <3>8. (\A m \in Nodes : phase[m] = "polled" => HasToken(m, serial))'
        BY <1>4
      <3>9. QED BY <3>4, <3>5, <3>7, <3>8, Zenon DEF Kept
    <2>4. (\A m \in Nodes : phase[m] = "polled" =>
             \A i \in 1..Len(rx_msgq) : rx_msgq[i].token < serial)'
      BY <1>4
    <2>5. QED BY <2>1, <2>2, <2>3, <2>4, Zenon DEF Ordered
  <1>13. TokensMatch' /\ Read' /\ RejectedIsCombined'
    <2>1. UNCHANGED <<transLog, log, todo, reg, raced>>
      BY <1>1
    <2>2. QED BY <1>9, <2>1 DEF IInv, TokensMatch, Read, RejectedIsCombined, Owed
  <1>14. DataAccounted'
    <2> SUFFICES ASSUME NEW m \in Nodes
                 PROVE  /\ transLog'[m].tClosed + log'[m].pecCnt + Pending(m)' <= pktCntLog'[m].CvCnt
                        /\ "rx" \notin overrun' =>
                             transLog'[m].tClosed + log'[m].pecCnt + Pending(m)' = pktCntLog'[m].CvCnt
      BY DEF DataAccounted
    <2>1. transLog'[m] = transLog[m] /\ log'[m] = log[m]
      BY <1>1
    <2>2. /\ transLog[m].tClosed \in Nat /\ log[m].pecCnt \in Nat /\ pktCntLog[m].CvCnt \in Nat
      BY Logs DEF TransRec, LogRec, PktRec
    <2>3. /\ Pending(m) = Count(rx_msgq, Of(m)) /\ Pending(m)' = Count(rx_msgq', Of(m))
          /\ Count(rx_msgq, Of(m)) \in Nat
      BY <1>6, <1>7, PendingIs, CountFinite DEF Pending
    <2>4. /\ transLog[m].tClosed + log[m].pecCnt + Pending(m) <= pktCntLog[m].CvCnt
          /\ "rx" \notin overrun =>
               transLog[m].tClosed + log[m].pecCnt + Pending(m) = pktCntLog[m].CvCnt
      BY DEF IInv, DataAccounted
    <2>5. pktCntLog'[m].CvCnt = pktCntLog[m].CvCnt + One(d \in Of(m))
      <3>1. d \in Of(m) <=> m = n
        BY <1>5 DEF Of
      <3>2. CASE m = n
        BY <1>8, <3>1, <3>2 DEF One
      <3>3. CASE m # n
        BY <1>8, <2>2, <3>1, <3>3 DEF One
      <3>4. QED BY <3>2, <3>3
    <2>6. One(d \in Of(m)) \in 0..1
      BY DEF One
    <2>7. CASE Len(rx_msgq) < SIZE_OF_RXQUEUE
      <3>1. Count(rx_msgq', Of(m)) = Count(rx_msgq, Of(m)) + One(d \in Of(m))
        <4>1. rx_msgq' = Append(rx_msgq, d)
          BY <1>7, <2>7
        <4>2. QED BY <1>5, <1>6, <4>1, CountAppend
      <3>2. "rx" \notin overrun' => "rx" \notin overrun
        BY <1>9, Zenon
      <3>3. QED BY <2>1, <2>2, <2>3, <2>4, <2>5, <2>6, <3>1, <3>2
    <2>8. CASE ~(Len(rx_msgq) < SIZE_OF_RXQUEUE)
      <3>1. Count(rx_msgq', Of(m)) = Count(rx_msgq, Of(m))
        BY <1>7, <2>8
      <3>2. "rx" \in overrun'
        BY <1>6, <1>9, <2>8
      <3>3. QED BY <2>1, <2>2, <2>3, <2>4, <2>5, <2>6, <3>1, <3>2
    <2>9. QED BY <2>7, <2>8
  <1>15. PacketsFollow'
    <2>1. Follows(transLog'[n], pktCntLog'[n], log'[n], phase'[n])
      <3>1. Follows(transLog[n], pktCntLog[n], log[n], phase[n])
        BY FollowsAll DEF IInv
      <3>2. /\ transLog'[n] = transLog[n] /\ pktCntLog[n] \in PktRec /\ log'[n] = log[n]
            /\ log[n] \in LogRec
        BY <1>1, Logs
      <3>3. QED BY <1>4, <1>8, <3>1, <3>2 DEF Follows, One, PktRec, LogRec
    <2>2. \A m \in Nodes : m # n => Follows(transLog'[m], pktCntLog'[m], log'[m], phase'[m])
      BY <1>1, <1>4, <1>8, FollowsAll DEF IInv
    <2>3. QED BY <2>1, <2>2 DEF PacketsFollow, Follows
  <1>16. QED BY <1>10, <1>11, <1>12, <1>13, <1>14, <1>15 DEF IInv

(* The REJECTED that a Data leaves to count.                               *)
LEMMA RejectsEffect ==
  ASSUME NEW m \in Data
  PROVE  /\ Rejects(m) \in Seq(Nodes) /\ Len(Rejects(m)) <= 2
         /\ \A x \in Nodes :
              Count(Rejects(m), {x}) = IF x = m.addr THEN Missed(m) + Wrong(m) ELSE 0
  <1> DEFINE a == m.addr
             first == IF Matches(m) = {} THEN <<a>> ELSE <<>>
  <1>1. a \in Nodes /\ m.crcOk \in BOOLEAN
    BY DEF Data
  <1> HIDE DEF a
  <1>2. /\ first \in Seq(Nodes) /\ Len(first) = Missed(m)
        /\ \A x \in Nodes : Count(first, {x}) = IF x = a THEN Missed(m) ELSE 0
    <2>1. CASE Matches(m) = {}
      <3>1. first = Append(<<>>, a) /\ <<>> \in Seq(Nodes) /\ Len(<<>>) = 0
        BY <2>1
      <3>2. first \in Seq(Nodes) /\ Len(first) = 1
        BY <1>1, <3>1, AppendProperties
      <3> HIDE DEF first
      <3>3. ASSUME NEW G PROVE Count(first, G) = Count(<<>>, G) + IF a \in G THEN 1 ELSE 0
        <4>1. Count(Append(<<>>, a), G) = Count(<<>>, G) + One(a \in G)
          BY <1>1, <3>1, CountAppend
        <4>2. QED BY <3>1, <4>1 DEF One
      <3>4. \A x \in Nodes : Count(<<>>, {x}) = 0
        BY CountEmpty
      <3>5. QED BY <2>1, <3>2, <3>3, <3>4 DEF Missed
    <2>2. CASE Matches(m) # {}
      <3>1. first = <<>> /\ first \in Seq(Nodes) /\ Len(first) = 0
        BY <2>2
      <3> HIDE DEF first
      <3>2. QED BY <2>2, <3>1, CountEmpty DEF Missed
    <2>3. QED BY <2>1, <2>2
  <1>3. Rejects(m) = first \o (IF m.crcOk THEN <<>> ELSE <<a>>)
    BY DEF Rejects, a
  <1> HIDE DEF first
  <1>4. Missed(m) \in 0..1
    BY DEF Missed
  <1>5. CASE m.crcOk
    <2>1. Rejects(m) = first
      BY <1>2, <1>3, <1>5, ConcatEmptySeq
    <2>2. QED BY <1>2, <1>4, <1>5, <2>1 DEF Wrong, a
  <1>6. CASE ~m.crcOk
    <2>1. Rejects(m) = Append(first, a)
      BY <1>1, <1>2, <1>3, <1>6, AppendIsConcat
    <2>2. Rejects(m) \in Seq(Nodes) /\ Len(Rejects(m)) = Len(first) + 1
      BY <1>1, <1>2, <2>1, AppendProperties
    <2>3. ASSUME NEW G PROVE Count(Rejects(m), G) = Count(first, G) + IF a \in G THEN 1 ELSE 0
      <3>1. Count(Append(first, a), G) = Count(first, G) + One(a \in G)
        BY <1>1, <1>2, CountAppend
      <3>2. QED BY <2>1, <3>1 DEF One
    <2>4. \A x \in Nodes : Count(Rejects(m), {x}) = IF x = a THEN Missed(m) + 1 ELSE 0
      <3> SUFFICES ASSUME NEW x \in Nodes
                   PROVE  Count(Rejects(m), {x}) = IF x = a THEN Missed(m) + 1 ELSE 0
        OBVIOUS
      <3>1. Count(Rejects(m), {x}) = Count(first, {x}) + IF a \in {x} THEN 1 ELSE 0
        BY <2>3
      <3>2. Count(first, {x}) = IF x = a THEN Missed(m) ELSE 0
        BY <1>2
      <3>3. QED BY <1>4, <3>1, <3>2
    <2>5. QED BY <1>2, <1>4, <1>6, <2>2, <2>4 DEF Wrong, a
  <1>7. QED BY <1>1, <1>5, <1>6

(* A Data is verified.                                                     *)
LEMMA StepVerify ==
  ASSUME IInv, Verify
  PROVE  IInv'
  <1> DEFINE m == Head(rx_msgq)
             a == m.addr
  <1>1. /\ todo = <<>> /\ rx_msgq # <<>>
        /\ rx_msgq' = Tail(rx_msgq) /\ tx_msgq' = RestOf(m) /\ todo' = Rejects(m)
        /\ transLog' = [transLog EXCEPT ![a].tClosed = @ + Closes(m)]
        /\ UNCHANGED <<phase, okTimer, serial, overrun, pktCntLog, reg, raced>>
    BY DEF Verify, Idle
  <1>2. log' = [log EXCEPT ![a].tokenMisCnt = @ + Missed(m), ![a].pecCnt = @ + Wrong(m)]
    BY DEF Verify
  <1>3. /\ rx_msgq \in Seq(Data) /\ Len(rx_msgq) \in Nat /\ Len(rx_msgq) <= SIZE_OF_RXQUEUE
        /\ m \in Data /\ m = rx_msgq[1] /\ 1 \in 1..Len(rx_msgq)
        /\ Tail(rx_msgq) \in Seq(Data) /\ Len(Tail(rx_msgq)) = Len(rx_msgq) - 1
        /\ \A i \in 1..Len(Tail(rx_msgq)) :
             i + 1 \in 1..Len(rx_msgq) /\ Tail(rx_msgq)[i] = rx_msgq[i + 1]
    <2>1. /\ rx_msgq \in Seq(Data) /\ Len(rx_msgq) \in Nat /\ Len(rx_msgq) <= SIZE_OF_RXQUEUE
          /\ rx_msgq # <<>>
      BY <1>1, Basics
    <2>2. /\ m \in Data /\ m = rx_msgq[1] /\ Tail(rx_msgq) \in Seq(Data)
          /\ Len(Tail(rx_msgq)) = Len(rx_msgq) - 1
          /\ \A i \in 1..Len(Tail(rx_msgq)) : Tail(rx_msgq)[i] = rx_msgq[i + 1]
      BY <2>1, HeadTailProperties
    <2>3. Len(rx_msgq) # 0
      BY <2>1, EmptySeq
    <2> HIDE DEF m
    <2>4. QED BY <2>1, <2>2, <2>3
  <1> HIDE DEF m
  <1>4. /\ a \in Nodes /\ m.crcOk \in BOOLEAN /\ Closes(m) \in Nat /\ Wrong(m) \in Nat
        /\ Closes(m) + Wrong(m) = 1 /\ Missed(m) \in Nat
    BY <1>3 DEF Data, Closes, Wrong, Missed
  <1>5. /\ transLog' \in [Nodes -> TransRec]
        /\ \A x \in Nodes : x # a => transLog'[x] = transLog[x]
        /\ transLog'[a].tStarted = transLog[a].tStarted
        /\ transLog'[a].tRejected = transLog[a].tRejected
        /\ transLog'[a].tClosed = transLog[a].tClosed + Closes(m)
    <2>1. transLog' = [transLog EXCEPT ![a].tClosed = @ + Closes(m)]
      BY <1>1
    <2>2. transLog \in [Nodes -> TransRec]
      BY Logs
    <2> HIDE DEF a
    <2>3. QED BY <1>4, <2>1, <2>2 DEF TransRec
  <1>6. /\ log' \in [Nodes -> LogRec]
        /\ \A x \in Nodes : x # a => log'[x] = log[x]
        /\ log'[a].timeoutCnt = log[a].timeoutCnt
        /\ log'[a].tokenMisCnt = log[a].tokenMisCnt + Missed(m)
        /\ log'[a].pecCnt = log[a].pecCnt + Wrong(m)
    <2>1. log \in [Nodes -> LogRec]
      BY Logs
    <2> HIDE DEF a
    <2>2. a \in Nodes /\ Missed(m) \in Nat /\ Wrong(m) \in Nat
      BY <1>4
    <2> DEFINE mid == [log EXCEPT ![a].tokenMisCnt = @ + Missed(m)]
    <2>3. /\ mid \in [Nodes -> LogRec]
          /\ \A x \in Nodes : x # a => mid[x] = log[x]
          /\ mid[a].timeoutCnt = log[a].timeoutCnt /\ mid[a].pecCnt = log[a].pecCnt
          /\ mid[a].tokenMisCnt = log[a].tokenMisCnt + Missed(m)
      BY <2>1, <2>2 DEF LogRec
    <2>4. log' = [mid EXCEPT ![a].pecCnt = @ + Wrong(m)]
      BY <1>2
    <2> HIDE DEF mid
    <2>5. QED BY <2>2, <2>3, <2>4 DEF LogRec
  <1>7. /\ todo' \in Seq(Nodes) /\ Len(todo') <= 2
        /\ \A x \in Nodes :
             Count(todo', {x}) = IF x = a THEN Missed(m) + Wrong(m) ELSE 0
    BY <1>1, <1>3, RejectsEffect
  <1>8. /\ RestOf(m) \in Seq(Token) /\ Len(RestOf(m)) <= SIZE_OF_TXQUEUE
        /\ \A i \in 1..Len(RestOf(m)) : \E j \in 1..Len(tx_msgq) : RestOf(m)[i] = tx_msgq[j]
        /\ Sorted(tx_msgq) => Sorted(RestOf(m))
        /\ Sorted(tx_msgq) /\ Matches(m) # {} =>
             \A j \in 1..Len(tx_msgq) :
               tx_msgq[j].token > m.token => \E i \in 1..Len(RestOf(m)) : RestOf(m)[i] = tx_msgq[j]
        /\ Matches(m) = {} => ~HasToken(a, m.token)
    BY <1>3, RestEffect DEF IInv
  <1>9. TypeOK'
    <2>1. Len(rx_msgq') <= SIZE_OF_RXQUEUE /\ rx_msgq' \in Seq(Data)
      <3>1. SIZE_OF_RXQUEUE \in Nat
        BY Basics
      <3>2. QED BY <1>1, <1>3, <3>1
    <2>2. QED BY <1>1, <1>5, <1>6, <1>7, <1>8, <2>1
            DEF IInv, TypeOK, Scan!TypeOK, TransRec, LogRec
  <1>10. Exclusive'
    BY <1>1 DEF IInv, Exclusive
  <1>11. overrun = {} => Matches(m) # {}
    <2>1. overrun = {} => HasToken(a, m.token)
      BY <1>3 DEF IInv, Ordered, Kept
    <2>2. QED BY <1>8, <2>1
  <1>12. Ordered'
    <2>1. (\A i \in 1..Len(tx_msgq) : tx_msgq[i].token <= serial)'
      <3>1. \A i \in 1..Len(tx_msgq) : tx_msgq[i].token <= serial
        BY DEF IInv, Ordered
      <3>2. serial' = serial /\ tx_msgq' = RestOf(m)
        BY <1>1
      <3>3. QED BY <1>8, <3>1, <3>2
    <2>2. (\A i \in 1..Len(rx_msgq) : rx_msgq[i].token <= serial)'
      <3>1. \A i \in 1..Len(rx_msgq) : rx_msgq[i].token <= serial
        BY DEF IInv, Ordered
      <3>2. QED BY <1>1, <1>3, <3>1
    <2>3. (\A n \in Nodes : phase[n] = "polled" =>
             \A i \in 1..Len(rx_msgq) : rx_msgq[i].token < serial)'
      <3>1. \A n \in Nodes : phase[n] = "polled" =>
              \A i \in 1..Len(rx_msgq) : rx_msgq[i].token < serial
        BY DEF IInv, Ordered
      <3>2. QED BY <1>1, <1>3, <3>1
    <2>4. ASSUME overrun' = {}
          PROVE  Kept'
      <3>1. /\ Sorted(tx_msgq) /\ Sorted(rx_msgq)
            /\ \A i \in 1..Len(rx_msgq) : HasToken(rx_msgq[i].addr, rx_msgq[i].token)
            /\ \A n \in Nodes : phase[n] = "polled" => HasToken(n, serial)
        BY <1>1, <2>4 DEF IInv, Ordered, Kept
      <3>2. Sorted(tx_msgq)'
        BY <1>1, <1>8, <3>1 DEF Sorted
      <3>3. Sorted(rx_msgq)'
        BY <1>1, <1>3, <3>1 DEF Sorted
      <3>4. ASSUME NEW n, NEW k, HasToken(n, k), k > m.token
            PROVE  HasToken(n, k)'
        <4>1. PICK j \in 1..Len(tx_msgq) : tx_msgq[j].addr = n /\ tx_msgq[j].token = k
          BY <3>4 DEF HasToken
        <4>2. PICK i \in 1..Len(RestOf(m)) : RestOf(m)[i] = tx_msgq[j]
          BY <1>1, <1>8, <1>11, <2>4, <3>1, <3>4, <4>1
        <4>3. tx_msgq' = RestOf(m)
          BY <1>1
        <4>4. QED BY <4>1, <4>2, <4>3 DEF HasToken
      <3>5. (\A i \in 1..Len(rx_msgq) : HasToken(rx_msgq[i].addr, rx_msgq[i].token))'
        <4> SUFFICES ASSUME NEW i \in 1..Len(Tail(rx_msgq))
                     PROVE  \E j \in 1..Len(tx_msgq') :
                              /\ tx_msgq'[j].addr = Tail(rx_msgq)[i].addr
                              /\ tx_msgq'[j].token = Tail(rx_msgq)[i].token
          BY <1>1 DEF HasToken
        <4>1. /\ i + 1 \in 1..Len(rx_msgq) /\ Tail(rx_msgq)[i] = rx_msgq[i + 1] /\ 1 < i + 1
          BY <1>3
        <4>2. rx_msgq[i + 1].token > m.token
          <5>1. m.token < rx_msgq[i + 1].token
            BY <1>3, <3>1, <4>1 DEF Sorted
          <5>2. m.token \in Nat /\ rx_msgq[i + 1].token \in Nat
            BY <1>3, <4>1, Basics
          <5>3. QED BY <5>1, <5>2
        <4>3. HasToken(rx_msgq[i + 1].addr, rx_msgq[i + 1].token)
          BY <3>1, <4>1
        <4>4. \E j \in 1..Len(tx_msgq') : /\ tx_msgq'[j].addr = rx_msgq[i + 1].addr
                                         /\ tx_msgq'[j].token = rx_msgq[i + 1].token
          <5>1. PICK n, k : n = rx_msgq[i + 1].addr /\ k = rx_msgq[i + 1].token
            OBVIOUS
          <5>2. HasToken(n, k) /\ k > m.token
            BY <4>2, <4>3, <5>1
          <5>3. HasToken(n, k)'
            BY <3>4, <5>2
          <5>4. QED BY <5>1, <5>3 DEF HasToken
        <4>5. QED BY <4>1, <4>4
      <3>6. (\A n \in Nodes : phase[n] = "polled" => HasToken(n, serial))'
        <4> SUFFICES ASSUME NEW n \in Nodes, phase'[n] = "polled" PROVE HasToken(n, serial)'
          OBVIOUS
        <4>1. phase[n] = "polled" /\ serial' = serial
          BY <1>1
        <4>2. HasToken(n, serial) /\ rx_msgq[1].token < serial
          BY <1>3, <3>1, <4>1 DEF IInv, Ordered
        <4>3. serial > m.token
          <5>1. rx_msgq[1].token \in Nat /\ serial \in Nat /\ m = rx_msgq[1]
            BY <1>3, Basics
          <5>2. QED BY <4>2, <5>1
        <4>4. PICK j \in 1..Len(tx_msgq') : tx_msgq'[j].addr = n /\ tx_msgq'[j].token = serial
          BY <3>4, <4>2, <4>3 DEF HasToken
        <4>5. QED BY <4>1, <4>4 DEF HasToken
      <3>7. QED BY <3>2, <3>3, <3>5, <3>6, Zenon DEF Kept
    <2>5. QED BY <2>1, <2>2, <2>3, <2>4, Zenon DEF Ordered
  <1>13. TokensMatch'
    <2> SUFFICES ASSUME overrun' = {}, NEW x \in Nodes PROVE log'[x].tokenMisCnt = 0
      BY DEF TokensMatch
    <2>1. overrun = {} /\ Missed(m) = 0
      BY <1>1, <1>11 DEF Missed
    <2>2. log[x].tokenMisCnt = 0 /\ log[a].tokenMisCnt = 0
      BY <1>4, <2>1 DEF IInv, TokensMatch
    <2>3. QED BY <1>6, <2>1, <2>2
  <1>14. DataAccounted'
    <2> SUFFICES ASSUME NEW x \in Nodes
                 PROVE  /\ transLog'[x].tClosed + log'[x].pecCnt + Pending(x)' <= pktCntLog'[x].CvCnt
                        /\ "rx" \notin overrun' =>
                             transLog'[x].tClosed + log'[x].pecCnt + Pending(x)' = pktCntLog'[x].CvCnt
      BY DEF DataAccounted
    <2>1. pktCntLog' = pktCntLog /\ overrun' = overrun
      BY <1>1
    <2>2. /\ transLog[x].tClosed \in Nat /\ log[x].pecCnt \in Nat /\ pktCntLog[x].CvCnt \in Nat
      BY Logs DEF TransRec, LogRec, PktRec
    <2>3. /\ Pending(x) = Count(rx_msgq, Of(x)) /\ Pending(x)' = Count(rx_msgq', Of(x))
          /\ Count(rx_msgq', Of(x)) \in Nat
      BY <1>1, <1>3, PendingIs, CountFinite DEF Pending
    <2>4. /\ transLog[x].tClosed + log[x].pecCnt + Pending(x) <= pktCntLog[x].CvCnt
          /\ "rx" \notin overrun =>
               transLog[x].tClosed + log[x].pecCnt + Pending(x) = pktCntLog[x].CvCnt
      BY DEF IInv, DataAccounted
    <2>5. Count(rx_msgq, Of(x)) = Count(rx_msgq', Of(x)) + One(m \in Of(x))
      BY <1>1, <1>3, CountTail DEF m
    <2>6. m \in Of(x) <=> x = a
      BY <1>3 DEF Of
    <2>7. CASE x = a
      <3>1. One(m \in Of(x)) = 1
        BY <2>6, <2>7 DEF One
      <3>2. /\ transLog'[x].tClosed = transLog[x].tClosed + Closes(m)
            /\ log'[x].pecCnt = log[x].pecCnt + Wrong(m)
        BY <1>5, <1>6, <2>7
      <3>3. QED BY <1>4, <2>1, <2>2, <2>3, <2>4, <2>5, <3>1, <3>2
    <2>8. CASE x # a
      <3>1. One(m \in Of(x)) = 0
        BY <2>6, <2>8 DEF One
      <3>2. transLog'[x].tClosed = transLog[x].tClosed /\ log'[x].pecCnt = log[x].pecCnt
        BY <1>5, <1>6, <2>8
      <3>3. QED BY <2>1, <2>2, <2>3, <2>4, <2>5, <3>1, <3>2
    <2>9. QED BY <2>7, <2>8
  <1>15. Read'
    BY <1>1 DEF IInv, Read
  <1>16. RejectedIsCombined'
    <2> SUFFICES ASSUME ~raced', NEW x \in Nodes
                 PROVE  transLog'[x].tRejected + Owed(x)' =
                          log'[x].pecCnt + log'[x].timeoutCnt + log'[x].tokenMisCnt
      BY DEF RejectedIsCombined
    <2>1. transLog[x].tRejected + Owed(x) =
            log[x].pecCnt + log[x].timeoutCnt + log[x].tokenMisCnt
      BY <1>1 DEF IInv, RejectedIsCombined
    <2>2. Owed(x) = 0 /\ Owed(x)' = Count(todo', {x})
      <3>1. Owed(x)' = Count(todo', {x})
        BY <1>7, OwedIs DEF Owed
      <3>2. todo \in Seq(Nodes) /\ todo = <<>>
        BY <1>1 DEF IInv, TypeOK
      <3>3. Owed(x) = Count(todo, {x})
        BY <3>2, OwedIs DEF Owed
      <3>4. Count(todo, {x}) = 0
        BY <3>2, CountEmpty
      <3>5. QED BY <3>1, <3>3, <3>4
    <2>3. transLog[x].tRejected \in Nat /\ log[x] \in LogRec
      BY Logs DEF TransRec
    <2>4. CASE x = a
      <3>1. /\ transLog'[x].tRejected = transLog[x].tRejected
            /\ log'[x].timeoutCnt = log[x].timeoutCnt
            /\ log'[x].tokenMisCnt = log[x].tokenMisCnt + Missed(m)
            /\ log'[x].pecCnt = log[x].pecCnt + Wrong(m)
            /\ Count(todo', {x}) = Missed(m) + Wrong(m)
        BY <1>5, <1>6, <1>7, <2>4
      <3>2. /\ Missed(m) \in Nat /\ Wrong(m) \in Nat /\ transLog[x].tRejected \in Nat
            /\ log[x].pecCnt \in Nat /\ log[x].timeoutCnt \in Nat /\ log[x].tokenMisCnt \in Nat
        BY <1>4, <2>3 DEF LogRec
      <3>3. QED BY <2>1, <2>2, <3>1, <3>2
    <2>5. CASE x # a
      BY <1>5, <1>6, <1>7, <2>1, <2>2, <2>3, <2>5
    <2>6. QED BY <2>4, <2>5
  <1>17. PacketsFollow'
    <2>1. \A x \in Nodes : /\ transLog'[x].tStarted = transLog[x].tStarted
                           /\ log'[x].timeoutCnt = log[x].timeoutCnt
      BY <1>5, <1>6
    <2>2. QED BY <1>1, <2>1 DEF IInv, PacketsFollow
  <1>18. QED BY <1>9, <1>10, <1>12, <1>13, <1>14, <1>15, <1>16, <1>17 DEF IInv

(* The diagnostic thread reads tRejected.                                  *)
LEMMA StepLoadRejected ==
  ASSUME IInv, LoadRejected
  PROVE  IInv'
  <1>1. /\ todo # <<>> /\ reg' = <<transLog[Head(todo)].tRejected>>
        /\ UNCHANGED <<phase, okTimer, serial, tx_msgq, rx_msgq, overrun,
                       transLog, pktCntLog, log, todo, raced>>
    BY DEF LoadRejected, Idle, queues
  <1>2. reg' \in Seq(Nat) /\ Len(reg') <= 1 /\ Head(reg') = transLog[Head(todo)].tRejected
    <2>1. Head(todo) \in Nodes
      <3>1. todo \in Seq(Nodes)
        BY DEF IInv, TypeOK
      <3>2. QED BY <1>1, <3>1, HeadTailProperties
    <2>2. transLog[Head(todo)].tRejected \in Nat
      BY <2>1, Logs DEF TransRec
    <2>3. QED BY <1>1, <2>2
  <1>3. TypeOK'
    BY <1>1, <1>2 DEF IInv, TypeOK, Scan!TypeOK
  <1>4. Read'
    BY <1>1, <1>2 DEF Read
  <1>5. Exclusive' /\ Ordered'
    BY <1>1 DEF IInv, Exclusive, Ordered, Kept, HasToken
  <1>6. TokensMatch' /\ DataAccounted' /\ RejectedIsCombined' /\ PacketsFollow'
    BY <1>1 DEF IInv, TokensMatch, DataAccounted, Pending, RejectedIsCombined, Owed, PacketsFollow
  <1>7. QED BY <1>3, <1>4, <1>5, <1>6 DEF IInv

(* It stores what it has read, plus one.                                   *)
LEMMA StepStoreRejected ==
  ASSUME IInv, StoreRejected
  PROVE  IInv'
  <1> DEFINE h == Head(todo)
  <1>1. /\ reg # <<>> /\ transLog' = [transLog EXCEPT ![h].tRejected = Head(reg) + 1]
        /\ reg' = <<>> /\ todo' = Tail(todo)
        /\ UNCHANGED <<phase, okTimer, serial, tx_msgq, rx_msgq, overrun,
                       pktCntLog, log, raced>>
    BY DEF StoreRejected, queues, None
  <1>2. /\ reg \in Seq(Nat) /\ todo \in Seq(Nodes) /\ Len(todo) <= 2 /\ todo # <<>>
    BY <1>1 DEF IInv, TypeOK, Read, None
  <1>3. /\ h \in Nodes /\ Head(reg) \in Nat /\ Tail(todo) \in Seq(Nodes) /\ Len(Tail(todo)) <= 2
    <2>1. Len(Tail(todo)) = Len(todo) - 1 /\ Len(todo) \in Nat
      BY <1>2, HeadTailProperties, LenProperties
    <2>2. QED BY <1>1, <1>2, <2>1, HeadTailProperties
  <1>4. ~raced => Head(reg) = transLog[h].tRejected
    BY <1>1 DEF IInv, Read, None
  <1> HIDE DEF h
  <1>5. /\ transLog' \in [Nodes -> TransRec]
        /\ \A x \in Nodes : x # h => transLog'[x] = transLog[x]
        /\ transLog'[h].tStarted = transLog[h].tStarted
        /\ transLog'[h].tClosed = transLog[h].tClosed
        /\ transLog'[h].tRejected = Head(reg) + 1
    <2>1. transLog' = [transLog EXCEPT ![h].tRejected = Head(reg) + 1]
      BY <1>1
    <2>2. transLog \in [Nodes -> TransRec]
      BY Logs
    <2> DEFINE v == Head(reg)
    <2>3. h \in Nodes /\ v \in Nat
      BY <1>3
    <2>4. transLog' = [transLog EXCEPT ![h].tRejected = v + 1]
      BY <2>1
    <2> HIDE DEF v
    <2>5. /\ transLog' \in [Nodes -> TransRec]
          /\ \A x \in Nodes : x # h => transLog'[x] = transLog[x]
          /\ transLog'[h].tStarted = transLog[h].tStarted
          /\ transLog'[h].tClosed = transLog[h].tClosed
          /\ transLog'[h].tRejected = v + 1
      BY <2>2, <2>3, <2>4 DEF TransRec
    <2>6. QED BY <2>5 DEF v
  <1>6. TypeOK'
    <2>1. reg' \in Seq(Nat) /\ Len(reg') <= 1
      BY <1>1
    <2>2. transLog' \in [Nodes -> [tStarted : Nat, tClosed : Nat, tRejected : Nat]]
      BY <1>5 DEF TransRec
    <2>3. todo' \in Seq(Nodes) /\ Len(todo') <= 2
      BY <1>1, <1>3
    <2>4. UNCHANGED <<phase, okTimer, serial, tx_msgq, rx_msgq, overrun, pktCntLog, log, raced>>
      BY <1>1
    <2>5. QED BY <2>1, <2>2, <2>3, <2>4 DEF IInv, TypeOK, Scan!TypeOK
  <1>7. Read'
    BY <1>1 DEF Read, None
  <1>8. Exclusive' /\ Ordered'
    BY <1>1 DEF IInv, Exclusive, Ordered, Kept, HasToken
  <1>9. \A x \in Nodes : /\ transLog'[x].tStarted = transLog[x].tStarted
                         /\ transLog'[x].tClosed = transLog[x].tClosed
    BY <1>5
  <1>10. TokensMatch' /\ DataAccounted' /\ PacketsFollow'
    BY <1>1, <1>9 DEF IInv, TokensMatch, DataAccounted, Pending, PacketsFollow
  <1>11. RejectedIsCombined'
    <2> SUFFICES ASSUME ~raced', NEW x \in Nodes
                 PROVE  transLog'[x].tRejected + Owed(x)' =
                          log'[x].pecCnt + log'[x].timeoutCnt + log'[x].tokenMisCnt
      BY DEF RejectedIsCombined
    <2>1. /\ transLog[x].tRejected + Owed(x) =
               log[x].pecCnt + log[x].timeoutCnt + log[x].tokenMisCnt
          /\ log' = log /\ ~raced
      BY <1>1 DEF IInv, RejectedIsCombined
    <2>2. Owed(x) = Count(todo, {x}) /\ Owed(x)' = Count(todo', {x})
      <3>1. Owed(x) = Count(todo, {x})
        BY <1>2, OwedIs DEF Owed
      <3>2. todo' \in Seq(Nodes)
        BY <1>1, <1>3
      <3>3. Owed(x)' = Count(todo', {x})
        BY <3>2, OwedIs DEF Owed
      <3>4. QED BY <3>1, <3>3
    <2>3. Count(todo, {x}) = Count(todo', {x}) + IF h = x THEN 1 ELSE 0
      <3>1. Count(todo, {x}) = Count(Tail(todo), {x}) + One(Head(todo) \in {x})
        BY <1>2, CountTail
      <3>2. QED BY <1>1, <3>1 DEF One, h
    <2>4. Count(todo', {x}) \in Nat /\ transLog[x].tRejected \in Nat
      BY <1>1, <1>3, CountFinite, Logs DEF TransRec
    <2>5. CASE x = h
      BY <1>4, <1>5, <2>1, <2>2, <2>3, <2>4, <2>5
    <2>6. CASE x # h
      BY <1>5, <2>1, <2>2, <2>3, <2>4, <2>6
    <2>7. QED BY <2>5, <2>6
  <1>12. QED BY <1>6, <1>7, <1>8, <1>10, <1>11 DEF IInv

LEMMA StepIInv == IInv /\ [Next]_vars => IInv'
  <1> SUFFICES ASSUME IInv, [Next]_vars PROVE IInv'
    OBVIOUS
  <1>1. ASSUME NEW n \in Nodes, TakeOk(n) \/ SendToken(n) \/ TakeData(n) \/ SendAck(n)
        PROVE  IInv'
    BY <1>1, StepTakeOk, StepSendToken, StepTakeData, StepSendAck
  <1>2. ASSUME NEW n \in Nodes, OkExpiry(n) \/ DataExpiry(n)
        PROVE  IInv'
    BY <1>2, StepOkExpiry, StepDataExpiry
  <1>3. CASE Verify \/ LoadRejected \/ StoreRejected
    BY <1>3, StepVerify, StepLoadRejected, StepStoreRejected
  <1>4. CASE UNCHANGED vars
    <2>1. UNCHANGED <<phase, okTimer, serial, tx_msgq, rx_msgq, overrun,
                      transLog, pktCntLog, log, todo, reg, raced>>
      BY <1>4 DEF vars, queues, diagVars
    <2>2. TypeOK' /\ Exclusive' /\ Ordered' /\ Read'
      BY <2>1 DEF IInv, TypeOK, Scan!TypeOK, Exclusive, Ordered, Kept, HasToken, Read
    <2>3. TokensMatch' /\ DataAccounted' /\ RejectedIsCombined' /\ PacketsFollow'
      BY <2>1 DEF IInv, TokensMatch, DataAccounted, Pending, RejectedIsCombined, Owed,
                  PacketsFollow
    <2>4. QED BY <2>2, <2>3 DEF IInv
  <1>5. QED BY <1>1, <1>2, <1>3, <1>4 DEF Next

LEMMA InvariantHolds == Spec => []IInv
  <1>1. QED BY InitIInv, StepIInv, PTL DEF Spec

-----------------------------------------------------------------------------
(* The types: among them the bounds of the queues, and that the diagnostic *)
(* thread never has more than two rejections to count.                     *)
THEOREM DiagTypeOK == Spec => []TypeOK
  <1>1. IInv => TypeOK
    BY DEF IInv
  <1>2. QED BY <1>1, InvariantHolds, PTL

(* Until a queue overruns, every Data finds its token.                     *)
THEOREM TokensMatchHolds == Spec => []TokensMatch
  <1>1. IInv => TokensMatch
    BY DEF IInv
  <1>2. QED BY <1>1, InvariantHolds, PTL

(* Until a queue overruns, Data is verified in the order it was taken.     *)
THEOREM InOrderHolds == Spec => []InOrder
  <1>1. IInv => InOrder
    <2> SUFFICES ASSUME IInv PROVE InOrder
      OBVIOUS
    <2>1. DOMAIN rx_msgq = 1..Len(rx_msgq)
      BY Basics, LenProperties
    <2>2. overrun = {} => Sorted(rx_msgq)
      BY DEF IInv, Ordered, Kept
    <2>3. QED BY <2>1, <2>2 DEF InOrder, Sorted
  <1>2. QED BY <1>1, InvariantHolds, PTL

(* Every Data taken waits, has closed its transaction or is in pecCnt; one *)
(* is lost only by a push on a full rx_msgq.                               *)
THEOREM DataAccountedHolds == Spec => []DataAccounted
  <1>1. IInv => DataAccounted
    BY DEF IInv
  <1>2. QED BY <1>1, InvariantHolds, PTL

(* The rejected transactions are the CRC errors, the timeouts and the      *)
(* mismatches together, unless an interrupt came between the read and the  *)
(* store of the counter.                                                   *)
THEOREM RejectedIsCombinedHolds == Spec => []RejectedIsCombined
  <1>1. IInv => RejectedIsCombined
    BY DEF IInv
  <1>2. QED BY <1>1, InvariantHolds, PTL

(* The counters of the packets of a node and of its timeouts tell where it *)
(* is in the scan.                                                         *)
THEOREM PacketsFollowHolds == Spec => []PacketsFollow
  <1>1. IInv => PacketsFollow
    BY DEF IInv
  <1>2. QED BY <1>1, InvariantHolds, PTL
=============================================================================
