--------------------------- MODULE MailboxProofs ---------------------------
(***************************************************************************)
(* Proofs about the mailbox of an actor, for every set of senders and      *)
(* closers, every capacity and every number of sends.                      *)
(***************************************************************************)
EXTENDS Mailbox, SequenceTheorems, FiniteSetTheorems, TLAPS

-----------------------------------------------------------------------------
(* Facts about the operators of the model *)

Distinct(seq) == \A i, j \in 1..Len(seq) : seq[i] = seq[j] => i = j

\* An acquirer that leaves the semaphore's queue is no longer in it, and all
\* who stay were there before.
LEMMA WithoutProperties ==
    ASSUME NEW S, NEW seq \in Seq(S), NEW s, Distinct(seq)
    PROVE  /\ Without(seq, s) \in Seq(S)
           /\ Distinct(Without(seq, s))
           /\ \A k \in 1..Len(Without(seq, s)) :
                 /\ Without(seq, s)[k] # s
                 /\ \E j \in 1..Len(seq) : Without(seq, s)[k] = seq[j]
<1>1. CASE ~ \E i \in 1..Len(seq) : seq[i] = s
  BY <1>1 DEF Without
<1>2. CASE \E i \in 1..Len(seq) : seq[i] = s
  <2> DEFINE i == CHOOSE k \in 1..Len(seq) : seq[k] = s
             front == SubSeq(seq, 1, i - 1)
             back == SubSeq(seq, i + 1, Len(seq))
  <2>1. i \in 1..Len(seq) /\ seq[i] = s
    BY <1>2
  <2>2. Len(seq) \in Nat /\ \A k \in 1..Len(seq) : seq[k] \in S
    BY ElementOfSeq, LenProperties
  <2>3. Without(seq, s) = front \o back
    BY Zenon, <1>2 DEF Without
  <2>4. /\ front \in Seq(S) /\ Len(front) = i - 1
        /\ \A k \in 1..(i - 1) : front[k] = seq[k]
    <3> HIDE DEF i
    <3>1. \A k \in 1..(i - 1) : seq[k] \in S
      BY <2>1, <2>2
    <3> QED
      BY <2>1, <2>2, <3>1, SubSeqProperties
  <2>5. /\ back \in Seq(S) /\ Len(back) = Len(seq) - i
        /\ \A k \in 1..(Len(seq) - i) : back[k] = seq[i + k]
    <3> HIDE DEF i
    <3>1. \A k \in (i + 1)..Len(seq) : seq[k] \in S
      BY <2>1, <2>2
    <3> QED
      BY <2>1, <2>2, <3>1, SubSeqProperties
  <2> HIDE DEF i, front, back
  <2>6. /\ front \o back \in Seq(S)
        /\ Len(front \o back) = Len(seq) - 1
        /\ \A k \in 1..(Len(seq) - 1) :
              (front \o back)[k] = IF k < i THEN seq[k] ELSE seq[k + 1]
    BY <2>1, <2>2, <2>4, <2>5, ConcatProperties
  <2> DEFINE rest == front \o back
  <2> HIDE DEF rest
  <2>7. ASSUME NEW k \in 1..Len(rest)
        PROVE  \E j \in 1..Len(seq) : /\ rest[k] = seq[j] /\ j # i
                                      /\ j = IF k < i THEN k ELSE k + 1
    BY <2>1, <2>2, <2>6 DEF rest
  <2>8. \A k \in 1..Len(rest) : rest[k] # s
    BY SMTT(30), <2>1, <2>7 DEF Distinct
  <2>9. Distinct(rest)
    <3> SUFFICES ASSUME NEW k \in 1..Len(rest), NEW l \in 1..Len(rest),
                        rest[k] = rest[l]
                 PROVE  k = l
      BY DEF Distinct
    <3>1. PICK j \in 1..Len(seq) :
            rest[k] = seq[j] /\ j = IF k < i THEN k ELSE k + 1
      BY <2>7
    <3>2. PICK m \in 1..Len(seq) :
            rest[l] = seq[m] /\ m = IF l < i THEN l ELSE l + 1
      BY <2>7
    <3>3. j = m
      BY Zenon, <3>1, <3>2 DEF Distinct
    <3> QED
      BY <2>1, <2>2, <2>6, <3>1, <3>2, <3>3 DEF rest
  <2> QED
    BY <2>3, <2>6, <2>7, <2>8, <2>9 DEF rest
<1> QED
  BY <1>1, <1>2

-----------------------------------------------------------------------------
(* The semaphore *)

\* A send that has not enqueued its envelope counts as one of MaxSends; the
\* acquirers in the semaphore's queue are waiting sends, each there once, and
\* the close empties the queue.
SemaphoreInv ==
    /\ \A s \in Senders :
          pc[s] \in {"waiting", "granted", "enqueue"} => next[s] <= MaxSends
    /\ \A i \in 1..Len(waiters) : pc[waiters[i]] = "waiting"
    /\ Distinct(waiters)
    /\ closed => waiters = <<>>

\* Semaphore::add_permits touches only acquirers of the queue.
LEMMA AddPermitsProperties ==
    ASSUME NEW n \in Nat, NEW at \in [Senders -> SenderStates], TypeOK,
           Distinct(waiters),
           \A i \in 1..Len(waiters) : at[waiters[i]] = "waiting",
           AddPermits(n, at)
    PROVE  /\ permits' \in Nat
           /\ waiters' \in Seq(Senders)
           /\ pc' \in [Senders -> SenderStates]
           /\ Distinct(waiters')
           /\ \A i \in 1..Len(waiters') : pc'[waiters'[i]] = "waiting"
           /\ \A s \in Senders :
                 \/ pc'[s] = at[s]
                 \/ pc'[s] = "granted" /\ at[s] = "waiting"
<1> DEFINE given == IF n < Len(waiters) THEN n ELSE Len(waiters)
           lucky == {waiters[i] : i \in 1..given}
<1>1. waiters \in Seq(Senders) /\ permits \in Nat
  BY DEF TypeOK
<1>2. Len(waiters) \in Nat /\ \A k \in 1..Len(waiters) : waiters[k] \in Senders
  BY <1>1, LenProperties, ElementOfSeq
<1>3. given \in Nat /\ given <= n /\ given <= Len(waiters)
  BY <1>2
<1>4. /\ permits' = permits + (n - given)
      /\ waiters' = SubSeq(waiters, given + 1, Len(waiters))
      /\ pc' = [s \in Senders |-> IF s \in lucky THEN "granted" ELSE at[s]]
  BY DEF AddPermits
<1> HIDE DEF given
<1>5. pc' \in [Senders -> SenderStates]
  BY <1>4 DEF SenderStates
<1>6. \A k \in (given + 1)..Len(waiters) : waiters[k] \in Senders
  BY <1>2, <1>3
<1>7. /\ waiters' \in Seq(Senders)
      /\ Len(waiters') = Len(waiters) - given
      /\ \A k \in 1..(Len(waiters) - given) : waiters'[k] = waiters[given + k]
  BY <1>2, <1>3, <1>4, <1>6, SubSeqProperties
<1>8. permits' \in Nat
  BY <1>1, <1>3, <1>4
<1>9. Distinct(waiters')
  BY SMTT(30), <1>2, <1>3, <1>7 DEF Distinct
<1>10. ASSUME NEW k \in 1..Len(waiters')
       PROVE  pc'[waiters'[k]] = "waiting"
  <2>1. /\ given + k \in 1..Len(waiters) /\ waiters'[k] = waiters[given + k]
        /\ k \in Nat \ {0}
    BY <1>2, <1>3, <1>7
  <2>2. waiters[given + k] \notin lucky
    BY <1>2, <1>3, <2>1 DEF Distinct
  <2> HIDE DEF lucky
  <2> QED
    BY Zenon, <1>2, <1>4, <2>1, <2>2
<1>11. ASSUME NEW s \in Senders
       PROVE  \/ pc'[s] = at[s]
              \/ pc'[s] = "granted" /\ at[s] = "waiting"
  BY <1>2, <1>3, <1>4
<1> QED
  BY <1>5, <1>7, <1>8, <1>9, <1>10, <1>11

-----------------------------------------------------------------------------
(* Type correctness *)

TypeInv == TypeOK /\ SemaphoreInv

\* Permits given back to a closed semaphore find nobody in its queue.
LEMMA AddPermitsClosed ==
    ASSUME TypeInv, closed, NEW n \in Nat, NEW at, AddPermits(n, at)
    PROVE  waiters' = <<>>
<1>1. waiters = <<>> /\ Len(waiters) = 0
  BY EmptySeq DEF TypeInv, SemaphoreInv
<1> QED
  BY <1>1, SubSeqEmpty DEF AddPermits

\* Mailbox::new starts in a state of the right type.
LEMMA TypeInit == Init => TypeInv
<1> SUFFICES ASSUME Init PROVE TypeInv
  OBVIOUS
<1>1. /\ queue \in Seq(Messages) /\ waiters \in Seq(Senders)
      /\ received \in Seq(Messages) /\ accepted \in Seq(Messages)
  BY DEF Init
<1>2. /\ pc \in [Senders -> SenderStates]
      /\ next \in [Senders -> 1..(MaxSends + 1)]
      /\ closer \in [Closers -> CloserStates]
      /\ control \in [trace : Closers \cup {NoTrace}, capacity : Nat,
                      slot : Slots]
      /\ permits \in Nat /\ lock \in Closers \cup {Free, ConsumerTask}
  BY CapacityAssumption
  DEF CapacityAssumption, Init, SenderStates, CloserStates, Slots
<1>3. TypeOK
  BY Zenon, <1>1, <1>2 DEF Init, TypeOK, ConsumerStates
<1>4. SemaphoreInv
  BY DEF Init, SemaphoreInv, Distinct
<1> QED
  BY <1>3, <1>4 DEF TypeInv

\* What a step has to show when it leaves the semaphore's queue alone.
LEMMA SemaphoreSame ==
    ASSUME TypeInv, UNCHANGED waiters, closed' => waiters = <<>>,
           \A s \in Senders :
              /\ pc[s] = "waiting" => pc'[s] = "waiting" \/ closed
              /\ pc'[s] \in {"waiting", "granted", "enqueue"} =>
                    next'[s] <= MaxSends
    PROVE  SemaphoreInv'
<1>1. \A i \in 1..Len(waiters) : waiters[i] \in Senders
  BY ElementOfSeq DEF TypeInv, TypeOK
<1> QED
  BY <1>1, EmptySeq DEF TypeInv, SemaphoreInv

\* A rejected send was one of MaxSends.
LEMMA RejectType ==
    ASSUME TypeOK, NEW s \in Senders, next[s] <= MaxSends, Reject(s)
    PROVE  /\ pc' \in [Senders -> SenderStates]
           /\ next' \in [Senders -> 1..(MaxSends + 1)]
<1>1. MaxSends \in Nat /\ next[s] + 1 \in 1..(MaxSends + 1)
  BY SMTT(30), CapacityAssumption DEF CapacityAssumption, TypeOK
<1> QED
  BY <1>1 DEF TypeOK, Reject, SenderStates

\* A step of a sender keeps the types; in particular try_send() and
\* unbounded_send() never take a permit that is not there.
LEMMA TypeSender ==
    ASSUME TypeInv, NEW s \in Senders, SenderStep(s) PROVE TypeInv'
<1> USE CapacityAssumption DEF CapacityAssumption
<1>0. /\ permits \in Nat /\ waiters \in Seq(Senders) /\ closed \in BOOLEAN
      /\ pc \in [Senders -> SenderStates] /\ excess \in Nat
      /\ next \in [Senders -> 1..(MaxSends + 1)]
      /\ pc[s] = "waiting" /\ closed => waiters = <<>>
  BY DEF TypeInv, TypeOK, SemaphoreInv
<1>a. ASSUME Reject(s), next[s] <= MaxSends
      PROVE  /\ pc' \in [Senders -> SenderStates]
             /\ next' \in [Senders -> 1..(MaxSends + 1)]
  BY <1>a, RejectType DEF TypeInv
<1>b. pc[s] \in {"waiting", "granted", "enqueue"} => next[s] <= MaxSends
  BY DEF TypeInv, SemaphoreInv
<1>1. CASE SendAcquire(s)
  <2>1. /\ permits' \in Nat /\ waiters' \in Seq(Senders)
        /\ pc' \in [Senders -> SenderStates]
        /\ next' \in [Senders -> 1..(MaxSends + 1)]
    <3>1. permits' \in Nat
      BY <1>0, <1>1 DEF SendAcquire
    <3>2. waiters' = waiters \/ waiters' = Append(waiters, s)
      BY <1>1 DEF SendAcquire
    <3>3. waiters' \in Seq(Senders)
      <4>1. waiters \in Seq(Senders)
        BY <1>0
      <4> QED
        BY <3>2, <4>1
    <3>4. /\ pc' \in [Senders -> SenderStates]
          /\ next' \in [Senders -> 1..(MaxSends + 1)]
      BY Zenon, <1>0, <1>1, <1>a DEF SendAcquire, CanSend, SenderStates
    <3> QED
      BY <3>1, <3>3, <3>4
  <2>2. TypeOK'
    BY SMTT(30), <1>1, <2>1
    DEF SendAcquire, TypeInv, TypeOK, consumerVars, history
  <2>3. CASE UNCHANGED waiters
    <3>1. SemaphoreInv'
      BY SMTT(30), <1>0, <1>1, <1>b, <2>3, SemaphoreSame
      DEF SendAcquire, CanSend, Reject, TypeInv, SemaphoreInv
    <3> QED
      BY <2>2, <3>1 DEF TypeInv
  <2>4. CASE /\ ~closed
             /\ waiters' = Append(waiters, s)
             /\ pc' = [pc EXCEPT ![s] = "waiting"]
             /\ UNCHANGED next
    <3>1. /\ Len(waiters) \in Nat
          /\ Len(waiters') = Len(waiters) + 1 /\ waiters'[Len(waiters')] = s
          /\ \A i \in 1..Len(waiters) : waiters'[i] = waiters[i]
          /\ \A i \in 1..Len(waiters) : waiters[i] \in Senders
      BY <1>0, <2>4, AppendProperties
    <3>2. \A i \in 1..Len(waiters) : /\ waiters[i] # s
                                      /\ pc[waiters[i]] = "waiting"
      BY <1>1 DEF SendAcquire, CanSend, TypeInv, SemaphoreInv
    <3>3. Distinct(waiters')
      BY <3>1, <3>2 DEF Distinct, TypeInv, SemaphoreInv
    <3>4. \A i \in 1..Len(waiters') : pc'[waiters'[i]] = "waiting"
      BY SMTT(30), <1>0, <2>4, <3>1, <3>2
    <3>5. \A q \in Senders : pc'[q] \in {"waiting", "granted", "enqueue"} =>
                                next'[q] <= MaxSends
      BY <1>0, <1>1, <2>4 DEF SendAcquire, CanSend, TypeInv, SemaphoreInv
    <3> QED
      BY <1>1, <2>2, <2>4, <3>3, <3>4, <3>5
      DEF SendAcquire, TypeInv, SemaphoreInv
  <2> QED
    BY <1>1, <2>3, <2>4 DEF SendAcquire
<1>2. CASE SendPoll(s)
  <2>1. /\ permits' \in Nat /\ pc' \in [Senders -> SenderStates]
        /\ next' \in [Senders -> 1..(MaxSends + 1)]
    BY SMTT(30), <1>0, <1>2, <1>a, <1>b DEF SendPoll, SenderStates
  <2>2. TypeOK'
    BY <1>2, <2>1 DEF SendPoll, TypeInv, TypeOK, consumerVars, history
  <2>3. SemaphoreInv'
    BY SMTT(30), <1>0, <1>2, <1>b, SemaphoreSame
    DEF SendPoll, Reject, TypeInv, SemaphoreInv
  <2> QED
    BY <2>2, <2>3 DEF TypeInv
<1>3. CASE SendCancel(s)
  <2>0. next' \in [Senders -> 1..(MaxSends + 1)]
    <3>1. next[s] + 1 \in 1..(MaxSends + 1)
      BY <1>0, <1>3, <1>b DEF SendCancel
    <3> QED
      BY <1>0, <1>3, <3>1 DEF SendCancel
  <2>1. CASE /\ pc[s] = "waiting"
             /\ waiters' = Without(waiters, s)
             /\ pc' = [pc EXCEPT ![s] = "idle"]
             /\ UNCHANGED permits
    <3>1. /\ waiters' \in Seq(Senders) /\ Distinct(waiters')
          /\ \A k \in 1..Len(waiters') :
                /\ waiters'[k] # s
                /\ \E j \in 1..Len(waiters) : waiters'[k] = waiters[j]
      BY SMTT(30), <1>0, <2>1, WithoutProperties DEF TypeInv, SemaphoreInv
    <3>2. pc' \in [Senders -> SenderStates]
      BY <1>0, <2>1 DEF SenderStates
    <3>3. TypeOK'
      BY <1>3, <2>0, <2>1, <3>1, <3>2
      DEF SendCancel, TypeInv, TypeOK, consumerVars, history
    <3>4. \A i \in 1..Len(waiters') : pc'[waiters'[i]] = "waiting"
      <4>1. \A i \in 1..Len(waiters) : /\ waiters[i] \in Senders
                                        /\ pc[waiters[i]] = "waiting"
        BY <1>0, ElementOfSeq DEF TypeInv, SemaphoreInv
      <4> QED
        BY Zenon, <1>0, <2>1, <3>1, <4>1
    <3>5. \A q \in Senders : pc'[q] \in {"waiting", "granted", "enqueue"} =>
                                next'[q] <= MaxSends
      BY <1>0, <1>3, <2>1 DEF SendCancel, TypeInv, SemaphoreInv
    <3>6. closed' => waiters' = <<>>
      <4>1. CASE closed
        <5>1. Len(waiters) = 0
          BY <1>0, <2>1, <4>1, EmptySeq
        <5> QED
          BY <3>1, <5>1, <1>0, <2>1, <4>1, EmptySeq
      <4> QED
        BY <1>3, <4>1 DEF SendCancel
    <3> QED
      BY Zenon, <3>1, <3>3, <3>4, <3>5, <3>6 DEF TypeInv, SemaphoreInv
  <2>2. CASE pc[s] = "granted" /\ AddPermits(1, [pc EXCEPT ![s] = "idle"])
    <3> DEFINE at == [pc EXCEPT ![s] = "idle"]
    <3>1. /\ at \in [Senders -> SenderStates]
          /\ \A i \in 1..Len(waiters) : at[waiters[i]] = "waiting"
      <4>1. \A i \in 1..Len(waiters) : /\ waiters[i] \in Senders
                                        /\ pc[waiters[i]] = "waiting"
        BY <1>0, ElementOfSeq DEF TypeInv, SemaphoreInv
      <4> QED
        BY <1>0, <2>2, <4>1 DEF SenderStates
    <3>2. AddPermits(1, at) /\ 1 \in Nat
      BY <2>2
    <3> HIDE DEF at
    <3>3. /\ permits' \in Nat
          /\ waiters' \in Seq(Senders)
          /\ pc' \in [Senders -> SenderStates]
          /\ Distinct(waiters')
          /\ \A i \in 1..Len(waiters') : pc'[waiters'[i]] = "waiting"
          /\ \A q \in Senders :
                \/ pc'[q] = at[q]
                \/ pc'[q] = "granted" /\ at[q] = "waiting"
      BY SMTT(30), <3>1, <3>2, AddPermitsProperties DEF TypeInv, SemaphoreInv
    <3>4. TypeOK'
      BY <1>3, <2>0, <3>3
      DEF SendCancel, TypeInv, TypeOK, consumerVars, history
    <3>5. \A q \in Senders : pc'[q] \in {"waiting", "granted", "enqueue"} =>
                                next'[q] <= MaxSends
      BY <1>0, <1>3, <3>3 DEF SendCancel, TypeInv, SemaphoreInv, at
    <3>6. closed' => waiters' = <<>>
      BY <1>3, <3>2, AddPermitsClosed DEF SendCancel
    <3> QED
      BY <3>3, <3>4, <3>5, <3>6 DEF TypeInv, SemaphoreInv
  <2> QED
    BY <1>3, <2>1, <2>2 DEF SendCancel
<1>4. CASE TrySend(s)
  <2>1. /\ permits' \in Nat /\ pc' \in [Senders -> SenderStates]
        /\ next' \in [Senders -> 1..(MaxSends + 1)]
    BY SMTT(30), <1>0, <1>4, <1>a DEF TrySend, CanSend, SenderStates
  <2>2. TypeOK'
    BY <1>4, <2>1 DEF TrySend, TypeInv, TypeOK, consumerVars, history
  <2>3. SemaphoreInv'
    BY <1>0, <1>4, SemaphoreSame
    DEF TrySend, CanSend, Reject, TypeInv, SemaphoreInv
  <2> QED
    BY <2>2, <2>3 DEF TypeInv
<1>5. CASE UnboundedSend(s)
  <2>1. /\ permits' \in Nat /\ pc' \in [Senders -> SenderStates]
        /\ next' \in [Senders -> 1..(MaxSends + 1)] /\ excess' \in Nat
    <3>1. permits' \in Nat /\ excess' \in Nat
      BY <1>0, <1>5 DEF UnboundedSend
    <3>2. /\ pc' \in [Senders -> SenderStates]
          /\ next' \in [Senders -> 1..(MaxSends + 1)]
      BY SMTT(30), <1>0, <1>5, <1>a DEF UnboundedSend, CanSend, SenderStates
    <3> QED
      BY <3>1, <3>2
  <2>2. TypeOK'
    BY <1>5, <2>1 DEF UnboundedSend, TypeInv, TypeOK, consumerVars, history
  <2>3. SemaphoreInv'
    BY <1>0, <1>5, SemaphoreSame
    DEF UnboundedSend, CanSend, Reject, TypeInv, SemaphoreInv
  <2> QED
    BY <2>2, <2>3 DEF TypeInv
<1>6. CASE Enqueue(s)
  <2>1. <<s, next[s]>> \in Messages /\ next[s] \in 1..MaxSends
    BY <1>6 DEF Enqueue, TypeInv, TypeOK, SemaphoreInv, Messages
  <2>2. TypeOK'
    BY SMTT(30), <1>6, <2>1
    DEF Enqueue, TypeInv, TypeOK, SenderStates, consumerVars, history
  <2>3. SemaphoreInv'
    BY <1>6, <1>0, SemaphoreSame DEF Enqueue, TypeInv, SemaphoreInv
  <2> QED
    BY <2>2, <2>3 DEF TypeInv
<1>7. CASE NotifyRx(s)
  <2>1. TypeOK'
    BY <1>7 DEF NotifyRx, Notify, TypeInv, TypeOK, SenderStates, consumerVars,
                history
  <2>2. SemaphoreInv'
    BY <1>7, <1>0, SemaphoreSame DEF NotifyRx, TypeInv, SemaphoreInv
  <2> QED
    BY <2>1, <2>2 DEF TypeInv
<1> QED
  BY <1>1, <1>2, <1>3, <1>4, <1>5, <1>6, <1>7 DEF SenderStep

\* close(), close_and_try_drain() and the drain keep the types.
LEMMA TypeCloser ==
    ASSUME TypeInv, NEW c \in Closers, CloserStep(c) PROVE TypeInv'
<1>0. ASSUME AfterClose(c)
      PROVE  /\ closer' \in [Closers -> CloserStates]
             /\ lock' \in Closers \cup {Free, ConsumerTask}
  BY Zenon, <1>0 DEF AfterClose, TypeInv, TypeOK, CloserStates
<1>a. ASSUME UNCHANGED <<pc, next, waiters, closed>> PROVE SemaphoreInv'
  BY <1>a DEF TypeInv, SemaphoreInv
<1>1. CASE CloseLock(c)
  <2>1. /\ closer' \in [Closers -> CloserStates]
        /\ lock' \in Closers \cup {Free, ConsumerTask}
        /\ control' \in [trace : Closers \cup {NoTrace}, capacity : Nat,
                         slot : Slots]
    BY Zenon, <1>0, <1>1 DEF CloseLock, TypeInv, TypeOK, CloserStates
  <2> QED
    BY <1>1, <1>a, <2>1
    DEF CloseLock, TypeInv, TypeOK, senderVars, consumerVars, history
<1>2. CASE CloseSemaphore(c)
  <2>1. TypeOK'
    BY <1>2, LenProperties
    DEF CloseSemaphore, TypeInv, TypeOK, CloserStates, senderVars,
        consumerVars
  <2>2. SemaphoreInv'
    BY <1>2 DEF CloseSemaphore, TypeInv, SemaphoreInv, Distinct, senderVars
  <2> QED
    BY <2>1, <2>2 DEF TypeInv
<1>3. CASE CloseNotify(c)
  <2>1. TypeOK'
    BY <1>0, <1>3
    DEF CloseNotify, Notify, TypeInv, TypeOK, senderVars, consumerVars,
        history
  <2> QED
    BY <1>3, <1>a, <2>1 DEF CloseNotify, TypeInv, senderVars
<1>4. CASE CheckSlot(c)
  <2>1. TypeOK'
    BY Zenon, <1>4
    DEF CheckSlot, TypeInv, TypeOK, CloserStates, Slots, senderVars,
        consumerVars, history
  <2> QED
    BY <1>4, <1>a, <2>1 DEF CheckSlot, TypeInv, senderVars
<1>5. CASE CloserDrain(c)
  <2>1. queue' \in Seq(Messages)
    <3>1. queue \in Seq(Messages)
      BY DEF TypeInv, TypeOK
    <3> QED
      BY <1>5, <3>1, HeadTailProperties DEF CloserDrain
  <2>2. TypeOK'
    BY <1>5, <2>1
    DEF CloserDrain, TypeInv, TypeOK, CloserStates, senderVars,
        consumerVars, history
  <2> QED
    BY <1>5, <1>a, <2>2 DEF CloserDrain, TypeInv, senderVars
<1> QED
  BY <1>1, <1>2, <1>3, <1>4, <1>5 DEF CloserStep

\* set_capacity() takes back at most the available permits.
LEMMA TypeCapacity ==
    ASSUME TypeInv, NEW n \in Capacities, SetCapacity(n) PROVE TypeInv'
<1>0. /\ n \in Nat /\ control.capacity \in Nat /\ permits \in Nat
      /\ control \in [trace : Closers \cup {NoTrace}, capacity : Nat,
                      slot : Slots]
      /\ pc \in [Senders -> SenderStates]
  BY CapacityAssumption DEF CapacityAssumption, TypeInv, TypeOK
<1>1. CASE n < control.capacity
  <2> DEFINE delta == control.capacity - n
             real == IF delta < permits THEN delta ELSE permits
  <2>1. /\ real \in Nat /\ real <= permits /\ real <= control.capacity
        /\ permits' = permits - real
        /\ control' = [control EXCEPT !.capacity = @ - real]
        /\ UNCHANGED <<waiters, pc>>
    BY <1>0, <1>1 DEF SetCapacity
  <2> HIDE DEF real
  <2>2. /\ permits' \in Nat
        /\ control' \in [trace : Closers \cup {NoTrace}, capacity : Nat,
                         slot : Slots]
    BY <1>0, <2>1
  <2>3. TypeOK'
    BY SMTT(30), <2>1, <2>2
    DEF SetCapacity, TypeInv, TypeOK, consumerVars, history
  <2>4. SemaphoreInv'
    BY <2>1 DEF SetCapacity, TypeInv, SemaphoreInv
  <2> QED
    BY <2>3, <2>4 DEF TypeInv
<1>2. CASE n > control.capacity
  <2>1. /\ n - control.capacity \in Nat
        /\ AddPermits(n - control.capacity, pc)
        /\ control' = [control EXCEPT !.capacity = n]
    BY <1>0, <1>2 DEF SetCapacity
  <2>2. /\ permits' \in Nat
        /\ waiters' \in Seq(Senders)
        /\ pc' \in [Senders -> SenderStates]
        /\ Distinct(waiters')
        /\ \A i \in 1..Len(waiters') : pc'[waiters'[i]] = "waiting"
        /\ \A s \in Senders :
              \/ pc'[s] = pc[s]
              \/ pc'[s] = "granted" /\ pc[s] = "waiting"
    <3>1. /\ TypeOK /\ Distinct(waiters)
          /\ \A i \in 1..Len(waiters) : pc[waiters[i]] = "waiting"
      BY DEF TypeInv, SemaphoreInv
    <3> QED
      BY <1>0, <2>1, <3>1, AddPermitsProperties
  <2>3. TypeOK'
    BY Zenon, <1>0, <2>1, <2>2
    DEF SetCapacity, TypeInv, TypeOK, consumerVars, history
  <2>4. closed' => waiters' = <<>>
    BY <2>1, AddPermitsClosed DEF SetCapacity, TypeInv
  <2>5. SemaphoreInv'
    BY <2>2, <2>4 DEF SetCapacity, TypeInv, SemaphoreInv
  <2> QED
    BY <2>3, <2>5 DEF TypeInv
<1> QED
  BY <1>0, <1>1, <1>2 DEF SetCapacity

\* recv(), try_recv() and the life of a consumer keep the types.
LEMMA TypeConsumer ==
    ASSUME TypeInv, ConsumerStep PROVE TypeInv'
<1>a. ASSUME UNCHANGED <<pc, next, waiters, closed>> PROVE SemaphoreInv'
  BY <1>a DEF TypeInv, SemaphoreInv
<1>b. ASSUME NEW m \in Messages \cup {NoMessage}, ReturnReady(m)
      PROVE  /\ waker' \in {"none", "current", "stale"}
             /\ received' \in Seq(Messages)
             /\ call' \in [kind : {"recv", "try_recv"}, armed : BOOLEAN]
  BY <1>b DEF ReturnReady, TypeInv, TypeOK
<1>c. queue # <<>> => /\ Head(queue) \in Messages
                      /\ Tail(queue) \in Seq(Messages)
  BY HeadTailProperties DEF TypeInv, TypeOK
<1>1. CASE Attach \/ Detach
  <2>1. TypeOK'
    BY Zenon, <1>1 DEF Attach, Detach, TypeInv, TypeOK, ConsumerStates, Slots,
                senderVars, history
  <2> QED
    BY <1>1, <1>a, <2>1 DEF Attach, Detach, TypeInv, senderVars
<1>2. CASE ConsumerDrain
  <2>1. queue' \in Seq(Messages)
    BY Zenon, <1>2, <1>c DEF ConsumerDrain, TypeInv, TypeOK
  <2>2. TypeOK'
    BY <1>2, <2>1 DEF ConsumerDrain, TypeInv, TypeOK, ConsumerStates,
                      senderVars, history
  <2> QED
    BY <1>2, <1>a, <2>2 DEF ConsumerDrain, TypeInv, senderVars
<1>3. CASE \/ \E kind \in {"recv", "try_recv"} : StartRecv(kind)
           \/ Register \/ Poll \/ CheckClosed
  <2>1. TypeOK'
    <3>1. CASE CheckClosed
      <4>1. cpc' \in ConsumerStates
        BY <3>1 DEF CheckClosed, TypeInv, TypeOK, ConsumerStates
      <4> QED
        BY <3>1, <4>1 DEF CheckClosed, TypeInv, TypeOK, senderVars, history
    <3>2. CASE \E kind \in {"recv", "try_recv"} : StartRecv(kind)
      BY <3>2 DEF StartRecv, TypeInv, TypeOK, ConsumerStates, senderVars,
                  history
    <3>3. CASE Register \/ Poll
      BY Zenon, <3>3 DEF Register, Poll, TypeInv, TypeOK, ConsumerStates,
                  senderVars, history
    <3> QED
      BY <1>3, <3>1, <3>2, <3>3
  <2> QED
    BY <1>3, <1>a, <2>1 DEF StartRecv, Register, Poll, CheckClosed, TypeInv,
                            senderVars
<1>4. CASE Dequeue
  <2>1. queue' \in Seq(Messages) /\ hand' \in Messages \cup {NoMessage}
    BY Zenon, <1>4, <1>c DEF Dequeue, TypeInv, TypeOK
  <2>2. TypeOK'
    BY <1>4, <2>1 DEF Dequeue, TypeInv, TypeOK, ConsumerStates, senderVars,
                      history
  <2> QED
    BY <1>4, <1>a, <2>2 DEF Dequeue, TypeInv, senderVars
<1>5. CASE ReleasePermit
  <2>1. /\ waker' \in {"none", "current", "stale"}
        /\ received' \in Seq(Messages)
        /\ call' \in [kind : {"recv", "try_recv"}, armed : BOOLEAN]
    BY <1>5, <1>b DEF ReleasePermit, TypeInv, TypeOK
  <2>2. /\ permits' \in Nat
        /\ waiters' \in Seq(Senders)
        /\ pc' \in [Senders -> SenderStates]
        /\ Distinct(waiters')
        /\ \A i \in 1..Len(waiters') : pc'[waiters'[i]] = "waiting"
        /\ \A s \in Senders :
              \/ pc'[s] = pc[s]
              \/ pc'[s] = "granted" /\ pc[s] = "waiting"
    <3>1. AddPermits(1, pc) /\ 1 \in Nat /\ pc \in [Senders -> SenderStates]
      BY <1>5 DEF ReleasePermit, TypeInv, TypeOK
    <3>2. /\ TypeOK /\ Distinct(waiters)
          /\ \A i \in 1..Len(waiters) : pc[waiters[i]] = "waiting"
      BY DEF TypeInv, SemaphoreInv
    <3> QED
      BY <3>1, <3>2, AddPermitsProperties
  <2>3. TypeOK'
    BY <1>5, <2>1, <2>2
    DEF ReleasePermit, TypeInv, TypeOK, ConsumerStates, history
  <2>4. closed' => waiters' = <<>>
    <3>1. AddPermits(1, pc) /\ 1 \in Nat
      BY SMTT(30), <1>5 DEF ReleasePermit
    <3> QED
      BY <1>5, <3>1, AddPermitsClosed DEF ReleasePermit, TypeInv
  <2>5. SemaphoreInv'
    BY <1>5, <2>2, <2>4 DEF ReleasePermit, TypeInv, SemaphoreInv
  <2> QED
    BY <2>3, <2>5 DEF TypeInv
<1>6. CASE OnCloseDequeue
  <2>1. /\ waker' \in {"none", "current", "stale"}
        /\ received' \in Seq(Messages) /\ queue' \in Seq(Messages)
        /\ call' \in [kind : {"recv", "try_recv"}, armed : BOOLEAN]
    BY Zenon, <1>6, <1>b, <1>c DEF OnCloseDequeue, TypeInv, TypeOK
  <2>2. TypeOK'
    BY <1>6, <2>1 DEF OnCloseDequeue, TypeInv, TypeOK, ConsumerStates,
                      senderVars, history
  <2> QED
    BY <1>6, <1>a, <2>2 DEF OnCloseDequeue, TypeInv, senderVars
<1>7. CASE OnCloseTrace
  <2>1. /\ waker' \in {"none", "current", "stale"}
        /\ received' \in Seq(Messages)
        /\ call' \in [kind : {"recv", "try_recv"}, armed : BOOLEAN]
    BY <1>7, <1>b DEF OnCloseTrace
  <2>2. TypeOK'
    BY <1>7, <2>1 DEF OnCloseTrace, TypeInv, TypeOK, ConsumerStates,
                      senderVars, history
  <2> QED
    BY <1>7, <1>a, <2>2 DEF OnCloseTrace, TypeInv, senderVars
<1> QED
  BY SMTT(30), <1>1, <1>2, <1>3, <1>4, <1>5, <1>6, <1>7
  DEF ConsumerStep, RecvStep

\* Every step keeps the types and the semaphore's queue in order.
LEMMA TypeStep == TypeInv /\ [Next]_vars => TypeInv'
<1> SUFFICES ASSUME TypeInv, [Next]_vars PROVE TypeInv'
  OBVIOUS
<1>1. CASE UNCHANGED vars
  BY <1>1 DEF vars, TypeInv, TypeOK, SemaphoreInv, senderVars, consumerVars,
              history
<1> QED
  BY <1>1, TypeSender, TypeCloser, TypeCapacity, TypeConsumer DEF Next

\* The mailbox keeps its types: no operation takes a permit below zero,
\* dequeues from an empty queue or leaves a task in an unknown state.
THEOREM TypeCorrect == Spec => []TypeOK
<1>1. Spec => []TypeInv
  BY TypeInit, TypeStep, PTL DEF Spec
<1> QED
  BY <1>1, PTL DEF TypeInv

-----------------------------------------------------------------------------
(* The mutex `control` and the consumer slot *)

\* Who is inside a critical section holds `control`.  The slot tells whether
\* a consumer is attached, and an inline drain has found it vacant.
LockInv ==
    /\ \A c \in Closers :
          closer[c] \in {"close", "notify", "slot", "drain"} => lock = c
    /\ cpc = "drain" => lock = ConsumerTask
    /\ control.slot = "Vacant" <=> cpc \in {"detached", "drain"}
    /\ \A c \in Closers : closer[c] = "drain" => control.slot = "Vacant"

\* The closed semaphore has a trace id, and nobody but the closer between
\* its two assignments has set one before the close.
TraceInv ==
    /\ closed => control.trace # NoTrace
    /\ control.trace # NoTrace =>
          closed \/ \E c \in Closers : closer[c] = "close"
    /\ \A c \in Closers :
          closer[c] = "close" => control.trace = c /\ ~closed
    /\ cpc \in {"onClose", "closedTrace", "closed"} => closed

\* The holders of `control` are told apart.
LEMMA Names ==
    /\ \A c \in Closers : c # Free /\ c # ConsumerTask /\ c # NoTrace
    /\ Free # ConsumerTask
  BY Zenon, CloserAssumption DEF CloserAssumption, Free, ConsumerTask, NoTrace

\* Senders touch the semaphore, the queue and the waker only.
LEMMA SenderFrame ==
    ASSUME NEW s \in Senders, SenderStep(s)
    PROVE  UNCHANGED <<closed, control, lock, closer, consumerVars, atClose>>
  BY DEF SenderStep, SendAcquire, SendPoll, SendCancel, TrySend,
         UnboundedSend, Enqueue, NotifyRx, consumerVars, history

\* set_capacity() touches permits, the queued acquirers and the capacity.
LEMMA CapacityFrame ==
    ASSUME TypeInv, NEW n \in Capacities, SetCapacity(n)
    PROVE  /\ UNCHANGED <<queue, closed, waker, woken, lock, closer,
                          consumerVars, history>>
           /\ control'.trace = control.trace
           /\ control'.slot = control.slot
<1>1. control \in [trace : Closers \cup {NoTrace}, capacity : Nat,
                   slot : Slots]
  BY DEF TypeInv, TypeOK
<1>2. \E k : control' = [control EXCEPT !.capacity = k]
  BY DEF SetCapacity
<1>3. UNCHANGED <<queue, closed, waker, woken, lock, closer,
                  consumerVars, history>>
  BY DEF SetCapacity
<1> QED
  BY SMTT(30), <1>1, <1>2, <1>3

\* A recv() or try_recv() in progress stays attached and takes no lock; it
\* gets past is_closed() only when the semaphore is closed.
LEMMA RecvFrame ==
    ASSUME TypeInv, RecvStep
    PROVE  /\ UNCHANGED <<closed, control, lock, closer, next, history>>
           /\ cpc \notin {"detached", "drain"} /\ cpc' \notin {"detached", "drain"}
           /\ cpc' \in {"onClose", "closedTrace", "closed"} =>
                 closed \/ cpc \in {"onClose", "closedTrace", "closed"}
<1>1. CASE CheckClosed
  <2>1. call.kind \in {"recv", "try_recv"}
    BY DEF TypeInv, TypeOK
  <2>2. /\ cpc' \in {"onClose", "idle", "register", "pending"}
        /\ cpc' = "onClose" => closed
    BY <1>1, <2>1 DEF CheckClosed
  <2> QED
    BY Zenon, <1>1, <2>2 DEF CheckClosed, senderVars
<1>2. CASE \/ Dequeue \/ ReleasePermit \/ Register
           \/ OnCloseDequeue \/ OnCloseTrace
  BY SMTT(30), <1>2 DEF Dequeue, ReleasePermit, Register, OnCloseDequeue,
              OnCloseTrace, senderVars, history
<1> QED
  BY <1>1, <1>2 DEF RecvStep

\* `control` excludes closers, the deferred drain and the attachment of a
\* consumer from each other.
LEMMA LockStep ==
    ASSUME TypeInv, LockInv, [Next]_vars PROVE LockInv'
<1> USE DEF LockInv
<1>0. /\ closer \in [Closers -> CloserStates]
      /\ control \in [trace : Closers \cup {NoTrace}, capacity : Nat,
                      slot : Slots]
  BY DEF TypeInv, TypeOK
<1>1. ASSUME NEW s \in Senders, SenderStep(s) PROVE LockInv'
  BY <1>1, SenderFrame DEF consumerVars
<1>2. ASSUME NEW n \in Capacities, SetCapacity(n) PROVE LockInv'
  BY SMTT(30), <1>2, CapacityFrame DEF consumerVars
<1>3. ASSUME NEW c \in Closers, CloserStep(c) PROVE LockInv'
  <2>1. CASE CloseLock(c)
    BY <1>0, <2>1, Names
    DEF CloseLock, AfterClose, consumerVars
  <2>2. CASE CloseSemaphore(c)
    BY <1>0, <2>2, Names DEF CloseSemaphore, consumerVars
  <2>3. CASE CloseNotify(c)
    BY <1>0, <2>3, Names DEF CloseNotify, AfterClose, consumerVars
  <2>4. CASE CheckSlot(c)
    BY <1>0, <2>4, Names DEF CheckSlot, consumerVars
  <2>5. CASE CloserDrain(c)
    BY SMTT(30), <1>0, <2>5, Names DEF CloserDrain, consumerVars
  <2> QED
    BY <1>3, <2>1, <2>2, <2>3, <2>4, <2>5 DEF CloserStep
<1>4. CASE ConsumerStep
  <2>1. CASE Attach
    BY <1>0, <2>1, Names DEF Attach
  <2>2. CASE Detach
    BY <1>0, <2>2, Names DEF Detach
  <2>3. CASE ConsumerDrain
    BY <1>0, <2>3, Names DEF ConsumerDrain
  <2>4. CASE (\E kind \in {"recv", "try_recv"} : StartRecv(kind)) \/ Poll
    BY <2>4 DEF StartRecv, Poll
  <2>5. CASE RecvStep
    BY SMTT(30), <2>5, RecvFrame
  <2> QED
    BY <1>4, <2>1, <2>2, <2>3, <2>4, <2>5 DEF ConsumerStep
<1>5. CASE UNCHANGED vars
  BY SMTT(30), <1>5 DEF vars, consumerVars
<1> QED
  BY SMTT(30), <1>1, <1>2, <1>3, <1>4, <1>5 DEF Next

\* closed_trace_id is set before the semaphore is closed, and only then.
LEMMA TraceStep ==
    ASSUME TypeInv, LockInv, TraceInv, [Next]_vars
    PROVE  /\ TraceInv'
           /\ control.trace # NoTrace => control'.trace = control.trace
<1> USE DEF TraceInv
<1>0. /\ closer \in [Closers -> CloserStates]
      /\ control \in [trace : Closers \cup {NoTrace}, capacity : Nat,
                      slot : Slots]
  BY DEF TypeInv, TypeOK
<1>1. ASSUME NEW s \in Senders, SenderStep(s)
      PROVE  TraceInv' /\ control'.trace = control.trace
  BY SMTT(30), <1>1, SenderFrame DEF consumerVars
<1>2. ASSUME NEW n \in Capacities, SetCapacity(n)
      PROVE  TraceInv' /\ control'.trace = control.trace
  BY SMTT(30), <1>2, CapacityFrame DEF consumerVars
<1>3. ASSUME NEW c \in Closers, CloserStep(c)
      PROVE  /\ TraceInv'
             /\ control.trace # NoTrace => control'.trace = control.trace
  <2>1. CASE CloseLock(c)
    BY SMTT(30), <1>0, <2>1, Names
    DEF CloseLock, AfterClose, consumerVars, LockInv
  <2>2. CASE CloseSemaphore(c)
    BY <1>0, <2>2, Names DEF CloseSemaphore, consumerVars, LockInv
  <2>3. CASE CloseNotify(c)
    BY <1>0, <2>3, Names DEF CloseNotify, AfterClose, consumerVars, LockInv
  <2>4. CASE CheckSlot(c)
    BY SMTT(30), <1>0, <2>4, Names DEF CheckSlot, consumerVars
  <2>5. CASE CloserDrain(c)
    BY SMTT(30), <1>0, <2>5, Names DEF CloserDrain, consumerVars
  <2> QED
    BY Zenon, <1>3, <2>1, <2>2, <2>3, <2>4, <2>5 DEF CloserStep
<1>4. CASE ConsumerStep
  <2>1. CASE Attach
    BY <1>0, <2>1 DEF Attach
  <2>2. CASE Detach
    BY SMTT(30), <1>0, <2>2 DEF Detach
  <2>3. CASE ConsumerDrain
    BY Zenon, <2>3 DEF ConsumerDrain
  <2>4. CASE (\E kind \in {"recv", "try_recv"} : StartRecv(kind)) \/ Poll
    BY <2>4 DEF StartRecv, Poll
  <2>5. CASE RecvStep
    BY SMTT(30), <2>5, RecvFrame
  <2> QED
    BY <1>4, <2>1, <2>2, <2>3, <2>4, <2>5 DEF ConsumerStep
<1>5. CASE UNCHANGED vars
  BY <1>5 DEF vars, consumerVars
<1> QED
  BY SMTT(30), <1>1, <1>2, <1>3, <1>4, <1>5 DEF Next

-----------------------------------------------------------------------------
(* Wakeups, and the end of the mailbox *)

\* recv() has registered its waker in this poll and relies on it.
Armed == cpc = "pending" \/ (cpc \in {"dequeue", "checkClosed"} /\ call.armed)

\* NoLostWakeup, from the moment the waker is registered.
WakeInv ==
    Armed /\ ~woken =>
        /\ waker = "current"
        /\ cpc # "dequeue" /\ queue # <<>> =>
              \E s \in Senders : pc[s] = "notify"
        /\ cpc = "pending" /\ closed =>
              \E c \in Closers : closer[c] = "notify"

\* ClosedIsLast, from the moment on_close() has found the queue empty.
ClosedInv ==
    /\ atClose <= Len(accepted)
    /\ cpc \in {"closedTrace", "closed"} =>
          Len(accepted) - Len(queue) >= atClose

\* A sender about to notify is not disturbed by others' permits.
LEMMA NotifyKept ==
    ASSUME TypeInv,
           \/ \E n \in Capacities : SetCapacity(n)
           \/ ReleasePermit
           \/ \E s \in Senders : SendCancel(s),
           NEW q \in Senders, pc[q] = "notify"
    PROVE  pc'[q] = "notify"
<1>0. /\ pc \in [Senders -> SenderStates] /\ TypeOK /\ Distinct(waiters)
      /\ \A i \in 1..Len(waiters) :
            waiters[i] \in Senders /\ pc[waiters[i]] = "waiting"
  BY SMTT(30), ElementOfSeq DEF TypeInv, TypeOK, SemaphoreInv
<1>1. ASSUME NEW n \in Capacities, SetCapacity(n) PROVE pc'[q] = "notify"
  <2>1. /\ n \in Nat /\ control.capacity \in Nat
        /\ n > control.capacity => n - control.capacity \in Nat
    BY CapacityAssumption DEF CapacityAssumption, TypeInv, TypeOK
  <2>2. CASE n < control.capacity
    BY <1>1, <2>1, <2>2 DEF SetCapacity
  <2>3. CASE n > control.capacity
    BY SMTT(30), <1>0, <1>1, <2>1, <2>3, AddPermitsProperties DEF SetCapacity
  <2> QED
    BY <1>1, <2>1, <2>2, <2>3 DEF SetCapacity
<1>2. CASE ReleasePermit
  BY SMTT(30), <1>0, <1>2, AddPermitsProperties DEF ReleasePermit
<1>3. ASSUME NEW s \in Senders, SendCancel(s) PROVE pc'[q] = "notify"
  <2>1. CASE pc[s] = "waiting" /\ pc' = [pc EXCEPT ![s] = "idle"]
    BY <1>0, <2>1
  <2>2. CASE pc[s] = "granted" /\ AddPermits(1, [pc EXCEPT ![s] = "idle"])
    <3> DEFINE at == [pc EXCEPT ![s] = "idle"]
    <3>1. /\ at \in [Senders -> SenderStates] /\ at[q] = "notify"
          /\ \A i \in 1..Len(waiters) : at[waiters[i]] = "waiting"
      BY <1>0, <2>2 DEF SenderStates
    <3>2. AddPermits(1, at) /\ 1 \in Nat
      BY SMTT(30), <2>2
    <3> HIDE DEF at
    <3> QED
      BY <1>0, <3>1, <3>2, AddPermitsProperties
  <2> QED
    BY <1>3, <2>1, <2>2 DEF SendCancel
<1> QED
  BY SMTT(30), <1>1, <1>2, <1>3

\* A step of a sender, of a closer or of set_capacity() wakes the consumer
\* whenever it ends the reason for the consumer to sleep.
LEMMA WakeOthers ==
    ASSUME TypeInv, WakeInv,
           \/ \E s \in Senders : SenderStep(s)
           \/ \E c \in Closers : CloserStep(c)
           \/ \E n \in Capacities : SetCapacity(n)
    PROVE  WakeInv'
<1>0. /\ pc \in [Senders -> SenderStates] /\ queue \in Seq(Messages)
      /\ closer \in [Closers -> CloserStates]
  BY SMTT(30) DEF TypeInv, TypeOK
<1> USE DEF WakeInv, Armed
<1>1. ASSUME NEW s \in Senders, SenderStep(s) PROVE WakeInv'
  <2>1. CASE SendCancel(s)
    BY Zenon, <2>1, NotifyKept DEF SendCancel, consumerVars
  <2>2. CASE NotifyRx(s)
    BY Zenon, <2>2 DEF NotifyRx, Notify, consumerVars
  <2>3. CASE Enqueue(s)
    BY SMTT(30), <1>0, <2>3 DEF Enqueue, consumerVars
  <2>4. CASE SendAcquire(s) \/ SendPoll(s) \/ TrySend(s) \/ UnboundedSend(s)
    <3>1. \A q \in Senders : pc[q] = "notify" => pc'[q] = "notify"
      BY SMTT(30), <1>0, <2>4 DEF SendAcquire, SendPoll, TrySend, UnboundedSend,
                        CanSend, Reject
    <3>2. UNCHANGED <<queue, closed, waker, woken, closer, consumerVars>>
      BY SMTT(30), <2>4 DEF SendAcquire, SendPoll, TrySend, UnboundedSend
    <3> QED
      BY SMTT(30), <3>1, <3>2 DEF consumerVars
  <2> QED
    BY SMTT(30), <1>1, <2>1, <2>2, <2>3, <2>4 DEF SenderStep
<1>2. ASSUME NEW c \in Closers, CloserStep(c) PROVE WakeInv'
  <2>1. CASE CloseLock(c) \/ CheckSlot(c)
    BY <1>0, <2>1 DEF CloseLock, AfterClose, CheckSlot, senderVars,
                      consumerVars
  <2>2. CASE CloseSemaphore(c)
    BY SMTT(30), <1>0, <2>2 DEF CloseSemaphore, senderVars, consumerVars
  <2>3. CASE CloseNotify(c)
    BY Zenon, <2>3 DEF CloseNotify, Notify, senderVars, consumerVars
  <2>4. CASE CloserDrain(c)
    BY <1>0, <2>4, EmptySeq DEF CloserDrain, senderVars, consumerVars
  <2> QED
    BY Zenon, <1>2, <2>1, <2>2, <2>3, <2>4 DEF CloserStep
<1>3. ASSUME NEW n \in Capacities, SetCapacity(n) PROVE WakeInv'
  BY Zenon, <1>3, NotifyKept, CapacityFrame DEF consumerVars
<1> QED
  BY <1>1, <1>2, <1>3

\* recv() looks at the queue and at the close again after it has registered.
LEMMA WakeConsumer ==
    ASSUME TypeInv, WakeInv, ConsumerStep PROVE WakeInv'
<1> USE DEF WakeInv, Armed
<1>0. call \in [kind : {"recv", "try_recv"}, armed : BOOLEAN]
  BY DEF TypeInv, TypeOK
<1>1. CASE Attach \/ Detach \/ ConsumerDrain
  BY <1>1 DEF Attach, Detach, ConsumerDrain
<1>2. CASE (\E kind \in {"recv", "try_recv"} : StartRecv(kind)) \/ Poll
  BY <1>0, <1>2 DEF StartRecv, Poll
<1>3. CASE Dequeue
  BY <1>3 DEF Dequeue, senderVars
<1>4. CASE Register
  BY <1>4 DEF Register
<1>5. CASE CheckClosed
  <2>1. cpc' = "pending" => ~closed /\ call.armed
    BY <1>0, <1>5 DEF CheckClosed
  <2>2. cpc' \notin {"dequeue", "checkClosed"}
    BY SMTT(30), <1>0, <1>5 DEF CheckClosed
  <2> QED
    BY Zenon, <1>5, <2>1, <2>2 DEF CheckClosed, senderVars
<1>6. CASE ReleasePermit \/ OnCloseDequeue \/ OnCloseTrace
  BY <1>6 DEF ReleasePermit, OnCloseDequeue, OnCloseTrace
<1> QED
  BY Zenon, <1>1, <1>2, <1>3, <1>4, <1>5, <1>6 DEF ConsumerStep, RecvStep

\* Messages that were enqueued before the close leave the queue before
\* recv() answers Closed; later ones do not count.
LEMMA ClosedStep ==
    ASSUME TypeInv, TraceInv, ClosedInv, [Next]_vars PROVE ClosedInv'
<1> USE DEF ClosedInv
<1>0. /\ queue \in Seq(Messages) /\ Len(queue) \in Nat
      /\ accepted \in Seq(Messages) /\ Len(accepted) \in Nat
      /\ atClose \in Nat
      /\ queue # <<>> => Len(Tail(queue)) = Len(queue) - 1
  BY LenProperties, HeadTailProperties DEF TypeInv, TypeOK
<1>1. ASSUME NEW s \in Senders, SenderStep(s) PROVE ClosedInv'
  <2>1. CASE Enqueue(s)
    <3>1. <<s, next[s]>> \in Messages
      BY SMTT(30), <2>1 DEF Enqueue, TypeInv, TypeOK, SemaphoreInv, Messages
    <3>2. /\ Len(queue') = Len(queue) + 1
          /\ Len(accepted') = Len(accepted) + 1
      BY SMTT(30), <1>0, <2>1, <3>1, AppendProperties DEF Enqueue
    <3> QED
      BY SMTT(30), <1>0, <2>1, <3>2 DEF Enqueue, consumerVars
  <2>2. CASE ~Enqueue(s)
    BY <1>1, <2>2 DEF SenderStep, SendAcquire, SendPoll, SendCancel, TrySend,
                      UnboundedSend, NotifyRx, consumerVars, history
  <2> QED
    BY <2>1, <2>2
<1>2. ASSUME NEW c \in Closers, CloserStep(c) PROVE ClosedInv'
  <2>1. CASE CloseSemaphore(c)
    <3>1. cpc' = cpc /\ accepted' = accepted /\ atClose' = Len(accepted)
      BY SMTT(30), <2>1 DEF CloseSemaphore, consumerVars
    <3>2. cpc \notin {"closedTrace", "closed"}
      BY <2>1 DEF CloseSemaphore, TraceInv
    <3>3. atClose' =< Len(accepted')
      BY <1>0, <3>1
    <3> QED
      BY <3>1, <3>2, <3>3
  <2>2. CASE CloserDrain(c)
    BY <1>0, <2>2 DEF CloserDrain, consumerVars, history
  <2>3. CASE CloseLock(c) \/ CloseNotify(c) \/ CheckSlot(c)
    BY <2>3 DEF CloseLock, CloseNotify, CheckSlot, consumerVars, history
  <2> QED
    BY <1>2, <2>1, <2>2, <2>3 DEF CloserStep
<1>3. ASSUME NEW n \in Capacities, SetCapacity(n) PROVE ClosedInv'
  BY <1>3, CapacityFrame DEF consumerVars, history
<1>4. CASE ConsumerStep
  <2>1. CASE Attach \/ Detach \/ Poll
             \/ (\E kind \in {"recv", "try_recv"} : StartRecv(kind))
    BY <2>1 DEF Attach, Detach, Poll, StartRecv, history
  <2>2. CASE ConsumerDrain
    BY <1>0, <2>2 DEF ConsumerDrain, history
  <2>3. CASE CheckClosed
    <3>1. call.kind \in {"recv", "try_recv"}
      BY DEF TypeInv, TypeOK
    <3>2. cpc' \in {"onClose", "idle", "register", "pending"}
      BY <2>3, <3>1 DEF CheckClosed
    <3> QED
      BY Zenon, <2>3, <3>2 DEF CheckClosed, history
  <2>4. CASE OnCloseDequeue
    <3>1. Len(<<>>) = 0
      BY EmptySeq
    <3> QED
      BY <1>0, <2>4, <3>1 DEF OnCloseDequeue, history
  <2>5. CASE Dequeue \/ ReleasePermit \/ Register \/ OnCloseTrace
    BY SMTT(30), <1>0, <2>5
    DEF Dequeue, ReleasePermit, Register, OnCloseTrace, history
  <2> QED
    BY SMTT(30), <1>4, <2>1, <2>2, <2>3, <2>4, <2>5 DEF ConsumerStep, RecvStep
<1>5. CASE UNCHANGED vars
  BY <1>5 DEF vars, consumerVars, history
<1> QED
  BY SMTT(30), <1>1, <1>2, <1>3, <1>4, <1>5 DEF Next

-----------------------------------------------------------------------------
(* The inductive invariant and what follows from it *)

MailboxInv == TypeInv /\ LockInv /\ TraceInv /\ WakeInv /\ ClosedInv

\* A new mailbox satisfies the inductive invariant.
LEMMA MailboxInit == Init => MailboxInv
<1> SUFFICES ASSUME Init PROVE MailboxInv
  OBVIOUS
<1>1. TypeInv
  BY SMTT(30), TypeInit
<1>2. LockInv /\ TraceInv /\ WakeInv
  BY SMTT(30) DEF Init, LockInv, TraceInv, WakeInv, Armed
<1>3. ClosedInv
  BY EmptySeq DEF Init, ClosedInv
<1> QED
  BY <1>1, <1>2, <1>3 DEF MailboxInv

\* Every step of senders, closers and the consumer keeps it.
LEMMA MailboxStep == MailboxInv /\ [Next]_vars => MailboxInv'
<1> SUFFICES ASSUME MailboxInv, [Next]_vars PROVE MailboxInv'
  OBVIOUS
<1> USE DEF MailboxInv
<1>1. TypeInv' /\ LockInv' /\ TraceInv' /\ ClosedInv'
  BY SMTT(30), TypeStep, LockStep, TraceStep, ClosedStep
<1>2. CASE Next
  BY <1>1, <1>2, WakeOthers, WakeConsumer DEF Next
<1>3. CASE UNCHANGED vars
  <2>1. WakeInv'
    BY <1>3 DEF vars, WakeInv, Armed, senderVars, consumerVars
  <2> QED
    BY SMTT(30), <1>1, <2>1
<1> QED
  BY SMTT(30), <1>2, <1>3

\* In every behaviour.
LEMMA MailboxAlways == Spec => []MailboxInv
  BY MailboxInit, MailboxStep, PTL DEF Spec

\* recv() never sleeps through a message or the close of the mailbox.
THEOREM WakeupNotLost == Spec => []NoLostWakeup
<1>1. MailboxInv => NoLostWakeup
  BY DEF MailboxInv, WakeInv, Armed, NoLostWakeup
<1> QED
  BY <1>1, MailboxAlways, PTL

\* The unchecked dequeues of recv() and of the drains never overlap.
THEOREM OneDequeuer == Spec => []SoleDequeuer
<1>1. MailboxInv => SoleDequeuer
  BY SMTT(30), Names DEF MailboxInv, LockInv, SoleDequeuer
<1> QED
  BY <1>1, MailboxAlways, PTL

\* on_close() finds the trace id of the close.
THEOREM TraceIsKnown == Spec => []TraceKnown
<1>1. MailboxInv => TraceKnown
  BY DEF MailboxInv, TraceInv, TraceKnown
<1> QED
  BY <1>1, MailboxAlways, PTL

\* The trace id of the first close is never overwritten.
THEOREM TraceIsStable == Spec => TraceStable
<1>1. MailboxInv /\ [Next]_vars =>
        [control.trace # NoTrace => control'.trace = control.trace]_vars
  BY TraceStep DEF MailboxInv
<1> QED
  BY <1>1, MailboxAlways, PTL DEF Spec, TraceStable

\* recv() answers Closed after everything that was enqueued before the close.
THEOREM ClosedComesLast == Spec => []ClosedIsLast
<1>1. MailboxInv => ClosedIsLast
  BY DEF MailboxInv, ClosedInv, ClosedIsLast
<1> QED
  BY <1>1, MailboxAlways, PTL

-----------------------------------------------------------------------------
(* The permits *)

\* Senders that hold a permit, or need none any more, in the states `at`.
Holders(at) == {s \in Senders : at[s] \in {"granted", "enqueue"}}

\* Subsets of the senders can be counted.
LEMMA HoldersFinite ==
    ASSUME NEW at
    PROVE  IsFiniteSet(Holders(at)) /\ Cardinality(Holders(at)) \in Nat
  BY SMTT(30), SenderAssumption, FS_Subset, FS_CardinalityType
  DEF SenderAssumption, Holders

\* The acquirers at the head of the semaphore's queue are as many as they
\* have places in it.
LEMMA CountDistinct ==
    ASSUME NEW S, NEW seq \in Seq(S), Distinct(seq), NEW n \in 0..Len(seq)
    PROVE  LET T == {seq[i] : i \in 1..n}
           IN  IsFiniteSet(T) /\ Cardinality(T) = n
<1> DEFINE T == {seq[i] : i \in 1..n}
           f == [i \in 1..n |-> seq[i]]
<1>1. n \in Nat /\ n <= Len(seq) /\ Len(seq) \in Nat
  BY LenProperties
<1>2. f \in [1..n -> T]
  OBVIOUS
<1>3. f \in Injection(1..n, T)
  <2>1. ASSUME NEW i \in 1..n, NEW j \in 1..n, f[i] = f[j] PROVE i = j
    <3>1. i \in 1..Len(seq) /\ j \in 1..Len(seq)
      BY <1>1
    <3>2. seq[i] = seq[j]
      BY <2>1
    <3> QED
      BY <3>1, <3>2 DEF Distinct
  <2> HIDE DEF f, T
  <2>2. IsInjective(f)
    <3>1. DOMAIN f = 1..n
      BY SMTT(30), <1>2
    <3> QED
      BY <2>1, <3>1 DEF IsInjective
  <2> QED
    BY <1>2, <2>2 DEF Injection
<1>4. f \in Surjection(1..n, T)
  BY SMTT(30), <1>2 DEF Surjection
<1>5. ExistsBijection(1..n, T)
  BY SMTT(30), <1>3, <1>4 DEF ExistsBijection, Bijection
<1> QED
  BY SMTT(30), <1>1, <1>5, FS_CountingElements, FS_NatBijection

\* Semaphore::add_permits conserves permits: each of the `n` is either
\* available afterwards or granted to one more acquirer.
LEMMA AddPermitsCount ==
    ASSUME NEW n \in Nat, NEW at \in [Senders -> SenderStates], TypeOK,
           Distinct(waiters),
           \A i \in 1..Len(waiters) : at[waiters[i]] = "waiting",
           AddPermits(n, at)
    PROVE  permits' + Cardinality(Holders(pc')) =
               permits + n + Cardinality(Holders(at))
<1> DEFINE given == IF n < Len(waiters) THEN n ELSE Len(waiters)
           lucky == {waiters[i] : i \in 1..given}
<1>1. waiters \in Seq(Senders) /\ permits \in Nat
  BY DEF TypeOK
<1>2. Len(waiters) \in Nat /\ \A k \in 1..Len(waiters) : waiters[k] \in Senders
  BY <1>1, LenProperties, ElementOfSeq
<1>3. given \in 0..Len(waiters) /\ given \in Nat
  BY SMTT(30), <1>2
<1>4. /\ permits' = permits + (n - given)
      /\ pc' = [s \in Senders |-> IF s \in lucky THEN "granted" ELSE at[s]]
  BY DEF AddPermits
<1> HIDE DEF given
<1>5. IsFiniteSet(lucky) /\ Cardinality(lucky) = given
  BY Zenon, <1>1, <1>3, CountDistinct
<1>6. Holders(pc') = Holders(at) \cup lucky
  <2>1. lucky \subseteq Senders
    BY <1>2, <1>3
  <2> HIDE DEF lucky
  <2> QED
    BY <1>4, <2>1 DEF Holders
<1>7. Holders(at) \cap lucky = {}
  BY <1>2, <1>3 DEF Holders
<1> HIDE DEF lucky
<1>8. Cardinality(Holders(pc')) = Cardinality(Holders(at)) + given
  <2>1. IsFiniteSet(Holders(at)) /\ Cardinality(Holders(at)) \in Nat
    BY HoldersFinite
  <2>2. Cardinality(Holders(at) \cup lucky) =
          Cardinality(Holders(at)) + Cardinality(lucky)
              - Cardinality(Holders(at) \cap lucky)
    BY SMTT(30), <1>5, <2>1, FS_Union
  <2>3. Cardinality(Holders(at) \cap lucky) = 0
    BY <1>7, FS_EmptySet
  <2> QED
    BY SMTT(30), <1>3, <1>5, <1>6, <2>1, <2>2, <2>3
<1> QED
  BY SMTT(30), <1>1, <1>3, <1>4, <1>8, HoldersFinite

\* Only a closed mailbox is drained, and the consumer has an envelope in its
\* hands only between the dequeue and the release of the permit.
HandInv ==
    /\ cpc = "release" <=> hand # NoMessage
    /\ \A c \in Closers : closer[c] \in {"notify", "slot", "drain"} => closed
    /\ control.slot = "OccupiedDrain" \/ cpc = "drain" => closed

\* A message is not the empty hand.
LEMMA MessageIsSome == \A m \in Messages : m # NoMessage
<1> SUFFICES ASSUME NEW m \in Messages PROVE m # NoMessage
  OBVIOUS
<1>1. PICK s \in Senders, n \in 1..MaxSends : m = <<s, n>>
  BY DEF Messages
<1>2. Len(<<s, n>>) = 2 /\ Len(<<>>) = 0
  BY SMTT(30)
<1> QED
  BY <1>1, <1>2 DEF NoMessage

\* Every step keeps it.
LEMMA HandStep ==
    ASSUME MailboxInv, HandInv, [Next]_vars PROVE HandInv'
<1> USE DEF HandInv
<1>0. /\ closer \in [Closers -> CloserStates]
      /\ control \in [trace : Closers \cup {NoTrace}, capacity : Nat,
                      slot : Slots]
      /\ queue \in Seq(Messages) /\ TypeInv
  BY DEF MailboxInv, TypeInv, TypeOK
<1>1. ASSUME NEW s \in Senders, SenderStep(s) PROVE HandInv'
  BY SMTT(30), <1>1, SenderFrame DEF consumerVars
<1>2. ASSUME NEW n \in Capacities, SetCapacity(n) PROVE HandInv'
  BY SMTT(30), <1>0, <1>2, CapacityFrame DEF consumerVars
<1>3. ASSUME NEW c \in Closers, CloserStep(c) PROVE HandInv'
  <2>1. CASE CloseLock(c)
    BY SMTT(30), <1>0, <2>1 DEF CloseLock, AfterClose, consumerVars
  <2>2. CASE CloseSemaphore(c) \/ CloseNotify(c)
    BY <1>0, <2>2 DEF CloseSemaphore, CloseNotify, AfterClose, consumerVars
  <2>3. CASE CheckSlot(c) \/ CloserDrain(c)
    BY SMTT(30), <1>0, <2>3 DEF CheckSlot, CloserDrain, consumerVars
  <2> QED
    BY Zenon, <1>3, <2>1, <2>2, <2>3 DEF CloserStep
<1>4. CASE ConsumerStep
  <2>1. CASE Attach \/ Detach \/ ConsumerDrain
    BY <1>0, <2>1 DEF Attach, Detach, ConsumerDrain
  <2>2. CASE (\E kind \in {"recv", "try_recv"} : StartRecv(kind)) \/ Poll
    BY <2>2 DEF StartRecv, Poll
  <2>3. CASE Dequeue
    <3>1. queue # <<>> => Head(queue) # NoMessage
      BY <1>0, HeadTailProperties, MessageIsSome
    <3> QED
      BY <2>3, <3>1 DEF Dequeue
  <2>4. CASE CheckClosed
    <3>1. call.kind \in {"recv", "try_recv"}
      BY <1>0 DEF TypeInv, TypeOK
    <3>2. cpc' \in {"onClose", "idle", "register", "pending"}
      BY <2>4, <3>1 DEF CheckClosed
    <3> QED
      BY Zenon, <2>4, <3>2 DEF CheckClosed
  <2>5. CASE ReleasePermit \/ Register \/ OnCloseDequeue \/ OnCloseTrace
    BY SMTT(30), <2>5 DEF ReleasePermit, Register, OnCloseDequeue, OnCloseTrace
  <2> QED
    BY SMTT(30), <1>4, <2>1, <2>2, <2>3, <2>4, <2>5 DEF ConsumerStep, RecvStep
<1>5. CASE UNCHANGED vars
  BY SMTT(30), <1>5 DEF vars, consumerVars
<1> QED
  BY SMTT(30), <1>1, <1>2, <1>3, <1>4, <1>5 DEF Next

\* PermitsBalance with the senders' states as a parameter.
Balance ==
    ~closed => permits + Cardinality(Holders(pc)) + Len(queue) + Len(InHand)
                   = control.capacity + excess

\* A sender takes a permit, or goes on without one; it gives it back, or
\* spends it on a message.
LEMMA BalanceSender ==
    ASSUME MailboxInv, HandInv, Balance, NEW s \in Senders, SenderStep(s)
    PROVE  Balance'
<1> USE DEF Balance
<1>0. /\ permits \in Nat /\ excess \in Nat /\ control.capacity \in Nat
      /\ pc \in [Senders -> SenderStates] /\ Len(queue) \in Nat
      /\ queue \in Seq(Messages)
  BY LenProperties DEF MailboxInv, TypeInv, TypeOK
<1>1. Len(InHand) \in Nat /\ Len(InHand)' = Len(InHand)
  BY SenderFrame DEF InHand, consumerVars
<1>2. UNCHANGED <<closed, control>>
  BY SenderFrame
<1>3. /\ IsFiniteSet(Holders(pc)) /\ Cardinality(Holders(pc)) \in Nat
      /\ IsFiniteSet(Holders(pc')) /\ Cardinality(Holders(pc')) \in Nat
  BY HoldersFinite
<1>n. /\ permits \in Nat /\ excess \in Nat /\ control.capacity \in Nat
      /\ Cardinality(Holders(pc)) \in Nat
  BY SMTT(30), <1>0, <1>3
<1>4. ASSUME pc[s] \notin {"granted", "enqueue"},
             pc' = [pc EXCEPT ![s] = "enqueue"]
      PROVE  Cardinality(Holders(pc')) = Cardinality(Holders(pc)) + 1
  <2>1. Holders(pc') = Holders(pc) \cup {s} /\ s \notin Holders(pc)
    BY SMTT(30), <1>0, <1>4 DEF Holders
  <2> QED
    BY SMTT(30), <1>3, <2>1, FS_AddElement
<1>5. ASSUME NEW st \in SenderStates \ {"granted", "enqueue"},
             pc[s] \in {"granted", "enqueue"}, pc' = [pc EXCEPT ![s] = st]
      PROVE  Cardinality(Holders(pc')) = Cardinality(Holders(pc)) - 1
  <2>1. Holders(pc') = Holders(pc) \ {s} /\ s \in Holders(pc)
    BY <1>0, <1>5 DEF Holders
  <2> QED
    BY SMTT(30), <1>3, <2>1, FS_RemoveElement
<1>6. ASSUME NEW st \in SenderStates, pc' = [pc EXCEPT ![s] = st],
             pc[s] \in {"granted", "enqueue"} <=> st \in {"granted", "enqueue"}
      PROVE  Cardinality(Holders(pc')) = Cardinality(Holders(pc))
  <2>1. Holders(pc') = Holders(pc)
    BY SMTT(30), <1>0, <1>6 DEF Holders
  <2> QED
    BY <2>1
<1>s. ASSUME ~closed, permits' \in Nat, UNCHANGED <<queue, excess>>,
             permits' + Cardinality(Holders(pc')) =
                 permits + Cardinality(Holders(pc))
      PROVE  Balance'
  <2> DEFINE q == Len(queue)
             h == Len(InHand)
  <2>1. /\ q \in Nat /\ h \in Nat
        /\ permits + Cardinality(Holders(pc)) + q + h
             = control.capacity + excess
    BY <1>0, <1>1, <1>s
  <2>2. Len(queue') = q /\ Len(InHand)' = h /\ excess' = excess
    BY SMTT(30), <1>1, <1>s
  <2> HIDE DEF q, h, Balance
  <2>3. permits' + Cardinality(Holders(pc')) + q + h
          = control.capacity + excess
    BY <1>n, <1>3, <1>s, <2>1
  <2> QED
    BY SMTT(30), <1>2, <2>2, <2>3 DEF Balance
<1>c. CASE closed
  BY SMTT(30), <1>2, <1>c
<1> HIDE DEF Balance
<1>7. CASE SendAcquire(s)
  <2>1. UNCHANGED <<queue, excess>> /\ pc[s] = "idle"
    BY <1>7 DEF SendAcquire, CanSend
  <2>2. CASE /\ ~closed /\ permits > 0
             /\ permits' = permits - 1 /\ pc' = [pc EXCEPT ![s] = "enqueue"]
    <3>1. Cardinality(Holders(pc')) = Cardinality(Holders(pc)) + 1
      BY SMTT(30), <1>4, <2>1, <2>2
    <3>2. permits' \in Nat
      BY <1>n, <2>2
    <3>3. permits' + Cardinality(Holders(pc')) =
            permits + Cardinality(Holders(pc))
      BY SMTT(30), <1>n, <2>2, <3>1
    <3> QED
      BY SMTT(30), <1>s, <2>1, <2>2, <3>2, <3>3
  <2>3. CASE /\ ~closed /\ permits' = permits
             /\ pc' = [pc EXCEPT ![s] = "waiting"]
    <3>1. "waiting" \in SenderStates
      BY DEF SenderStates
    <3>2. Cardinality(Holders(pc')) = Cardinality(Holders(pc))
      BY Zenon, <1>6, <2>1, <2>3, <3>1
    <3> QED
      BY SMTT(30), <1>n, <1>s, <2>1, <2>3, <3>2
  <2> QED
    BY SMTT(30), <1>7, <1>c, <2>2, <2>3 DEF SendAcquire
<1>8. CASE SendPoll(s)
  <2>1. "enqueue" \in SenderStates /\ UNCHANGED <<queue, excess>>
    BY <1>8 DEF SendPoll, SenderStates
  <2>2. CASE /\ ~closed /\ pc[s] = "granted"
             /\ pc' = [pc EXCEPT ![s] = "enqueue"] /\ permits' = permits
    <3>1. Cardinality(Holders(pc')) = Cardinality(Holders(pc))
      BY Zenon, <1>6, <2>1, <2>2
    <3> QED
      BY SMTT(30), <1>n, <1>s, <2>1, <2>2, <3>1
  <2> QED
    BY SMTT(30), <1>8, <1>c, <2>2 DEF SendPoll
<1>9. CASE TrySend(s)
  <2>1. UNCHANGED <<queue, excess>> /\ pc[s] = "idle"
    BY SMTT(30), <1>9 DEF TrySend, CanSend
  <2>2. CASE /\ ~closed /\ permits > 0
             /\ permits' = permits - 1 /\ pc' = [pc EXCEPT ![s] = "enqueue"]
    <3>1. Cardinality(Holders(pc')) = Cardinality(Holders(pc)) + 1
      BY <1>4, <2>1, <2>2
    <3>2. permits' \in Nat
      BY <1>n, <2>2
    <3>3. permits' + Cardinality(Holders(pc')) =
            permits + Cardinality(Holders(pc))
      BY <1>n, <2>2, <3>1
    <3> QED
      BY <1>s, <2>1, <2>2, <3>2, <3>3
  <2>3. CASE ~closed /\ permits' = permits /\ Reject(s)
    <3>1. "idle" \in SenderStates /\ pc' = [pc EXCEPT ![s] = "idle"]
      BY SMTT(30), <1>0, <2>1, <2>3 DEF Reject, SenderStates
    <3>2. Cardinality(Holders(pc')) = Cardinality(Holders(pc))
      BY Zenon, <1>6, <2>1, <3>1
    <3> QED
      BY SMTT(30), <1>n, <1>s, <2>1, <2>3, <3>2
  <2> QED
    BY SMTT(30), <1>9, <1>c, <2>2, <2>3 DEF TrySend
<1>10. CASE UnboundedSend(s)
  <2>1. CASE closed
    BY SMTT(30), <1>c, <2>1
  <2>2. CASE ~closed
    <3>1. Cardinality(Holders(pc')) = Cardinality(Holders(pc)) + 1
      BY SMTT(30), <1>4, <1>10, <2>2 DEF UnboundedSend, CanSend
    <3>2. UNCHANGED queue
      BY SMTT(30), <1>10 DEF UnboundedSend
    <3>b. \/ permits > 0 /\ permits' = permits - 1 /\ excess' = excess
          \/ permits' = permits /\ excess' = excess + 1
      BY SMTT(30), <1>10, <2>2 DEF UnboundedSend
    <3>3. permits' - permits = excess' - excess - 1
      BY <1>n, <3>b
    <3>4. permits' \in Nat /\ excess' \in Nat
      BY <1>n, <3>b
    <3>5. permits + Cardinality(Holders(pc)) + Len(queue) + Len(InHand)
            = control.capacity + excess
      BY <2>2 DEF Balance
    <3>6. permits' + (Cardinality(Holders(pc)) + 1) + Len(queue) + Len(InHand)
            = control.capacity + excess'
      <4> DEFINE q == Len(queue)
                 h == Len(InHand)
      <4>1. /\ q \in Nat /\ h \in Nat
            /\ permits + Cardinality(Holders(pc)) + q + h
                 = control.capacity + excess
        BY SMTT(30), <1>0, <1>1, <3>5
      <4> HIDE DEF q, h, Balance
      <4>2. permits' + (Cardinality(Holders(pc)) + 1) + q + h
              = control.capacity + excess'
        BY SMTT(30), <1>n, <3>3, <3>4, <4>1
      <4> QED
        BY <4>2 DEF q, h
    <3> QED
      BY SMTT(30), <1>1, <1>2, <3>1, <3>2, <3>6 DEF Balance
  <2> QED
    BY <2>1, <2>2
<1>11. CASE Enqueue(s)
  <2>1. Len(queue') = Len(queue) + 1
    BY <1>0, <1>11 DEF Enqueue
  <2>2. "notify" \in SenderStates \ {"granted", "enqueue"}
    BY DEF SenderStates
  <2>3. Cardinality(Holders(pc')) = Cardinality(Holders(pc)) - 1
    BY Zenon, <1>5, <1>11, <2>2 DEF Enqueue
  <2> QED
    <3>1. UNCHANGED <<permits, excess>>
      BY <1>11 DEF Enqueue
    <3>2. Len(queue) \in Nat
      BY SMTT(30), <1>0
    <3> QED
      BY SMTT(30), <1>n, <1>1, <1>2, <2>1, <2>3, <3>1, <3>2 DEF Balance
<1>12. CASE NotifyRx(s)
  <2>1. /\ "idle" \in SenderStates /\ UNCHANGED <<queue, excess, permits>>
        /\ pc[s] = "notify" /\ pc' = [pc EXCEPT ![s] = "idle"]
    BY <1>12 DEF NotifyRx, SenderStates
  <2>2. Cardinality(Holders(pc')) = Cardinality(Holders(pc))
    BY Zenon, <1>6, <2>1
  <2> QED
    BY SMTT(30), <1>n, <1>c, <1>s, <2>1, <2>2
<1>13. CASE SendCancel(s)
  <2>1. UNCHANGED <<queue, excess>>
    BY <1>13 DEF SendCancel
  <2>2. CASE pc[s] = "waiting" /\ pc' = [pc EXCEPT ![s] = "idle"]
             /\ UNCHANGED permits
    <3>1. "idle" \in SenderStates
      BY DEF SenderStates
    <3>2. Cardinality(Holders(pc')) = Cardinality(Holders(pc))
      BY Zenon, <1>6, <2>2, <3>1
    <3> QED
      BY SMTT(30), <1>n, <1>c, <1>s, <2>1, <2>2, <3>2
  <2>3. CASE pc[s] = "granted" /\ AddPermits(1, [pc EXCEPT ![s] = "idle"])
    <3> DEFINE at == [pc EXCEPT ![s] = "idle"]
    <3>1. /\ at \in [Senders -> SenderStates]
          /\ \A i \in 1..Len(waiters) : at[waiters[i]] = "waiting"
          /\ TypeOK /\ Distinct(waiters)
      <4>1. \A i \in 1..Len(waiters) : /\ waiters[i] \in Senders
                                        /\ pc[waiters[i]] = "waiting"
        BY SMTT(30), ElementOfSeq DEF MailboxInv, TypeInv, TypeOK, SemaphoreInv
      <4>2. TypeOK /\ Distinct(waiters)
        BY DEF MailboxInv, TypeInv, SemaphoreInv
      <4> QED
        BY SMTT(30), <1>0, <2>3, <4>1, <4>2 DEF SenderStates
    <3>2. AddPermits(1, at) /\ 1 \in Nat
      BY <2>3
    <3>3. Holders(at) = Holders(pc) \ {s} /\ s \in Holders(pc)
      BY SMTT(30), <1>0, <2>3 DEF Holders
    <3> HIDE DEF at
    <3>4. Cardinality(Holders(at)) = Cardinality(Holders(pc)) - 1
      BY Zenon, <1>3, <3>3, FS_RemoveElement
    <3>5. permits' + Cardinality(Holders(pc')) =
            permits + 1 + Cardinality(Holders(at))
      BY <3>1, <3>2, AddPermitsCount
    <3>6. permits' \in Nat
      BY <3>1, <3>2, AddPermitsProperties
    <3>7. permits' + Cardinality(Holders(pc')) =
            permits + Cardinality(Holders(pc))
      BY SMTT(30), <1>n, <3>4, <3>5
    <3> QED
      BY SMTT(30), <1>c, <1>s, <2>1, <3>6, <3>7
  <2> QED
    BY SMTT(30), <1>13, <2>2, <2>3 DEF SendCancel
<1> QED
  BY SMTT(30), <1>7, <1>8, <1>9, <1>10, <1>11, <1>12, <1>13 DEF SenderStep

\* set_capacity() changes the permits by what it changes the capacity, and
\* try_recv() gives back the permit of the message it returns.
LEMMA BalanceOthers ==
    ASSUME MailboxInv, HandInv, Balance,
           \/ \E c \in Closers : CloserStep(c)
           \/ \E n \in Capacities : SetCapacity(n)
           \/ ConsumerStep
    PROVE  Balance'
<1> USE DEF Balance
<1>0. /\ permits \in Nat /\ excess \in Nat /\ control.capacity \in Nat
      /\ pc \in [Senders -> SenderStates] /\ Len(queue) \in Nat
      /\ queue \in Seq(Messages) /\ TypeOK /\ Distinct(waiters)
      /\ control \in [trace : Closers \cup {NoTrace}, capacity : Nat,
                      slot : Slots]
      /\ TypeInv /\ TraceInv
  BY LenProperties DEF MailboxInv, TypeInv, TypeOK, SemaphoreInv
<1>1. /\ Len(InHand) = IF hand = NoMessage THEN 0 ELSE 1
      /\ Len(InHand)' = IF hand' = NoMessage THEN 0 ELSE 1
  BY DEF InHand
<1>2. /\ Cardinality(Holders(pc)) \in Nat
      /\ Cardinality(Holders(pc')) \in Nat
  BY HoldersFinite
<1>n. /\ permits \in Nat /\ excess \in Nat /\ control.capacity \in Nat
      /\ Cardinality(Holders(pc)) \in Nat
      /\ Cardinality(Holders(pc')) \in Nat
  BY <1>0, <1>2
<1>3. \A i \in 1..Len(waiters) : pc[waiters[i]] = "waiting"
  BY DEF MailboxInv, TypeInv, SemaphoreInv
<1>4. ASSUME NEW c \in Closers, CloserStep(c) PROVE Balance'
  <2>1. CASE CloseSemaphore(c)
    BY <2>1 DEF CloseSemaphore
  <2>2. CASE CloserDrain(c)
    BY <2>2 DEF CloserDrain, HandInv
  <2>3. CASE CloseLock(c) \/ CloseNotify(c) \/ CheckSlot(c)
    <3>1. control'.capacity = control.capacity
      BY <1>0, <2>3 DEF CloseLock, CloseNotify, CheckSlot
    <3> QED
      BY <1>1, <2>3, <3>1 DEF CloseLock, CloseNotify, CheckSlot, senderVars,
                              consumerVars
  <2> QED
    BY SMTT(30), <1>4, <2>1, <2>2, <2>3 DEF CloserStep
<1>5. ASSUME NEW n \in Capacities, SetCapacity(n) PROVE Balance'
  <2>1. /\ n \in Nat
        /\ UNCHANGED <<queue, closed, hand, excess>>
    BY <1>5, CapacityAssumption DEF CapacityAssumption, SetCapacity,
                                    consumerVars
  <2>2. CASE n < control.capacity
    <3> DEFINE delta == control.capacity - n
               real == IF delta < permits THEN delta ELSE permits
    <3>1. /\ real \in Nat
          /\ permits' = permits - real
          /\ control'.capacity = control.capacity - real
          /\ UNCHANGED pc
      BY <1>0, <1>5, <2>1, <2>2 DEF SetCapacity
    <3> HIDE DEF real
    <3>2. Len(InHand)' = Len(InHand) /\ Len(InHand) \in Nat
      BY <1>1, <2>1
    <3>3. CASE ~closed
      <4>0. permits + Cardinality(Holders(pc)) + Len(queue) + Len(InHand)
              = control.capacity + excess
        BY <3>3
      <4>1. permits' + Cardinality(Holders(pc)) + Len(queue) + Len(InHand)
              = control'.capacity + excess
        <5> DEFINE q == Len(queue)
                   h == Len(InHand)
        <5>1. /\ q \in Nat /\ h \in Nat
              /\ permits + Cardinality(Holders(pc)) + q + h
                   = control.capacity + excess
          BY SMTT(30), <1>0, <3>2, <4>0
        <5> HIDE DEF q, h, Balance
        <5>2. permits' + Cardinality(Holders(pc)) + q + h
                = control'.capacity + excess
          BY SMTT(30), <1>n, <3>1, <5>1
        <5> QED
          BY <5>2 DEF q, h
      <4> QED
        BY <2>1, <3>1, <3>2, <4>1
    <3> QED
      BY <2>1, <3>3
  <2>3. CASE n > control.capacity
    <3>1. /\ n - control.capacity \in Nat
          /\ AddPermits(n - control.capacity, pc)
          /\ control'.capacity = n
      BY SMTT(30), <1>0, <1>5, <2>1, <2>3 DEF SetCapacity
    <3>2. permits' + Cardinality(Holders(pc')) =
            permits + (n - control.capacity) + Cardinality(Holders(pc))
      BY SMTT(30), <1>0, <1>3, <3>1, AddPermitsCount
    <3>3. permits' \in Nat
      BY SMTT(30), <1>0, <1>3, <3>1, AddPermitsProperties
    <3>4. Len(InHand)' = Len(InHand) /\ Len(InHand) \in Nat
      BY <1>1, <2>1
    <3>5. CASE ~closed
      <4>0. permits + Cardinality(Holders(pc)) + Len(queue) + Len(InHand)
              = control.capacity + excess
        BY <3>5
      <4>1. permits' + Cardinality(Holders(pc')) + Len(queue) + Len(InHand)
              = control'.capacity + excess
        <5> DEFINE q == Len(queue)
                   h == Len(InHand)
        <5>1. /\ q \in Nat /\ h \in Nat
              /\ permits + Cardinality(Holders(pc)) + q + h
                   = control.capacity + excess
          BY <1>0, <3>4, <4>0
        <5>0. n \in Nat /\ control'.capacity = n
          BY SMTT(30), <2>1, <3>1
        <5> HIDE DEF q, h, Balance
        <5>2. permits' + Cardinality(Holders(pc')) + q + h
                = control'.capacity + excess
          BY SMTT(30), <1>n, <3>2, <3>3, <5>0, <5>1
        <5> QED
          BY SMTT(30), <5>2 DEF q, h
      <4> QED
        BY SMTT(30), <2>1, <3>4, <4>1
    <3> QED
      BY <2>1, <3>5
  <2> QED
    BY <1>0, <1>5, <2>1, <2>2, <2>3 DEF SetCapacity
<1>6. CASE ConsumerStep
  <2>1. CASE Attach \/ Detach
    <3>1. control'.capacity = control.capacity
      BY SMTT(30), <1>0, <2>1 DEF Attach, Detach
    <3> QED
      BY <1>1, <2>1, <3>1 DEF Attach, Detach, senderVars
  <2>2. CASE ConsumerDrain
    BY <2>2 DEF ConsumerDrain, HandInv
  <2>3. CASE \/ \E kind \in {"recv", "try_recv"} : StartRecv(kind)
             \/ Poll \/ CheckClosed \/ Register \/ OnCloseTrace
    BY SMTT(30), <1>1, <2>3
    DEF StartRecv, Poll, CheckClosed, Register, OnCloseTrace,
                      senderVars
  <2>4. CASE Dequeue
    <3>1. CASE queue = <<>>
      BY SMTT(30), <1>1, <2>4, <3>1 DEF Dequeue, senderVars
    <3>2. CASE queue # <<>>
      <4>1. /\ hand = NoMessage /\ hand' # NoMessage
            /\ Len(queue') = Len(queue) - 1
        BY SMTT(30), <1>0, <2>4, <3>2, HeadTailProperties, MessageIsSome
        DEF Dequeue, HandInv
      <4>2. UNCHANGED <<permits, pc, closed, control, excess>>
        BY <2>4 DEF Dequeue, senderVars
      <4>3. Len(InHand) = 0 /\ Len(InHand)' = 1
        BY SMTT(30), <1>1, <4>1
      <4>4. Len(queue) \in Nat /\ Len(queue') = Len(queue) - 1
        BY <1>0, <4>1
      <4>5. Cardinality(Holders(pc')) = Cardinality(Holders(pc))
        BY SMTT(30), <4>2
      <4> DEFINE q == Len(queue)
                 p == permits + Cardinality(Holders(pc))
      <4>6. p \in Nat /\ q \in Nat
        BY <1>n, <4>4
      <4>7. ASSUME ~closed
            PROVE  p + q + 0 = control.capacity + excess
        BY SMTT(30), <4>3, <4>7
      <4>8. ASSUME ~closed'
            PROVE  p + (q - 1) + 1 = control.capacity + excess
        <5> HIDE DEF p, q, Balance
        <5> QED
          BY SMTT(30), <4>2, <4>6, <4>7, <4>8
      <4> QED
        BY SMTT(30), <4>2, <4>3, <4>4, <4>5, <4>8
    <3> QED
      BY SMTT(30), <3>1, <3>2
  <2>5. CASE ReleasePermit
    <3>1. AddPermits(1, pc) /\ 1 \in Nat
      BY SMTT(30), <2>5 DEF ReleasePermit
    <3>2. permits' + Cardinality(Holders(pc')) =
            permits + 1 + Cardinality(Holders(pc))
      BY SMTT(30), <1>0, <1>3, <3>1, AddPermitsCount
    <3>3. permits' \in Nat
      BY SMTT(30), <1>0, <1>3, <3>1, AddPermitsProperties
    <3>4. /\ hand # NoMessage /\ hand' = NoMessage
          /\ UNCHANGED <<queue, closed, control, excess>>
      BY SMTT(30), <2>5 DEF ReleasePermit, HandInv
    <3>5. Len(InHand) = 1 /\ Len(InHand') = 0 /\ Len(queue) \in Nat
      BY SMTT(30), <1>0, <3>4 DEF InHand
    <3> QED
      BY SMTT(30), <1>n, <1>2, <3>2, <3>3, <3>4, <3>5
  <2>6. CASE OnCloseDequeue
    BY <1>0, <2>6 DEF OnCloseDequeue, TraceInv
  <2> QED
    BY SMTT(30), <1>6, <2>1, <2>2, <2>3, <2>4, <2>5, <2>6
    DEF ConsumerStep, RecvStep
<1> QED
  BY SMTT(30), <1>4, <1>5, <1>6

\* No unit of capacity is lost or doubled while the mailbox is open.
THEOREM PermitsConserved == Spec => []PermitsBalance
<1> DEFINE I == MailboxInv /\ HandInv /\ Balance
<1>1. Init => I
  <2> SUFFICES ASSUME Init PROVE I
    BY SMTT(30)
  <2>1. Holders(pc) = {}
    BY SMTT(30) DEF Init, Holders
  <2>2. Balance
    BY SMTT(30), <2>1, FS_EmptySet, CapacityAssumption
    DEF CapacityAssumption, Init, Balance, InHand
  <2> QED
    BY <2>2, MailboxInit DEF Init, HandInv
<1>2. I /\ [Next]_vars => I'
  <2> SUFFICES ASSUME I, [Next]_vars PROVE I'
    OBVIOUS
  <2>1. MailboxInv' /\ HandInv'
    BY MailboxStep, HandStep
  <2>2. CASE Next
    BY SMTT(30), <2>1, <2>2, BalanceSender, BalanceOthers DEF Next
  <2>3. CASE UNCHANGED vars
    <3>1. Balance'
      BY <2>3 DEF vars, Balance, InHand, senderVars, consumerVars
    <3> QED
      BY SMTT(30), <2>1, <3>1
  <2> QED
    BY <2>2, <2>3
<1>3. I => PermitsBalance
  BY DEF Balance, Holders, PermitsBalance, In
<1> QED
  BY <1>1, <1>2, <1>3, PTL DEF Spec

\* All of the above at once: the invariant of the mailbox.
THEOREM MailboxIsSound == Spec => []MailboxSound
BY TypeCorrect, PermitsConserved, WakeupNotLost, TraceIsKnown, OneDequeuer,
   ClosedComesLast, PTL DEF MailboxSound
=============================================================================
