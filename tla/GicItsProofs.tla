---------------------------- MODULE GicItsProofs ----------------------------
(***************************************************************************)
(* With any number of CPUs, LPIs and slots: the ring of the ITS implements *)
(* the command queue, the entries number the LPIs alike, and a stale       *)
(* configuration is acted on only while its commands are on their way.     *)
(***************************************************************************)
EXTENDS GicIts, SequenceTheorems, TLAPS

-----------------------------------------------------------------------------
(* The ring.                                                               *)

LEMMA RingIs ==
    /\ \A s \in 0 .. Slots - 1 : Ring(s) = s
    /\ \A s \in Slots .. 2 * Slots - 1 : Ring(s) = s - Slots
    /\ \A s \in -Slots .. -1 : Ring(s) = s + Slots
<1> DEFINE N == Slots
<1>1. N \in Nat /\ N > 0
  BY GicItsAssumption
<1> SUFFICES /\ \A s \in 0 .. N - 1 : s % N = s
             /\ \A s \in N .. 2 * N - 1 : s % N = s - N
             /\ \A s \in -N .. -1 : s % N = s + N
  BY DEF Ring
<1> HIDE DEF N
<1>2. ASSUME NEW s \in 0 .. N - 1 PROVE s % N = s
  BY <1>1
<1>3. ASSUME NEW s \in N .. 2 * N - 1 PROVE s % N = s - N
  BY <1>1
<1>4. ASSUME NEW s \in -N .. -1 PROVE s % N = s + N
  BY <1>1
<1> QED BY <1>2, <1>3, <1>4

R == 0 .. Slots - 1

\* Where n slots further is, and how far it is from there back.
LEMMA RingPlace ==
    ASSUME NEW r \in R, NEW n \in 0 .. Slots
    PROVE  /\ Ring(r + n) = IF r + n < Slots THEN r + n ELSE r + n - Slots
           /\ Ring(r + n) \in R
<1>1. Slots \in Nat /\ Slots > 0
  BY GicItsAssumption
<1>2. r \in Int /\ 0 <= r /\ r < Slots /\ n \in Int /\ 0 <= n /\ n <= Slots
  BY <1>1 DEF R
<1>3. CASE r + n < Slots
  <2>1. r + n \in 0 .. Slots - 1
    BY <1>1, <1>2, <1>3
  <2>2. Ring(r + n) = r + n
    BY <2>1, RingIs
  <2> QED BY <1>3, <2>1, <2>2 DEF R
<1>4. CASE ~(r + n < Slots)
  <2>1. PICK s \in Slots .. 2 * Slots - 1 : s = r + n
    BY <1>1, <1>2, <1>4
  <2>2. Ring(r + n) = r + n - Slots
    BY <1>1, <1>2, <2>1, RingIs
  <2>3. r + n - Slots \in 0 .. Slots - 1
    BY <1>1, <1>2, <1>4
  <2> QED BY <1>4, <2>2, <2>3 DEF R
<1> QED BY <1>3, <1>4

LEMMA RingLag ==
    ASSUME NEW r \in R, NEW w \in R
    PROVE  /\ Ring(w - r) = IF r <= w THEN w - r ELSE w - r + Slots
           /\ Ring(w - r) \in Nat /\ Ring(w - r) < Slots
           /\ Ring(w - r) = 0 <=> r = w
           /\ r \in Int /\ w \in Int /\ 0 <= r /\ r < Slots /\ 0 <= w /\ w < Slots /\ Slots \in Nat
<1>1. Slots \in Nat /\ Slots > 0
  BY GicItsAssumption
<1>2. r \in Int /\ 0 <= r /\ r < Slots /\ w \in Int /\ 0 <= w /\ w < Slots
  BY <1>1 DEF R
<1>3. CASE r <= w
  <2>1. w - r \in 0 .. Slots - 1
    BY <1>1, <1>2, <1>3
  <2> QED BY <1>1, <1>2, <1>3, <2>1, RingIs
<1>4. CASE ~(r <= w)
  <2>1. w - r \in -Slots .. -1
    BY <1>1, <1>2, <1>4
  <2> QED BY <1>1, <1>2, <1>4, <2>1, RingIs
<1> QED BY <1>1, <1>2, <1>3, <1>4

LEMMA NextSlot == \A s \in R : next_cmd_q_slot(s) = Ring(s + 1) /\ Past(s) = Ring(s + 1)
<1> SUFFICES ASSUME NEW s \in R PROVE next_cmd_q_slot(s) = Ring(s + 1) /\ Past(s) = Ring(s + 1)
  OBVIOUS
<1>1. s \in Int /\ 0 <= s /\ s < Slots /\ Slots \in Nat /\ Slots > 0
  BY GicItsAssumption DEF R
<1>2. Ring(s + 1) = IF s + 1 < Slots THEN s + 1 ELSE s + 1 - Slots
  <2>1. 1 \in 0 .. Slots
    BY <1>1
  <2> QED BY <2>1, RingPlace
<1>3. Past(s) = Ring(s + 1)
  BY <1>1, <1>2 DEF Past
<1> QED BY <1>3 DEF next_cmd_q_slot, Ring

LEMMA RingTwo == \A s \in R : /\ Ring(s) = s /\ Ring(s + 1) \in R /\ Ring(s + 2) \in R /\ Ring(s + 3) \in R
                             /\ Ring(Ring(s + 1) + 1) = Ring(s + 2)
                             /\ Ring(Ring(s + 2) + 1) = Ring(s + 3)
                             /\ s # Ring(s + 1) /\ s # Ring(s + 2) /\ Ring(s + 1) # Ring(s + 2)
<1> SUFFICES ASSUME NEW s \in R
             PROVE  /\ Ring(s) = s /\ Ring(s + 1) \in R /\ Ring(s + 2) \in R /\ Ring(s + 3) \in R
                    /\ Ring(Ring(s + 1) + 1) = Ring(s + 2)
                    /\ Ring(Ring(s + 2) + 1) = Ring(s + 3)
                    /\ s # Ring(s + 1) /\ s # Ring(s + 2) /\ Ring(s + 1) # Ring(s + 2)
  OBVIOUS
<1>1. Slots \in Nat /\ Slots > 3 /\ s \in Int /\ 0 <= s /\ s < Slots
  BY GicItsAssumption, RoomAssumption DEF R
<1>2. 1 \in 0 .. Slots /\ 2 \in 0 .. Slots /\ 3 \in 0 .. Slots
  BY <1>1
<1>3. /\ Ring(s + 1) = IF s + 1 < Slots THEN s + 1 ELSE s + 1 - Slots
      /\ Ring(s + 2) = IF s + 2 < Slots THEN s + 2 ELSE s + 2 - Slots
      /\ Ring(s + 3) = IF s + 3 < Slots THEN s + 3 ELSE s + 3 - Slots
      /\ Ring(s + 1) \in R /\ Ring(s + 2) \in R /\ Ring(s + 3) \in R
  BY <1>2, RingPlace
<1>4. /\ Ring(Ring(s + 1) + 1) = IF Ring(s + 1) + 1 < Slots THEN Ring(s + 1) + 1 ELSE Ring(s + 1) + 1 - Slots
      /\ Ring(Ring(s + 2) + 1) = IF Ring(s + 2) + 1 < Slots THEN Ring(s + 2) + 1 ELSE Ring(s + 2) + 1 - Slots
  BY <1>2, <1>3, RingPlace
<1>5. Ring(s) = s
  BY RingIs DEF R
<1> QED BY <1>1, <1>3, <1>4, <1>5

\* The commands between two slots.
QueueOf(r, w, mem) == [i \in 1 .. Ring(w - r) |-> mem[Ring(r + i - 1)]]

LEMMA QueueSeq ==
    ASSUME NEW S, NEW mem \in [R -> S], NEW r \in R, NEW w \in R
    PROVE  /\ QueueOf(r, w, mem) \in Seq(S)
           /\ Len(QueueOf(r, w, mem)) = Ring(w - r)
<1>1. Ring(w - r) \in Nat /\ Ring(w - r) < Slots /\ Slots \in Nat /\ r \in Int
  BY RingLag
<1>2. \A i \in 1 .. Ring(w - r) : Ring(r + i - 1) \in R
  <2> SUFFICES ASSUME NEW i \in 1 .. Ring(w - r) PROVE Ring(r + i - 1) \in R
    OBVIOUS
  <2>1. i - 1 \in 0 .. Slots /\ r + (i - 1) = r + i - 1
    BY <1>1
  <2> QED BY <2>1, RingPlace
<1>3. QueueOf(r, w, mem) \in [1 .. Ring(w - r) -> S]
  BY <1>2 DEF QueueOf
<1> QED BY <1>1, <1>3

\* The ITS goes on to the next slot.
LEMMA QueueTail ==
    ASSUME NEW S, NEW mem \in [R -> S], NEW r \in R, NEW w \in R, r # w,
           NEW r1 \in R, r1 = Ring(r + 1)
    PROVE  /\ QueueOf(r, w, mem) # <<>>
           /\ Ring(w - r1) = Ring(w - r) - 1
           /\ QueueOf(r1, w, mem) = Tail(QueueOf(r, w, mem))
<1> DEFINE q == QueueOf(r, w, mem)
           t == QueueOf(r1, w, mem)
<1>1. /\ Ring(w - r) = IF r <= w THEN w - r ELSE w - r + Slots
      /\ Ring(w - r) \in Nat /\ Ring(w - r) < Slots /\ Ring(w - r) # 0
      /\ r \in Int /\ w \in Int /\ 0 <= r /\ r < Slots /\ 0 <= w /\ w < Slots /\ Slots \in Nat
  BY RingLag
<1>2. r1 \in Int /\ r1 = IF r + 1 < Slots THEN r + 1 ELSE r + 1 - Slots
  <2>1. 1 \in 0 .. Slots
    BY <1>1
  <2> QED BY <1>1, <2>1, RingPlace
<1>3. q \in Seq(S) /\ Len(q) = Ring(w - r) /\ \A i \in 1 .. Ring(w - r) : q[i] = mem[Ring(r + i - 1)]
  <2>1. q \in Seq(S) /\ Len(q) = Ring(w - r)
    BY QueueSeq, ZenonT(40)
  <2> QED BY <2>1 DEF QueueOf
<1>4. /\ t \in Seq(S) /\ Len(t) = Ring(w - r1)
      /\ \A i \in 1 .. Ring(w - r1) : t[i] = mem[Ring(r1 + i - 1)]
  <2>1. t \in Seq(S) /\ Len(t) = Ring(w - r1)
    BY QueueSeq, ZenonT(40)
  <2> QED BY <2>1 DEF QueueOf
<1>5. Ring(w - r1) = IF r1 <= w THEN w - r1 ELSE w - r1 + Slots
  BY <1>2, RingLag
<1>6. Ring(w - r1) = Ring(w - r) - 1
  BY <1>1, <1>2, <1>5
<1>7. q # <<>>
  BY <1>1, <1>3
<1>8. /\ Tail(q) \in Seq(S) /\ Len(Tail(q)) = Len(q) - 1
      /\ \A i \in 1 .. Len(Tail(q)) : Tail(q)[i] = q[i + 1]
  BY <1>3, <1>7, HeadTailProperties
<1>9. ASSUME NEW i \in 1 .. Len(t) PROVE t[i] = Tail(q)[i]
  <2>1. i \in Int /\ i >= 1 /\ i <= Ring(w - r) - 1 /\ i + 1 \in 1 .. Ring(w - r)
    BY <1>1, <1>4, <1>6
  <2>2. Tail(q)[i] = mem[Ring(r + i)]
    <3>1. r + (i + 1) - 1 = r + i
      BY <1>1, <2>1
    <3> QED BY <1>3, <1>8, <2>1, <3>1
  <2>3. Ring(r1 + (i - 1)) = IF r1 + (i - 1) < Slots THEN r1 + (i - 1) ELSE r1 + (i - 1) - Slots
    <3>1. i - 1 \in 0 .. Slots
      BY <1>1, <2>1
    <3> QED BY <1>2, <3>1, RingPlace
  <2>4. Ring(r + i) = IF r + i < Slots THEN r + i ELSE r + i - Slots
    <3>1. i \in 0 .. Slots
      BY <1>1, <2>1
    <3> QED BY <3>1, RingPlace
  <2>5. r1 \in Int /\ r1 + (i - 1) = r1 + i - 1
    BY <1>1, <1>2, <2>1
  <2>6. Ring(r1 + i - 1) = Ring(r + i)
    <3>1. CASE r + 1 < Slots
      <4>1. r1 + i - 1 = r + i
        BY <1>1, <1>2, <2>1, <3>1
      <4> QED BY <4>1
    <3>2. CASE ~(r + 1 < Slots)
      <4>1. r + 1 = Slots /\ r1 = 0
        BY <1>1, <1>2, <3>2
      <4>2. Ring(r1 + (i - 1)) = i - 1
        BY <1>1, <2>1, <2>3, <4>1
      <4>3. Ring(r + i) = i - 1
        BY <1>1, <2>1, <2>4, <4>1
      <4> QED BY <2>5, <4>2, <4>3
    <3> QED BY <3>1, <3>2
  <2> QED BY <1>4, <2>2, <2>6
<1> HIDE DEF q, t
<1>10. Len(t) = Len(Tail(q))
  BY <1>1, <1>3, <1>4, <1>6, <1>8
<1>11. t = Tail(q)
  BY <1>4, <1>8, <1>9, <1>10, SeqEqual
<1> QED BY <1>2, <1>6, <1>7, <1>11 DEF q, t

\* Slots behind the write offset are those behind the commands there are.
LEMMA RingSum ==
    ASSUME NEW r \in R, NEW w \in R, NEW n \in Nat, Ring(w - r) + n < Slots,
           NEW w1 \in R, w1 = Ring(w + n)
    PROVE  /\ Ring(w1 - r) = Ring(w - r) + n
           /\ \A j \in 1 .. n : Ring(w + j - 1) = Ring(r + (Ring(w - r) + j) - 1)
<1>1. PICK lag \in Nat : lag = Ring(w - r)
  BY RingLag
<1>2. /\ lag = IF r <= w THEN w - r ELSE w - r + Slots
      /\ r \in Int /\ w \in Int /\ 0 <= r /\ r < Slots /\ 0 <= w /\ w < Slots /\ Slots \in Nat
      /\ lag + n < Slots /\ n \in 0 .. Slots
  BY <1>1, RingLag
<1>3. w1 \in Int /\ w1 = IF w + n < Slots THEN w + n ELSE w + n - Slots
  <2>1. Ring(w + n) = IF w + n < Slots THEN w + n ELSE w + n - Slots
    BY <1>2, RingPlace, Zenon
  <2> QED BY <1>2, <2>1
<1>4. Ring(w1 - r) = IF r <= w1 THEN w1 - r ELSE w1 - r + Slots
  BY RingLag, Zenon
<1>5. Ring(w1 - r) = lag + n
  BY <1>2, <1>3, <1>4
<1>6. ASSUME NEW j \in 1 .. n PROVE Ring(w + j - 1) = Ring(r + (lag + j) - 1)
  <2>1. PICK i \in 0 .. Slots : i = j - 1
    BY <1>2
  <2>2. PICK k1 \in 0 .. Slots : k1 = lag + j - 1
    BY <1>2
  <2>3. Ring(w + i) = IF w + i < Slots THEN w + i ELSE w + i - Slots
    BY RingPlace, Zenon
  <2>4. Ring(r + k1) = IF r + k1 < Slots THEN r + k1 ELSE r + k1 - Slots
    BY RingPlace, Zenon
  <2>5. w + j - 1 = w + i /\ r + (lag + j) - 1 = r + k1
    BY <1>2, <2>1, <2>2
  <2>6. Ring(w + i) = Ring(r + k1)
    BY <1>2, <2>1, <2>2, <2>3, <2>4
  <2> QED BY <2>5, <2>6
<1> QED BY <1>1, <1>5, <1>6

\* The commands of the queue are kept, and others written behind them.
KeptIn(mem, new, r, w) ==
    \A i \in 1 .. Ring(w - r) : new[Ring(r + i - 1)] = mem[Ring(r + i - 1)]
Written(new, w, batch) == \A j \in 1 .. Len(batch) : new[Ring(w + j - 1)] = batch[j]

\* Commands that are written behind it, as long as there is room, are issued by
\* one store of the write offset.
LEMMA QueueIssue ==
    ASSUME NEW S, NEW mem \in [R -> S], NEW r \in R, NEW w \in R, NEW batch \in Seq(S),
           NEW new \in [R -> S], NEW w1 \in R, w1 = Ring(w + Len(batch)),
           Ring(w - r) + Len(batch) < Slots,
           KeptIn(mem, new, r, w), Written(new, w, batch)
    PROVE  QueueOf(r, w1, new) = QueueOf(r, w, mem) \o batch
<1> USE DEF KeptIn, Written
<1> DEFINE q == QueueOf(r, w, mem)
           t == QueueOf(r, w1, new)
<1>1. PICK lag \in Nat : lag = Ring(w - r)
  BY RingLag
<1>2. PICK n \in Nat : n = Len(batch)
  OBVIOUS
<1>3. Ring(w1 - r) = lag + n /\ \A j \in 1 .. n : Ring(w + j - 1) = Ring(r + (lag + j) - 1)
  <2>1. Ring(w - r) + n < Slots /\ w1 = Ring(w + n)
    BY <1>2
  <2>2. /\ Ring(w1 - r) = Ring(w - r) + n
        /\ \A j \in 1 .. n : Ring(w + j - 1) = Ring(r + (Ring(w - r) + j) - 1)
    BY <2>1, RingSum, Zenon
  <2> QED BY <1>1, <2>2, Zenon
<1>4. q \in Seq(S) /\ Len(q) = lag /\ \A i \in 1 .. lag : q[i] = mem[Ring(r + i - 1)]
  <2>1. q \in Seq(S) /\ Len(q) = Ring(w - r)
    BY QueueSeq, ZenonT(40)
  <2> QED BY <1>1, <2>1 DEF QueueOf
<1>5. t \in Seq(S) /\ Len(t) = lag + n /\ \A i \in 1 .. lag + n : t[i] = new[Ring(r + i - 1)]
  <2>1. t \in Seq(S) /\ Len(t) = Ring(w1 - r)
    BY QueueSeq, ZenonT(40)
  <2> QED BY <1>3, <2>1 DEF QueueOf
<1> HIDE DEF q, t
<1>6. /\ q \o batch \in Seq(S) /\ Len(q \o batch) = lag + n
      /\ \A i \in 1 .. lag + n : (q \o batch)[i] = IF i <= lag THEN q[i] ELSE batch[i - lag]
  BY <1>2, <1>4, ConcatProperties, ZenonT(40)
<1>7. ASSUME NEW i \in 1 .. lag + n PROVE t[i] = (q \o batch)[i]
  <2>1. CASE i <= lag
    <3>1. i \in 1 .. lag
      BY <2>1
    <3> QED BY <1>1, <1>4, <1>5, <1>6, <2>1, <3>1
  <2>2. CASE ~(i <= lag)
    <3>1. PICK j \in 1 .. n : i = lag + j /\ j = i - lag
      BY <2>2
    <3>2. (q \o batch)[i] = batch[j]
      BY <1>6, <2>2, <3>1
    <3>3. batch[j] = new[Ring(w + j - 1)]
      BY <1>2, <3>1
    <3>4. Ring(w + j - 1) = Ring(r + i - 1)
      BY <1>3, <3>1
    <3> QED BY <1>5, <3>2, <3>3, <3>4
  <2> QED BY <2>1, <2>2
<1>8. t = q \o batch
  BY <1>5, <1>6, <1>7, SeqEqual
<1> QED BY <1>8 DEF q, t

-----------------------------------------------------------------------------
(* The queue.                                                              *)

Before == {"config", "quiesce", "collections", "queue"}
Critical == {"table", "invall", "sync", "cwriter", "unlock"}
Cmds == {NoCmd, Invall(0), Sync(Target(RDbase))}
            \union UNION {{Mapc(Icid(c), c), Sync(c), Invall(Icid(c))} : c \in Cpus}

\* The CPU that runs the startup program leaves an empty queue behind.
RingInv ==
    /\ slots \in [R -> Cmds] /\ creader \in R /\ cwriter \in R
    /\ cpu \in Cpus
    /\ pc \in [Cpus -> Critical \union {"boot", "thread", "load", "wfe", "store"}]
    /\ x3 \in [Cpus -> R] /\ k \in [Cpus -> Nat]
    /\ boot \in Before => creader = 0 /\ cwriter = 0
    /\ boot \in {"enable", "issue"} => creader = cwriter
    /\ boot # "kernel" => \A c \in Cpus : pc[c] = "boot"

\* One CPU, at most, is between ldaxr / stxr and stlr.
LockInv ==
    /\ \A c, d \in Cpus : pc[c] \in Critical /\ pc[d] \in Critical => c = d
    /\ \A c \in Cpus : pc[c] \in Critical => lock = 1
    /\ \A c \in Cpus : pc[c] = "store" /\ c \in monitor => lock = 0

\* What it has written behind the write offset, where there was room.
BatchInv ==
    \A c \in Cpus :
        /\ pc[c] = "invall" => x3[c] = cwriter /\ k[c] = 0 /\ Lag <= MaxLag
        /\ pc[c] = "sync" => /\ x3[c] = Ring(cwriter + 1) /\ k[c] = 0 /\ Lag <= MaxLag
                             /\ slots[cwriter] = Invall(0)
        /\ pc[c] = "cwriter" => /\ x3[c] = Ring(cwriter + 2) /\ Lag <= MaxLag
                                /\ slots[cwriter] = Invall(0)
                                /\ slots[Ring(cwriter + 1)] = Sync(Target(RDbase))

QInv == RingInv /\ LockInv /\ BatchInv

Issued(batch) == Queued' = Queued \o batch
Executed == Queued # <<>> /\ Queued' = Tail(Queued)
Batches == {MapBatch(c) : c \in Cpus} \union {<<Invall(0), Sync(Target(RDbase))>>}

LEMMA EmptyQueue ==
    ASSUME NEW r \in R, NEW mem
    PROVE  QueueOf(r, r, mem) = <<>>
<1>1. Ring(r - r) = 0
  BY RingLag
<1> QED BY <1>1 DEF QueueOf

LEMMA QueuedNow == QInv => Queued = QueueOf(creader, cwriter, slots)
<1> SUFFICES ASSUME QInv PROVE Queued = QueueOf(creader, cwriter, slots)
  OBVIOUS
<1>1. CASE boot \in Before
  BY <1>1, EmptyQueue DEF QInv, RingInv, Queued, Before
<1>2. CASE boot \notin Before
  BY <1>2 DEF Queued, QueueOf, Lag, Before
<1> QED BY <1>1, <1>2

LEMMA QueuedNext == QInv' => Queued' = QueueOf(creader', cwriter', slots')
<1> SUFFICES ASSUME QInv' PROVE Queued' = QueueOf(creader', cwriter', slots')
  OBVIOUS
<1>1. CASE boot' \in Before
  BY <1>1, EmptyQueue DEF QInv, RingInv, Queued, Before
<1>2. CASE boot' \notin Before
  BY <1>2 DEF Queued, QueueOf, Lag, Before
<1> QED BY <1>1, <1>2

\* A step that does nothing to the ring or the lock.
LEMMA ApartStep ==
    ASSUME QInv, UNCHANGED <<slots, creader, cwriter, boot, cpu, pc, x3, k, lock, monitor>>
    PROVE  QInv' /\ Queued' = Queued
<1>1. QInv'
  BY DEF QInv, RingInv, LockInv, BatchInv, Lag
<1> QED BY <1>1 DEF Queued, Lag

\* A step of the startup program that leaves an empty queue empty.
LEMMA SetupKeeps ==
    ASSUME QInv, creader = cwriter, creader' = cwriter', cwriter' \in R, slots' \in [R -> Cmds],
           boot # "kernel", boot' # "kernel", boot' \in Before => creader' = 0,
           UNCHANGED <<cpu, pc, x3, k, lock, monitor>>
    PROVE  QInv' /\ Queued' = Queued
<1>1. QInv'
  BY DEF QInv, RingInv, LockInv, BatchInv, Critical
<1>2. Queued = <<>> /\ Queued' = <<>>
  BY <1>1, QueuedNow, QueuedNext, EmptyQueue DEF QInv, RingInv
<1> QED BY <1>1, <1>2

LEMMA NoCmdIs == NoCmd \in Cmds /\ 0 \in R
BY GicItsAssumption DEF Cmds, R

LEMMA SetupSteps ==
    ASSUME QInv, ConfigTable \/ DeviceTable \/ CollectionTable \/ ItsQueue \/ ItsEnable
    PROVE  QInv' /\ Queued' = Queued
<1> USE DEF SetupStep, BootStep, TableStep, lockVars
<1>1. CASE ConfigTable
  BY <1>1, SetupKeeps, NoCmdIs DEF ConfigTable, QInv, RingInv, Before
<1>2. CASE DeviceTable
  BY <1>2, SetupKeeps, NoCmdIs DEF DeviceTable, QInv, RingInv, Before
<1>3. CASE CollectionTable
  BY <1>3, SetupKeeps, NoCmdIs DEF CollectionTable, QInv, RingInv, Before
<1>4. CASE ItsQueue
  <2>1. slots' \in [R -> Cmds]
    BY <1>4, NoCmdIs DEF ItsQueue, R
  <2> QED BY <1>4, <2>1, SetupKeeps, NoCmdIs DEF ItsQueue, QInv, RingInv, Before
<1>5. CASE ItsEnable
  BY <1>5, SetupKeeps DEF ItsEnable, QInv, RingInv, Before
<1> QED BY <1>1, <1>2, <1>3, <1>4, <1>5

\* The three commands for a CPU are issued together.
LEMMA IssueStep ==
    ASSUME QInv, Issue
    PROVE  QInv' /\ MapBatch(cpu) \in Batches /\ Issued(MapBatch(cpu))
<1> DEFINE s1 == Ring(cwriter + 1)
           s2 == Ring(cwriter + 2)
           b == MapBatch(cpu)
<1>1. /\ boot = "issue" /\ boot' = "poll" /\ creader = cwriter /\ cwriter \in R /\ cpu \in Cpus
      /\ UNCHANGED <<creader, cpu, pc, x3, k, lock, monitor>>
      /\ slots \in [R -> Cmds]
  BY DEF Issue, BootStep, lockVars, QInv, RingInv
<1>2. /\ s1 \in R /\ s2 \in R /\ Ring(cwriter + 3) \in R /\ Ring(cwriter) = cwriter
      /\ cwriter # s1 /\ cwriter # s2 /\ s1 # s2
      /\ next_cmd_q_slot(cwriter) = s1 /\ next_cmd_q_slot(s1) = s2
      /\ next_cmd_q_slot(s2) = Ring(cwriter + 3)
  BY <1>1, RingTwo, NextSlot
<1>3. /\ slots' = [slots EXCEPT ![cwriter] = b[1], ![s1] = b[2], ![s2] = b[3]]
      /\ cwriter' = Ring(cwriter + 3)
  BY <1>2 DEF Issue
<1>4. /\ b \in Seq(Cmds) /\ Len(b) = 3 /\ b[1] \in Cmds /\ b[2] \in Cmds /\ b[3] \in Cmds
  <2>1. Mapc(Icid(cpu), cpu) \in Cmds /\ Sync(cpu) \in Cmds /\ Invall(Icid(cpu)) \in Cmds
    BY <1>1 DEF Cmds
  <2> QED BY <2>1 DEF MapBatch
<1> HIDE DEF s1, s2, b
<1>5. /\ slots' \in [R -> Cmds]
      /\ slots'[cwriter] = b[1] /\ slots'[s1] = b[2] /\ slots'[s2] = b[3]
  BY <1>1, <1>2, <1>3, <1>4
<1>6. QInv'
  BY <1>1, <1>2, <1>3, <1>5 DEF QInv, RingInv, LockInv, BatchInv, Critical, Before
<1>7. Ring(cwriter - creader) = 0 /\ Slots > 3 /\ Slots \in Nat /\ cwriter \in Int
  BY <1>1, RingLag, RoomAssumption
<1>8. Written(slots', cwriter, b)
  <2>1. \A j \in 1 .. 3 : j = 1 \/ j = 2 \/ j = 3
    OBVIOUS
  <2>2. cwriter + 1 - 1 = cwriter /\ cwriter + 2 - 1 = cwriter + 1 /\ cwriter + 3 - 1 = cwriter + 2
    BY <1>7
  <2> QED BY <1>2, <1>4, <1>5, <2>1, <2>2 DEF s1, s2, Written
<1>9. cwriter' \in R /\ cwriter' = Ring(cwriter + Len(b)) /\ Ring(cwriter - creader) + Len(b) < Slots
  BY <1>2, <1>3, <1>4, <1>7
<1>10. KeptIn(slots, slots', creader, cwriter)
  BY <1>7 DEF KeptIn
<1>11. QueueOf(creader, cwriter', slots') = QueueOf(creader, cwriter, slots) \o b
  <2>1. PICK w1 \in R, new \in [R -> Cmds], q \in Seq(Cmds) : w1 = cwriter' /\ new = slots' /\ q = b
    BY <1>4, <1>5, <1>9
  <2>2. /\ w1 = Ring(cwriter + Len(q)) /\ Ring(cwriter - creader) + Len(q) < Slots
        /\ KeptIn(slots, new, creader, cwriter) /\ Written(new, cwriter, q)
    BY <1>8, <1>9, <1>10, <2>1
  <2>3. creader \in R /\ cwriter \in R /\ slots \in [R -> Cmds]
    BY <1>1
  <2>4. QueueOf(creader, w1, new) = QueueOf(creader, cwriter, slots) \o q
    BY <2>2, <2>3, QueueIssue
  <2> QED BY <2>1, <2>4
<1>12. Issued(b)
  BY <1>1, <1>6, <1>11, QueuedNow, QueuedNext DEF Issued
<1>13. b \in Batches
  BY <1>1 DEF Batches, b
<1> QED BY <1>6, <1>12, <1>13 DEF b

LEMMA PollSteps ==
    ASSUME QInv, Poll \/ EnableLpis
    PROVE  QInv' /\ Queued' = Queued
<1>1. /\ boot = "poll" /\ boot' \in {"assert", "poll", "enable", "kernel"}
      /\ boot' = "enable" => creader = cwriter
      /\ boot' \in {"enable", "assert", "poll"} => pc' = pc
      /\ boot' = "kernel" => pc' = [c \in Cpus |-> "thread"]
      /\ cpu' \in Cpus
      /\ UNCHANGED <<slots, creader, cwriter, x3, k, lock, monitor>>
  <2>1. CASE Poll
    BY <2>1 DEF Poll, BootStep, lockVars, QInv, RingInv
  <2>2. CASE EnableLpis
    <3>1. cpu' \in Cpus
      BY <2>2, GicItsAssumption DEF EnableLpis, QInv, RingInv, Cpus
    <3> QED BY <2>2, <3>1 DEF EnableLpis, BootStep, lockVars, itsVars
  <2> QED BY <2>1, <2>2
<1>2. QInv'
  BY <1>1 DEF QInv, RingInv, LockInv, BatchInv, Critical, Before
<1>3. Queued' = Queued
  BY <1>1, <1>2, QueuedNow, QueuedNext
<1> QED BY <1>2, <1>3

\* The ITS takes the oldest command.
LEMMA ExecuteStep ==
    ASSUME QInv, Execute
    PROVE  QInv' /\ Executed
<1>1. /\ creader # cwriter /\ creader' = Ring(creader + 1) /\ creader \in R /\ cwriter \in R
      /\ slots \in [R -> Cmds]
      /\ UNCHANGED <<slots, cwriter, boot, cpu, pc, x3, k, lock, monitor>>
  BY DEF Execute, bootVars, lockVars, callVars, QInv, RingInv
<1>2. creader' \in R
  BY <1>1, RingTwo
<1>3. /\ QueueOf(creader, cwriter, slots) # <<>>
      /\ Ring(cwriter - creader') = Ring(cwriter - creader) - 1
      /\ QueueOf(creader', cwriter, slots) = Tail(QueueOf(creader, cwriter, slots))
  BY <1>1, <1>2, QueueTail
<1>4. Lag' = Lag - 1 /\ Lag \in Nat
  BY <1>1, <1>3, RingLag DEF Lag
<1>5. QInv'
  <2>1. RingInv' /\ LockInv'
    BY <1>1, <1>2 DEF QInv, RingInv, LockInv
  <2>2. BatchInv'
    <3>1. Lag <= MaxLag => Lag' <= MaxLag
      BY <1>4, GicItsAssumption
    <3> QED BY <1>1, <3>1 DEF QInv, BatchInv
  <2> QED BY <2>1, <2>2 DEF QInv
<1> QED BY <1>1, <1>3, <1>5, QueuedNow, QueuedNext DEF Executed

\* The callout, once it holds the lock, and the kernel before.
LEMMA CalloutIs ==
    ASSUME QInv, NEW c \in Cpus, NEW from, NEW to, from # "boot", Callout(c, from, to)
    PROVE  /\ boot = "kernel" /\ pc[c] = from /\ pc' = [pc EXCEPT ![c] = to]
           /\ UNCHANGED <<boot, cpu, creader>>
BY DEF Callout, bootVars, QInv, RingInv

LEMMA LockSteps ==
    ASSUME QInv, NEW c \in Cpus, LoadLock(c) \/ Wfe(c) \/ StoreLock(c)
    PROVE  QInv' /\ Queued' = Queued
<1>1. PICK from \in {"load", "wfe", "store"}, to \in {"load", "wfe", "store", "table"} :
         /\ Callout(c, from, to)
         /\ to = "table" => from = "store" /\ c \in monitor /\ lock' = 1 /\ monitor' = {}
         /\ to # "table" => lock' = lock /\ (monitor' = monitor \/ to = "wfe" \/ lock = 0)
         /\ monitor' \subseteq monitor \union {c}
         /\ to = "store" => lock = 0
         /\ UNCHANGED <<cwriter, slots, x3, k>>
  BY DEF LoadLock, Wfe, StoreLock, lockVars
<1>2. /\ boot = "kernel" /\ pc[c] = from /\ pc' = [pc EXCEPT ![c] = to]
      /\ UNCHANGED <<boot, cpu, creader>>
  BY <1>1, CalloutIs
<1>3. /\ pc'[c] = to /\ \A d \in Cpus : d # c => pc'[d] = pc[d]
      /\ pc' \in [Cpus -> Critical \union {"boot", "thread", "load", "wfe", "store"}]
  BY <1>1, <1>2 DEF QInv, RingInv, Critical
<1>4. RingInv'
  BY <1>1, <1>2, <1>3 DEF QInv, RingInv
<1>5. LockInv'
  <2>1. CASE to = "table"
    <3>1. lock = 0
      BY <1>1, <1>2, <2>1 DEF QInv, LockInv
    <3>2. \A d \in Cpus : d # c => pc'[d] \notin Critical
      BY <1>3, <3>1 DEF QInv, LockInv
    <3> QED BY <1>1, <1>3, <2>1, <3>2 DEF LockInv
  <2>2. CASE to # "table"
    BY <1>1, <1>2, <1>3, <2>2 DEF QInv, LockInv, Critical
  <2> QED BY <2>1, <2>2
<1>6. BatchInv'
  BY <1>1, <1>2, <1>3 DEF QInv, BatchInv, Lag
<1> QED BY <1>1, <1>2, <1>4, <1>5, <1>6 DEF QInv, Queued, Lag

\* A step inside of the critical section, or out of it.
LEMMA CriticalStep ==
    ASSUME QInv, NEW c \in Cpus, NEW from \in Critical, NEW to \in Critical \union {"thread"},
           Callout(c, from, to),
           UNCHANGED <<lock, monitor>> \/ (to = "thread" /\ monitor' = {})
    PROVE  /\ pc[c] = from /\ pc'[c] = to /\ boot = "kernel" /\ UNCHANGED <<boot, cpu, creader>>
           /\ \A d \in Cpus : d # c => pc'[d] = pc[d] /\ pc[d] \notin Critical /\ pc'[d] \notin Critical
           /\ pc' \in [Cpus -> Critical \union {"boot", "thread", "load", "wfe", "store"}]
           /\ LockInv'
<1>1. /\ boot = "kernel" /\ pc[c] = from /\ pc' = [pc EXCEPT ![c] = to]
      /\ UNCHANGED <<boot, cpu, creader>>
  BY CalloutIs DEF Critical
<1>2. pc'[c] = to /\ \A d \in Cpus : d # c => pc'[d] = pc[d]
  BY <1>1 DEF QInv, RingInv
<1>3. \A d \in Cpus : d # c => pc[d] \notin Critical
  BY <1>1 DEF QInv, LockInv
<1>4. pc' \in [Cpus -> Critical \union {"boot", "thread", "load", "wfe", "store"}]
  BY <1>1 DEF QInv, RingInv
<1>5. LockInv'
  BY <1>1, <1>2, <1>3 DEF QInv, LockInv, Critical
<1> QED BY <1>1, <1>2, <1>3, <1>4, <1>5

LEMMA EditStep ==
    ASSUME QInv, NEW c \in Cpus, EditTable(c)
    PROVE  QInv' /\ Queued' = Queued
<1>1. /\ Lag <= MaxLag /\ Callout(c, "table", "invall")
      /\ x3' = [x3 EXCEPT ![c] = cwriter] /\ k' = [k EXCEPT ![c] = 0]
      /\ UNCHANGED <<cwriter, slots, lock, monitor>>
  BY DEF EditTable, lockVars
<1>2. /\ pc'[c] = "invall" /\ boot = "kernel" /\ UNCHANGED <<boot, cpu, creader>>
      /\ \A d \in Cpus : d # c => pc'[d] \notin Critical
      /\ pc' \in [Cpus -> Critical \union {"boot", "thread", "load", "wfe", "store"}]
      /\ LockInv'
  BY <1>1, CriticalStep DEF Critical
<1>3. RingInv'
  BY <1>1, <1>2 DEF QInv, RingInv
<1>4. BatchInv'
  BY <1>1, <1>2 DEF QInv, BatchInv, RingInv, Lag, Critical
<1> QED BY <1>1, <1>2, <1>3, <1>4 DEF QInv, Queued, Lag

\* What lies behind the write offset is not in the queue.
LEMMA BehindQueue ==
    ASSUME NEW r \in R, NEW w \in R, NEW n \in {0, 1}, Ring(w - r) <= MaxLag,
           NEW i \in 1 .. Ring(w - r)
    PROVE  Ring(r + i - 1) # Ring(w + n) /\ Ring(r + i - 1) \in R
<1>1. PICK lag \in Nat : lag = Ring(w - r)
  BY RingLag
<1>2. /\ lag = IF r <= w THEN w - r ELSE w - r + Slots
      /\ r \in Int /\ w \in Int /\ 0 <= r /\ r < Slots /\ 0 <= w /\ w < Slots /\ Slots \in Nat
      /\ lag + 2 < Slots /\ n \in 0 .. Slots
  BY <1>1, RingLag, RoomAssumption, GicItsAssumption
<1>3. PICK j \in 0 .. Slots : j = i - 1 /\ j < lag
  BY <1>1, <1>2
<1>4. Ring(w + n) = IF w + n < Slots THEN w + n ELSE w + n - Slots
  BY <1>2, RingPlace, Zenon
<1>5. Ring(r + j) = (IF r + j < Slots THEN r + j ELSE r + j - Slots) /\ Ring(r + j) \in R
  BY <1>3, RingPlace, Zenon
<1>6. r + i - 1 = r + j
  BY <1>1, <1>2, <1>3
<1>7. Ring(r + j) # Ring(w + n)
  BY <1>2, <1>3, <1>4, <1>5
<1> QED BY <1>5, <1>6, <1>7

LEMMA WriteSteps ==
    ASSUME QInv, NEW c \in Cpus, WriteInvall(c) \/ WriteSync(c)
    PROVE  QInv' /\ Queued' = Queued
<1>1. PICK from \in {"invall", "sync"}, to \in {"sync", "cwriter"}, cmd \in Cmds :
         /\ Callout(c, from, to) /\ Write(c, cmd)
         /\ \/ from = "invall" /\ to = "sync" /\ cmd = Invall(0) /\ k' = k
            \/ from = "sync" /\ to = "cwriter" /\ cmd = Sync(Target(RDbase)) /\ k' = [k EXCEPT ![c] = 1]
  <2>1. CASE WriteInvall(c)
    <3>1. pc[c] = "invall"
      BY <2>1 DEF WriteInvall, Callout
    <3>2. k[c] = 0
      BY <3>1 DEF QInv, BatchInv
    <3> QED BY <2>1, <3>2 DEF WriteInvall, Cmds
  <2>2. CASE WriteSync(c)
    <3>1. pc[c] = "sync"
      BY <2>2 DEF WriteSync, Callout
    <3>2. k[c] = 0
      BY <3>1 DEF QInv, BatchInv
    <3> QED BY <2>2, <3>2 DEF WriteSync, NumCollections, Cmds, QInv, RingInv
  <2> QED BY <2>1, <2>2
<1>2. /\ slots' = [slots EXCEPT ![x3[c]] = cmd] /\ x3' = [x3 EXCEPT ![c] = Past(@)]
      /\ UNCHANGED <<cwriter, lock, monitor>>
  BY <1>1 DEF Write, lockVars
<1>3. /\ pc[c] = from /\ pc'[c] = to /\ boot = "kernel" /\ UNCHANGED <<boot, cpu, creader>>
      /\ \A d \in Cpus : d # c => pc'[d] \notin Critical
      /\ pc' \in [Cpus -> Critical \union {"boot", "thread", "load", "wfe", "store"}]
      /\ LockInv'
  BY <1>1, <1>2, CriticalStep DEF Critical
<1>4. /\ slots \in [R -> Cmds] /\ creader \in R /\ cwriter \in R /\ x3 \in [Cpus -> R]
      /\ k \in [Cpus -> Nat] /\ Lag <= MaxLag
      /\ x3[c] = IF from = "invall" THEN cwriter ELSE Ring(cwriter + 1)
      /\ from = "sync" => slots[cwriter] = Invall(0)
      /\ k[c] = 0
  BY <1>1, <1>3 DEF QInv, RingInv, BatchInv
<1>5. /\ Ring(cwriter) = cwriter /\ Ring(cwriter + 1) \in R /\ Ring(cwriter + 2) \in R
      /\ Ring(Ring(cwriter + 1) + 1) = Ring(cwriter + 2) /\ cwriter # Ring(cwriter + 1)
  BY <1>4, RingTwo
<1>6. Past(x3[c]) = IF from = "invall" THEN Ring(cwriter + 1) ELSE Ring(cwriter + 2)
  BY <1>4, <1>5, NextSlot
<1>7. /\ slots' \in [R -> Cmds] /\ slots'[x3[c]] = cmd
      /\ \A s \in R : s # x3[c] => slots'[s] = slots[s]
  BY <1>2, <1>4, <1>5
<1>8. x3' \in [Cpus -> R] /\ x3'[c] = Past(x3[c])
  BY <1>2, <1>4, <1>5, <1>6
<1>9. k' \in [Cpus -> Nat] /\ (to = "sync" => k'[c] = 0)
  BY <1>1, <1>4
<1>10. RingInv'
  BY <1>2, <1>3, <1>4, <1>7, <1>8, <1>9 DEF QInv, RingInv
<1>11. BatchInv'
  <2>1. Lag' = Lag
    BY <1>2, <1>3 DEF Lag
  <2>2. to = "sync" => from = "invall" /\ slots'[cwriter] = Invall(0)
    BY <1>1, <1>4, <1>7
  <2>3. to = "cwriter" => /\ from = "sync" /\ slots'[cwriter] = Invall(0)
                          /\ slots'[Ring(cwriter + 1)] = Sync(Target(RDbase))
    BY <1>1, <1>4, <1>5, <1>7
  <2> QED BY <1>1, <1>2, <1>3, <1>4, <1>6, <1>8, <1>9, <2>1, <2>2, <2>3 DEF BatchInv, Critical
<1>12. \A i \in 1 .. Ring(cwriter - creader) : slots'[Ring(creader + i - 1)] = slots[Ring(creader + i - 1)]
  <2> SUFFICES ASSUME NEW i \in 1 .. Ring(cwriter - creader)
               PROVE  Ring(creader + i - 1) # x3[c] /\ Ring(creader + i - 1) \in R
    BY <1>7
  <2>1. Ring(cwriter - creader) <= MaxLag
    BY <1>4 DEF Lag
  <2>2. PICK n \in {0, 1} : x3[c] = Ring(cwriter + n)
    <3>1. Ring(cwriter + 0) = cwriter
      BY <1>4, <1>5, RingLag
    <3> QED BY <1>4, <3>1
  <2> QED BY <1>4, <2>1, <2>2, BehindQueue, Zenon
<1>13. Queued' = Queued
  <2>1. Queued = [i \in 1 .. Ring(cwriter - creader) |-> slots[Ring(creader + i - 1)]]
    BY <1>3 DEF Queued, Lag
  <2>2. Queued' = [i \in 1 .. Ring(cwriter - creader) |-> slots'[Ring(creader + i - 1)]]
    BY <1>2, <1>3 DEF Queued, Lag
  <2> QED BY <1>12, <2>1, <2>2
<1> QED BY <1>3, <1>10, <1>11, <1>13 DEF QInv

\* Its two commands are issued together.
LEMMA CwriterStep ==
    ASSUME QInv, NEW c \in Cpus, StoreCwriter(c)
    PROVE  QInv' /\ Issued(<<Invall(0), Sync(Target(RDbase))>>)
<1> DEFINE b == <<Invall(0), Sync(Target(RDbase))>>
<1>1. /\ Callout(c, "cwriter", "unlock") /\ cwriter' = x3[c]
      /\ UNCHANGED <<slots, lock, monitor, x3, k>>
  BY DEF StoreCwriter, lockVars
<1>2. /\ pc[c] = "cwriter" /\ pc'[c] = "unlock" /\ boot = "kernel" /\ UNCHANGED <<boot, cpu, creader>>
      /\ \A d \in Cpus : d # c => pc'[d] \notin Critical
      /\ pc' \in [Cpus -> Critical \union {"boot", "thread", "load", "wfe", "store"}]
      /\ LockInv'
  BY <1>1, CriticalStep DEF Critical
<1>3. /\ slots \in [R -> Cmds] /\ creader \in R /\ cwriter \in R /\ Lag <= MaxLag
      /\ x3[c] = Ring(cwriter + 2) /\ slots[cwriter] = b[1] /\ slots[Ring(cwriter + 1)] = b[2]
  BY <1>2 DEF QInv, RingInv, BatchInv
<1>4. b \in Seq(Cmds) /\ Len(b) = 2
  BY DEF Cmds
<1>5. Ring(cwriter) = cwriter /\ cwriter' \in R /\ cwriter' = Ring(cwriter + Len(b)) /\ cwriter \in Int
  BY <1>1, <1>3, <1>4, RingTwo, RingLag
<1>6. QInv'
  <2>1. RingInv'
    BY <1>1, <1>2, <1>5 DEF QInv, RingInv, Before
  <2>2. BatchInv'
    BY <1>2 DEF BatchInv, Critical
  <2> QED BY <1>2, <2>1, <2>2 DEF QInv
<1>7. Ring(cwriter - creader) + Len(b) < Slots
  BY <1>3, <1>4, RingLag, RoomAssumption, GicItsAssumption DEF Lag
<1>8. Written(slots', cwriter, b)
  <2>1. \A j \in 1 .. 2 : j = 1 \/ j = 2
    OBVIOUS
  <2>2. cwriter + 1 - 1 = cwriter /\ cwriter + 2 - 1 = cwriter + 1
    BY <1>5
  <2> QED BY <1>1, <1>3, <1>4, <1>5, <2>1, <2>2 DEF Written
<1> HIDE DEF b
<1>9. slots' = slots
  BY <1>1
<1>10. QueueOf(creader, cwriter', slots') = QueueOf(creader, cwriter, slots) \o b
  <2>1. PICK w1 \in R, new \in [R -> Cmds], q \in Seq(Cmds) : w1 = cwriter' /\ new = slots' /\ q = b
    BY <1>3, <1>4, <1>5, <1>9
  <2>2. /\ w1 = Ring(cwriter + Len(q)) /\ Ring(cwriter - creader) + Len(q) < Slots
        /\ KeptIn(slots, new, creader, cwriter) /\ Written(new, cwriter, q)
    BY <1>5, <1>7, <1>8, <1>9, <2>1 DEF KeptIn
  <2>3. creader \in R /\ cwriter \in R /\ slots \in [R -> Cmds]
    BY <1>3
  <2>4. QueueOf(creader, w1, new) = QueueOf(creader, cwriter, slots) \o q
    BY <2>2, <2>3, QueueIssue
  <2> QED BY <2>1, <2>4
<1>11. Issued(b)
  BY <1>2, <1>6, <1>10, QueuedNow, QueuedNext DEF Issued
<1> QED BY <1>6, <1>11 DEF b

LEMMA UnlockStep ==
    ASSUME QInv, NEW c \in Cpus, Unlock(c)
    PROVE  QInv' /\ Queued' = Queued
<1>1. /\ Callout(c, "unlock", "thread") /\ lock' = 0 /\ monitor' = {}
      /\ x3' = [x3 EXCEPT ![c] = 0] /\ k' = [k EXCEPT ![c] = 0]
      /\ UNCHANGED <<cwriter, slots>>
  BY DEF Unlock
<1>2. /\ pc'[c] = "thread" /\ boot = "kernel" /\ UNCHANGED <<boot, cpu, creader>>
      /\ \A d \in Cpus : d # c => pc'[d] \notin Critical
      /\ pc' \in [Cpus -> Critical \union {"boot", "thread", "load", "wfe", "store"}]
      /\ LockInv'
  BY <1>1, CriticalStep DEF Critical
<1>3. RingInv'
  BY <1>1, <1>2, NoCmdIs DEF QInv, RingInv
<1>4. BatchInv'
  BY <1>2 DEF BatchInv, Critical
<1> QED BY <1>1, <1>2, <1>3, <1>4 DEF QInv, Queued, Lag

LEMMA CallStep ==
    ASSUME QInv, NEW c \in Cpus, NEW v, NEW unmask, Call(c, v, unmask)
    PROVE  QInv' /\ Queued' = Queued
<1>1. /\ pc[c] = "thread" /\ pc' = [pc EXCEPT ![c] = "load"]
      /\ UNCHANGED <<boot, cpu, creader, cwriter, slots, lock, monitor, x3, k>>
  BY DEF Call, bootVars, itsVars, lockVars
<1>2. /\ pc'[c] = "load" /\ \A d \in Cpus : d # c => pc'[d] = pc[d]
      /\ pc' \in [Cpus -> Critical \union {"boot", "thread", "load", "wfe", "store"}]
  BY <1>1 DEF QInv, RingInv
<1>3. QInv'
  BY <1>1, <1>2 DEF QInv, RingInv, LockInv, BatchInv, Critical, Lag
<1> QED BY <1>1, <1>3 DEF Queued, Lag

\* Each step keeps the invariant, and is one of the queue's or none of them.
Moves == Queued' = Queued \/ Executed \/ \E batch \in Batches : Issued(batch)

LEMMA QueueStep == QInv /\ [Next]_vars => QInv' /\ Moves
<1> SUFFICES ASSUME QInv, [Next]_vars PROVE QInv' /\ Moves
  OBVIOUS
<1> USE DEF Moves
<1> USE DEF bootVars, itsVars, redistVars, lockVars, callVars
<1>1. CASE \E e \in Offered : AddLpiEntry(e)
  BY <1>1, ApartStep DEF AddLpiEntry
<1>2. CASE StartupStep
  BY <1>2, SetupSteps, IssueStep, PollSteps DEF StartupStep
<1>3. CASE Quiesce \/ Stall
  BY <1>3, ApartStep DEF Quiesce, Stall
<1>4. CASE Execute
  BY <1>4, ExecuteStep
<1>5. CASE \E r \in Cpus : Reload(r) \/ \E v \in Lpis : Fetch(r, v - ARM_GIC_LPI_MIN_IRQ)
  BY <1>5, ApartStep DEF Reload, Fetch
<1>6. ASSUME NEW c \in Cpus, Continue(c)
      PROVE  QInv' /\ Moves
  <2>1. CASE StoreCwriter(c)
    BY <2>1, CwriterStep DEF Batches
  <2> QED BY <1>6, <2>1, LockSteps, EditStep, WriteSteps, UnlockStep DEF Continue
<1>7. ASSUME NEW c \in Cpus, NEW v \in Lpis, NEW unmask \in BOOLEAN, Call(c, v, unmask)
      PROVE  QInv' /\ Moves
  BY <1>7, CallStep
<1>8. CASE UNCHANGED vars
  BY <1>8, ApartStep DEF vars
<1> QED BY <1>1, <1>2, <1>3, <1>4, <1>5, <1>6, <1>7, <1>8 DEF Next

LEMMA QueueInit == Init => QInv /\ Queued = <<>>
<1> SUFFICES ASSUME Init PROVE QInv /\ Queued = <<>>
  OBVIOUS
<1>1. slots \in [R -> Cmds] /\ creader \in R /\ cwriter \in R /\ 0 \in Cpus
  BY NoCmdIs, GicItsAssumption DEF Init, R, Cpus
<1>2. QInv
  BY <1>1, NoCmdIs DEF Init, QInv, RingInv, LockInv, BatchInv, Critical
<1> QED BY <1>2 DEF Init, Queued

\* The ring, its lock and the batch a callout is writing agree at every step: no
\* callout writes over a command that the ITS has not read, and a batch becomes
\* visible only as a whole (its.c, the LPI callouts).
THEOREM RingInvariant == Spec => []QInv
BY QueueInit, QueueStep, PTL DEF Spec

\* The ring with its lock, its wrap and its one store of the write offset is a
\* queue of whole batches, each command executed once and in order
\* (ImplementsCommandQueue; gic_v3_its.c and the LPI callouts).
THEOREM QueueImplemented == Spec => ImplementsCommandQueue
<1>1. Init => Commands!Init
  BY QueueInit DEF Commands!Init
<1>2. QInv /\ [Next]_vars => [Commands!Next]_Queued
  BY QueueStep DEF Moves, Executed, Issued, Batches, Commands!Next, Commands!Issue, Commands!Execute
<1> QED BY <1>1, <1>2, RingInvariant, PTL DEF Spec, ImplementsCommandQueue, Commands!Spec

-----------------------------------------------------------------------------
(* The numbers of the LPIs.                                                *)

\* gic_v3_lpi_add_entry() keeps the entries in order and counts their LPIs: if
\* they leave nothing out, the last LPI is inside of the table of that size.
LpiEntry == {e \in [base : Nat, num : Nat \ {0}] : e.base >= ARM_GIC_LPI_MIN_IRQ}
InOrder(list) == \A j \in DOMAIN list : \A i \in 1 .. j - 1 : LastVector(list[i]) < list[j].base

NumInv ==
    /\ entries \in Seq(LpiEntry) /\ InOrder(entries)
    /\ num_lpis \in Nat
    /\ Contiguous /\ entries # <<>> =>
          LastVector(entries[Len(entries)]) < ARM_GIC_LPI_MIN_IRQ + num_lpis

LEMMA LpiOf == \A v : v \in Lpis <=> \E i \in DOMAIN entries : Holds(entries[i], v)
BY DEF Lpis, Holds

LEMMA LpiOfNext == \A v : v \in Lpis' <=> \E i \in DOMAIN entries' : Holds(entries'[i], v)
BY DEF Lpis, Holds

LEMMA EntryBounds ==
    ASSUME NumInv, NEW i \in DOMAIN entries
    PROVE  /\ i \in 1 .. Len(entries) /\ Len(entries) \in Nat
           /\ entries[i].base \in Nat /\ entries[i].num \in Nat /\ entries[i].num >= 1
           /\ entries[i].base >= 8192 /\ LastVector(entries[i]) = entries[i].base + entries[i].num - 1
           /\ LastVector(entries[i]) \in Int
           /\ entries[1] \in LpiEntry /\ 1 \in DOMAIN entries
           /\ Holds(entries[i], entries[i].base)
<1>1. entries[i] \in LpiEntry /\ i \in 1 .. Len(entries) /\ Len(entries) \in Nat
  BY DEF NumInv
<1> QED BY <1>1 DEF LpiEntry, LastVector, Holds, ARM_GIC_LPI_MIN_IRQ, NumInv

\* No LPI is above those of the last entry, or below those of the first one.
LEMMA LpiRange ==
    ASSUME NumInv, NEW v \in Lpis
    PROVE  /\ v \in Int /\ v >= 8192 /\ v <= LastVector(entries[Len(entries)]) /\ v >= entries[1].base
           /\ Len(entries) \in DOMAIN entries
<1>1. PICK i \in DOMAIN entries : Holds(entries[i], v)
  BY LpiOf
<1>2. /\ i \in 1 .. Len(entries) /\ Len(entries) \in Nat /\ entries[i].base \in Nat
      /\ entries[i].base >= 8192 /\ LastVector(entries[i]) \in Int /\ 1 \in DOMAIN entries
  BY EntryBounds
<1>3. v \in Int /\ v >= entries[i].base /\ v <= LastVector(entries[i])
  BY <1>1, <1>2 DEF Holds
<1>4. Len(entries) \in DOMAIN entries
  BY <1>2 DEF NumInv
<1>5. v <= LastVector(entries[Len(entries)])
  <2>1. CASE i = Len(entries)
    BY <1>3, <2>1
  <2>2. CASE i # Len(entries)
    <3>1. i \in 1 .. Len(entries) - 1
      BY <1>2, <2>2
    <3>2. LastVector(entries[i]) < entries[Len(entries)].base
      BY <1>4, <3>1 DEF NumInv, InOrder
    <3> QED BY <1>2, <1>3, <1>4, <3>2, EntryBounds
  <2> QED BY <2>1, <2>2
<1>6. v >= entries[1].base
  <2>1. CASE i = 1
    BY <1>3, <2>1
  <2>2. CASE i # 1
    <3>1. 1 \in 1 .. i - 1
      BY <1>2, <2>2
    <3>2. LastVector(entries[1]) < entries[i].base
      BY <3>1 DEF NumInv, InOrder
    <3> QED BY <1>2, <1>3, <3>2, EntryBounds
  <2> QED BY <2>1, <2>2
<1> QED BY <1>2, <1>3, <1>4, <1>5, <1>6

LEMMA AddLpiKeeps == ASSUME NumInv, NEW e \in Offered, AddLpiEntry(e) PROVE NumInv'
<1> DEFINE n == Len(entries)
<1>1. /\ entries' = Append(entries, e) /\ num_lpis' = num_lpis + e.num
      /\ e.base >= ARM_GIC_LPI_MIN_IRQ
      /\ \A i \in DOMAIN entries : e.base > LastVector(entries[i])
  BY DEF AddLpiEntry
<1>2. e \in LpiEntry /\ e.base \in Nat /\ e.num \in Nat /\ e.num >= 1 /\ e.base >= 8192
  BY <1>1, GicItsAssumption DEF LpiEntry, ARM_GIC_LPI_MIN_IRQ
<1>3. /\ entries \in Seq(LpiEntry) /\ n \in Nat /\ DOMAIN entries = 1 .. n
      /\ entries' \in Seq(LpiEntry) /\ Len(entries') = n + 1 /\ entries'[n + 1] = e
      /\ DOMAIN entries' = 1 .. n + 1
      /\ \A i \in 1 .. n : entries'[i] = entries[i]
  BY <1>1, <1>2 DEF NumInv
<1> HIDE DEF n
<1>4. InOrder(entries')
  <2> SUFFICES ASSUME NEW j \in 1 .. n + 1, NEW i \in 1 .. j - 1
               PROVE  LastVector(entries'[i]) < entries'[j].base
    BY <1>3 DEF InOrder
  <2>1. i \in 1 .. n /\ (j = n + 1 \/ j \in 1 .. n)
    BY <1>3
  <2>2. LastVector(entries[i]) \in Int
    BY <1>3, <2>1, EntryBounds
  <2>3. CASE j = n + 1
    BY <1>1, <1>2, <1>3, <2>1, <2>2, <2>3
  <2>4. CASE j \in 1 .. n
    BY <1>3, <2>1, <2>4 DEF NumInv, InOrder
  <2> QED BY <2>1, <2>3, <2>4
<1>5. num_lpis' \in Nat /\ num_lpis \in Nat
  BY <1>1, <1>2 DEF NumInv
<1>6. ASSUME Contiguous' PROVE LastVector(e) < ARM_GIC_LPI_MIN_IRQ + num_lpis'
  <2>1. Holds(e, e.base) /\ LastVector(e) = e.base + e.num - 1
    BY <1>2 DEF Holds, LastVector
  <2>2. e.base \in Lpis'
    BY <1>3, <2>1, LpiOfNext
  <2>3. \A v \in Lpis' : v \in Lpis \/ Holds(e, v)
    BY <1>3, LpiOf, LpiOfNext
  <2>4. e.base = 8192 \/ e.base - 1 \in Lpis
    <3>1. e.base = 8192 \/ e.base - 1 \in Lpis'
      BY <1>6, <2>2 DEF Contiguous, ARM_GIC_LPI_MIN_IRQ
    <3>2. ~Holds(e, e.base - 1)
      BY <1>2 DEF Holds
    <3> QED BY <2>3, <3>1, <3>2
  <2>5. CASE e.base = 8192
    BY <1>1, <1>2, <1>5, <2>1, <2>5 DEF ARM_GIC_LPI_MIN_IRQ
  <2>6. CASE e.base - 1 \in Lpis
    <3>1. /\ e.base - 1 <= LastVector(entries[n]) /\ n \in DOMAIN entries /\ entries # <<>>
          /\ LastVector(entries[n]) \in Int
      BY <1>3, <2>6, LpiRange, EntryBounds DEF n
    <3>2. Contiguous
      <4> SUFFICES ASSUME NEW v \in Lpis, v # 8192 PROVE v - 1 \in Lpis
        BY DEF Contiguous, ARM_GIC_LPI_MIN_IRQ
      <4>1. v \in Lpis' /\ v \in Int /\ v <= LastVector(entries[n])
        BY <1>3, LpiOf, LpiOfNext, LpiRange DEF n
      <4>2. v - 1 \in Lpis'
        BY <1>6, <4>1 DEF Contiguous, ARM_GIC_LPI_MIN_IRQ
      <4>3. LastVector(entries[n]) < e.base
        BY <1>1, <3>1
      <4>4. ~Holds(e, v - 1)
        BY <1>2, <3>1, <4>1, <4>3 DEF Holds
      <4> QED BY <2>3, <4>2, <4>4
    <3>3. LastVector(entries[n]) < 8192 + num_lpis
      BY <3>1, <3>2 DEF NumInv, n, ARM_GIC_LPI_MIN_IRQ
    <3> QED BY <1>1, <1>2, <1>5, <2>1, <3>1, <3>3 DEF ARM_GIC_LPI_MIN_IRQ
  <2> QED BY <2>4, <2>5, <2>6
<1> QED BY <1>3, <1>4, <1>5, <1>6 DEF NumInv

LEMMA NumStep == NumInv /\ [Next]_vars => NumInv'
<1> SUFFICES ASSUME NumInv, [Next]_vars PROVE NumInv'
  OBVIOUS
<1>1. CASE \E e \in Offered : AddLpiEntry(e)
  BY <1>1, AddLpiKeeps
<1>2. CASE UNCHANGED <<entries, num_lpis>>
  BY <1>2 DEF NumInv, Contiguous, Lpis
<1>3. CASE StartupStep
  <2>1. UNCHANGED <<entries, num_lpis>>
    BY <1>3 DEF StartupStep, ConfigTable, DeviceTable, CollectionTable, ItsQueue, ItsEnable, Issue,
                Poll, EnableLpis, TableStep, SetupStep, BootStep
  <2> QED BY <1>2, <2>1
<1>4. CASE \/ Quiesce \/ Execute \/ Stall
           \/ \E r \in Cpus : Reload(r) \/ \E v \in Lpis : Fetch(r, v - ARM_GIC_LPI_MIN_IRQ)
           \/ \E c \in Cpus : Continue(c) \/ \E v \in Lpis, unmask \in BOOLEAN : Call(c, v, unmask)
           \/ UNCHANGED vars
  <2>1. UNCHANGED bootVars
    BY <1>4 DEF Quiesce, Execute, Stall, Reload, Fetch, Call, Continue, LoadLock, Wfe, StoreLock,
                EditTable, WriteInvall, WriteSync, StoreCwriter, Unlock, Callout, vars
  <2> QED BY <1>2, <2>1 DEF bootVars
<1> QED BY <1>1, <1>3, <1>4 DEF Next

\* What the id callout adds and the mask callout takes away.
LEMMA NumbersFollow == NumInv => LpiNumbersAgree
<1> SUFFICES ASSUME NumInv, Contiguous, NEW v \in Lpis
             PROVE  /\ VectorOf(v) = v
                    /\ IndexOf(v) = v - ARM_GIC_LPI_MIN_IRQ
                    /\ IndexOf(v) < num_lpis
  BY DEF LpiNumbersAgree, OrderIsEnough
<1>1. /\ v \in Int /\ v >= 8192 /\ v <= LastVector(entries[Len(entries)])
      /\ Len(entries) \in DOMAIN entries
  BY LpiRange
<1>2. 1 \in DOMAIN entries /\ entries[1].base \in Nat /\ Holds(entries[1], entries[1].base)
  BY <1>1, EntryBounds
<1>3. entries[1].base = 8192
  <2> SUFFICES ASSUME entries[1].base # 8192 PROVE FALSE
    OBVIOUS
  <2>1. entries[1].base \in Lpis
    BY <1>2, LpiOf
  <2>2. entries[1].base - 1 \in Lpis
    BY <2>1 DEF Contiguous, ARM_GIC_LPI_MIN_IRQ
  <2>3. entries[1].base - 1 >= entries[1].base
    BY <2>2, LpiRange
  <2> QED BY <1>2, <2>3
<1>4. VectorOf(v) = v
  BY <1>1, <1>3 DEF VectorOf, interrupt_id_gic_v3_lpi, ARM_GIC_LPI_MIN_IRQ
<1>5. IndexOf(v) = v - 8192
  <2> DEFINE E == {entries[i] : i \in DOMAIN entries}
             e == CHOOSE x \in E : Holds(x, v)
  <2>1. e \in E
    BY LpiOf
  <2>3. IndexOf(v) = (v - e.base) + (e.base - 8192)
    BY DEF IndexOf, vec_off, ARM_GIC_LPI_MIN_IRQ
  <2> HIDE DEF e
  <2>4. e.base \in Nat
    <3>1. PICK i \in DOMAIN entries : e = entries[i]
      BY <2>1
    <3> QED BY <3>1, EntryBounds
  <2> QED BY <1>1, <2>3, <2>4
<1>6. v - 8192 < num_lpis
  <2>1. entries # <<>> /\ num_lpis \in Nat /\ LastVector(entries[Len(entries)]) \in Int
    BY <1>1, EntryBounds DEF NumInv
  <2>2. LastVector(entries[Len(entries)]) < 8192 + num_lpis
    BY <2>1 DEF NumInv, ARM_GIC_LPI_MIN_IRQ
  <2> QED BY <1>1, <2>1, <2>2
<1> QED BY <1>4, <1>5, <1>6 DEF ARM_GIC_LPI_MIN_IRQ

\* However the board has cut LPIs without a gap into entries, an LPI keeps its
\* number and its byte is in the table (LpiNumbersAgree; gic_v3_lpi_add_entry()).
THEOREM LpisKeepNumbers == Spec => [](NumInv /\ LpiNumbersAgree)
<1>1. Init => NumInv
  BY DEF Init, lpi_intrinfo, NumInv, InOrder
<1> QED BY <1>1, NumStep, NumbersFollow, PTL DEF Spec

-----------------------------------------------------------------------------
(* What the redistributors have of the table.                              *)

\* Each CPU has a collection of its own, and the commands of the callouts are
\* for the redistributor of CPU 0.  It is so on this board: RDbase is a number
\* there, and CPU 0 is number 0.
OneEach == (\A c \in Cpus : Icid(c) = c) /\ Target(RDbase) = 0

Pending == \E c \in Cpus : pc[c] \in {"invall", "sync", "cwriter"}
Callouts == {Invall(0), Sync(0)}

\* What is left of the commands for a CPU.
Left(c) == {<<Sync(c), Invall(c)>>, <<Invall(c)>>, <<>>}

\* A CPU's redistributor is mapped once its first command is executed.
MapInv ==
    /\ mapped \in [Cpus -> Cpus \union {NoRd}]
    /\ cached = [r \in Cpus |-> cached[r]]
    /\ boot \in Before => cpu = 0
    /\ boot # "kernel" => table = {} /\ \A r \in Cpus : cached[r] = {}
    /\ boot \in {"enable", "issue", "poll"} => \A c \in Cpus : c < cpu => mapped[c] = c
    /\ boot = "poll" => \/ Queued = <<Mapc(cpu, cpu), Sync(cpu), Invall(cpu)>>
                        \/ Queued \in Left(cpu) /\ mapped[cpu] = cpu
    /\ boot = "kernel" => mapped[0] = 0

\* The last command is a SYNC, for an INVALL that is under way or comes before.
Covered == /\ Queued # <<>> /\ Queued[Len(Queued)] = Sync(0)
           /\ 0 \in inval \/ (Len(Queued) > 1 /\ Queued[Len(Queued) - 1] = Invall(0))

StaleInv == /\ QInv /\ MapInv
            /\ boot = "kernel" => Queued \in Seq(Callouts) /\ (cached[0] = table \/ Pending \/ Covered)

LEMMA ZeroIsCpu == 0 \in Cpus
BY GicItsAssumption DEF Cpus

LEMMA FirstQueued ==
    ASSUME QInv, Execute
    PROVE  Queued # <<>> /\ Queued' = Tail(Queued) /\ slots[creader] = Queued[1]
<1>1. Queued # <<>> /\ Queued' = Tail(Queued)
  BY ExecuteStep DEF Executed
<1>2. creader \in R /\ cwriter \in R /\ creader # cwriter
  BY DEF QInv, RingInv, Execute
<1>3. Ring(cwriter - creader) \in Nat /\ Ring(cwriter - creader) > 0 /\ Ring(creader + 1 - 1) = creader
  <2>1. Ring(creader) = creader /\ creader \in Int
    BY <1>2, RingTwo, RingLag
  <2>2. creader + 1 - 1 = creader
    BY <2>1
  <2> QED BY <1>2, <2>1, <2>2, RingLag
<1>4. Queued[1] = slots[creader]
  <2>1. Queued = QueueOf(creader, cwriter, slots)
    BY QueuedNow
  <2>2. 1 \in 1 .. Ring(cwriter - creader)
    BY <1>3
  <2> QED BY <1>3, <2>1, <2>2 DEF QueueOf
<1> QED BY <1>1, <1>4

\* Steps that do not touch what is queued, mapped, cached or in the table.
LEMMA CalmStep ==
    ASSUME StaleInv, QInv', Queued' = Queued, UNCHANGED <<cpu, mapped, cached, table, inval>>,
           boot' = boot \/ (boot = "poll" /\ boot' = "assert"), Pending => Pending'
    PROVE  StaleInv'
<1>1. MapInv'
  <2>1. CASE boot' = boot
    BY <2>1 DEF StaleInv, MapInv
  <2>2. CASE boot = "poll" /\ boot' = "assert"
    BY <2>2 DEF StaleInv, MapInv, Before
  <2> QED BY <2>1, <2>2
<1>2. boot' = "kernel" => Queued' \in Seq(Callouts) /\ (cached'[0] = table' \/ Pending' \/ Covered')
  BY DEF StaleInv, Covered
<1> QED BY <1>1, <1>2 DEF StaleInv

\* The set-up of the ITS, from its tables to the commands for a CPU.
LEMMA SetupStale ==
    ASSUME StaleInv, ConfigTable \/ DeviceTable \/ CollectionTable \/ ItsQueue \/ ItsEnable
    PROVE  StaleInv'
<1> USE DEF SetupStep, BootStep, TableStep
<1>1. QInv'
  BY SetupSteps DEF StaleInv
<1>2. boot # "kernel" /\ boot' # "kernel" /\ UNCHANGED <<cpu, cached, inval>>
  BY DEF ConfigTable, DeviceTable, CollectionTable, ItsQueue, ItsEnable
<1>3. mapped' \in [Cpus -> Cpus \union {NoRd}]
  BY DEF ConfigTable, DeviceTable, CollectionTable, ItsQueue, ItsEnable, StaleInv, MapInv
<1>4. table' = {} /\ cpu \in Cpus /\ boot' # "poll"
  BY <1>2 DEF ConfigTable, DeviceTable, CollectionTable, ItsQueue, ItsEnable, StaleInv, MapInv, QInv, RingInv
<1>5. /\ boot' \in Before => cpu' = 0
      /\ boot' \in {"enable", "issue"} => \A c \in Cpus : c < cpu' => mapped'[c] = c
  <2>1. \A c \in Cpus : ~(c < 0)
    BY GicItsAssumption DEF Cpus
  <2> QED BY <1>2, <2>1 DEF ConfigTable, DeviceTable, CollectionTable, ItsQueue, ItsEnable,
                            StaleInv, MapInv, Before
<1> QED BY <1>1, <1>2, <1>3, <1>4, <1>5 DEF StaleInv, MapInv

LEMMA IssueQueued ==
    ASSUME QInv, Issue
    PROVE  QInv' /\ Queued = <<>> /\ Queued' = MapBatch(cpu)
<1>1. QInv' /\ Issued(MapBatch(cpu))
  BY IssueStep
<1>2. Queued = <<>>
  BY QueuedNow, EmptyQueue DEF QInv, RingInv, Issue, BootStep
<1> QED BY <1>1, <1>2 DEF Issued, MapBatch

LEMMA IssueStale ==
    ASSUME OneEach, StaleInv, Issue
    PROVE  StaleInv'
<1>1. QInv' /\ Queued = <<>> /\ Queued' = MapBatch(cpu)
  BY IssueQueued DEF StaleInv
<1>2. boot = "issue" /\ boot' = "poll" /\ UNCHANGED <<cpu, mapped, cached, inval, table>> /\ cpu \in Cpus
  BY DEF Issue, BootStep, redistVars, StaleInv, QInv, RingInv
<1>3. MapBatch(cpu) = <<Mapc(cpu, cpu), Sync(cpu), Invall(cpu)>>
  BY <1>2 DEF MapBatch, OneEach
<1> QED BY <1>1, <1>2, <1>3 DEF StaleInv, MapInv, Before

\* When all is executed, the CPU's redistributor is mapped.
LEMMA EnableStale ==
    ASSUME OneEach, StaleInv, EnableLpis
    PROVE  StaleInv'
<1>1. QInv' /\ Queued' = Queued /\ Queued = <<>>
  <2>1. QInv' /\ Queued' = Queued
    BY PollSteps DEF StaleInv
  <2> QED BY <2>1, QueuedNow, EmptyQueue DEF EnableLpis, StaleInv, QInv, RingInv
<1>2. /\ boot = "poll" /\ boot' = IF cpu = NumCpu - 1 THEN "kernel" ELSE "enable"
      /\ cpu' = IF cpu = NumCpu - 1 THEN cpu ELSE cpu + 1
      /\ UNCHANGED <<mapped, cached, inval, table>> /\ cpu \in Cpus
  BY DEF EnableLpis, BootStep, itsVars, StaleInv, QInv, RingInv
<1>3. mapped[cpu] = cpu /\ \A c \in Cpus : c < cpu => mapped[c] = c
  BY <1>1, <1>2 DEF StaleInv, MapInv, Left
<1>4. MapInv'
  <2>1. \A c \in Cpus : (c < cpu + 1 => mapped[c] = c) /\ (c = 0 => mapped[c] = c)
    BY <1>2, <1>3, GicItsAssumption DEF Cpus
  <2> QED BY <1>2, <2>1, ZeroIsCpu DEF StaleInv, MapInv, Before
<1>5. cached'[0] = table' /\ Queued' \in Seq(Callouts)
  BY <1>1, <1>2, ZeroIsCpu DEF StaleInv, MapInv
<1> QED BY <1>1, <1>4, <1>5 DEF StaleInv

\* The ITS executes a command for a CPU that is brought up, or of a callout.
LEMMA ExecuteStale ==
    ASSUME OneEach, StaleInv, Execute
    PROVE  StaleInv'
<1>1. QInv' /\ Queued # <<>> /\ Queued' = Tail(Queued) /\ slots[creader] = Queued[1]
  BY ExecuteStep, FirstQueued DEF StaleInv
<1> DEFINE cmd == Queued[1]
<1>2. /\ cmd.op = "SYNC" => cmd.rd \notin inval
      /\ mapped' = IF cmd.op = "MAPC" THEN [mapped EXCEPT ![cmd.icid] = cmd.rd] ELSE mapped
      /\ inval' = inval \union (IF cmd.op = "INVALL" THEN {mapped[cmd.icid]} \ {NoRd} ELSE {})
      /\ UNCHANGED <<boot, cpu, cached, table, pc>>
  BY <1>1 DEF Execute, bootVars, callVars
<1>3. boot \in {"poll", "kernel"} \/ boot \notin {"enable", "issue", "poll", "kernel"} \union Before
  BY DEF Execute, StaleInv, QInv, RingInv, Before
<1>4. CASE boot = "poll"
  <2>1. cpu \in Cpus
    BY DEF StaleInv, QInv, RingInv
  <2>2. CASE Queued = <<Mapc(cpu, cpu), Sync(cpu), Invall(cpu)>>
    <3>1. cmd = Mapc(cpu, cpu) /\ Queued' = <<Sync(cpu), Invall(cpu)>>
      BY <1>1, <2>2
    <3>2. mapped' = [mapped EXCEPT ![cpu] = cpu]
      BY <1>2, <3>1 DEF Mapc
    <3> QED BY <1>1, <1>2, <1>4, <2>1, <3>1, <3>2 DEF StaleInv, MapInv, Left, Before
  <2>3. CASE Queued \in Left(cpu) /\ mapped[cpu] = cpu
    <3>1. \/ cmd = Sync(cpu) /\ Queued' = <<Invall(cpu)>>
          \/ cmd = Invall(cpu) /\ Queued' = <<>>
      <4>1. CASE Queued = <<Sync(cpu), Invall(cpu)>>
        BY <1>1, <4>1
      <4>2. CASE Queued = <<Invall(cpu)>>
        BY <1>1, <4>2
      <4> QED BY <1>1, <2>3, <4>1, <4>2 DEF Left
    <3>2. mapped' = mapped
      BY <1>2, <3>1 DEF Sync, Invall
    <3> QED BY <1>1, <1>2, <1>4, <2>3, <3>1, <3>2 DEF StaleInv, MapInv, Left, Before
  <2> QED BY <1>4, <2>2, <2>3 DEF StaleInv, MapInv
<1>5. CASE boot = "kernel"
  <2>1. cmd \in Callouts /\ Queued' \in Seq(Callouts)
    BY <1>1, <1>5 DEF StaleInv
  <2>2. mapped' = mapped /\ mapped[0] = 0
    BY <1>2, <1>5, <2>1 DEF Callouts, Sync, Invall, StaleInv, MapInv
  <2>3. MapInv'
    BY <1>2, <1>5, <2>2 DEF StaleInv, MapInv, Before
  <2>4. ASSUME Covered PROVE Covered'
    <3>1. PICK n \in Nat : n = Len(Queued) /\ n > 0
      BY <1>1, <1>5 DEF StaleInv
    <3>2. Queued[n] = Sync(0) /\ (0 \in inval \/ (n > 1 /\ Queued[n - 1] = Invall(0)))
      BY <2>4, <3>1 DEF Covered
    <3>3. cmd = Sync(0) => 0 \notin inval
      BY <1>2 DEF Sync
    <3>4. cmd = Invall(0) => 0 \in inval'
      BY <1>2, <2>2 DEF Invall, NoRd
    <3>5. inval \subseteq inval'
      BY <1>2
    <3>6. Sync(0) # Invall(0)
      BY DEF Sync, Invall
    <3>7. n > 1
      BY <3>1, <3>2, <3>3
    <3>8. /\ Len(Queued') = n - 1 /\ \A i \in 1 .. n - 1 : Queued'[i] = Queued[i + 1]
      BY <1>1, <1>5, <3>1 DEF StaleInv
    <3>9. Queued' # <<>> /\ Queued'[Len(Queued')] = Sync(0)
      BY <3>1, <3>2, <3>7, <3>8, <2>1
    <3>10. 0 \in inval' \/ (Len(Queued') > 1 /\ Queued'[Len(Queued') - 1] = Invall(0))
      <4>1. CASE n = 2
        BY <3>1, <3>2, <3>4, <3>5, <4>1
      <4>2. CASE n # 2
        BY <3>1, <3>2, <3>5, <3>7, <3>8, <4>2
      <4> QED BY <4>1, <4>2
    <3> QED BY <3>9, <3>10 DEF Covered
  <2>5. Pending => Pending'
    BY <1>2 DEF Pending
  <2> QED BY <1>1, <1>2, <1>5, <2>1, <2>3, <2>4, <2>5 DEF StaleInv
<1>6. CASE boot \notin {"enable", "issue", "poll", "kernel"} \union Before
  <2>1. cmd \in Cmds
    BY <1>1 DEF StaleInv, QInv, RingInv
  <2>2. cmd.op = "MAPC" => cmd.rd \in Cpus
    BY <2>1 DEF Cmds, NoCmd, Mapc, Sync, Invall
  <2>3. mapped' \in [Cpus -> Cpus \union {NoRd}]
    BY <1>2, <2>2 DEF StaleInv, MapInv
  <2> QED BY <1>1, <1>2, <1>6, <2>3 DEF StaleInv, MapInv, Before
<1> QED BY <1>3, <1>4, <1>5, <1>6

\* A redistributor reads the table again, all of it or an entry.
LEMMA ReadStale ==
    ASSUME StaleInv, NEW r \in Cpus, NEW i, Reload(r) \/ Fetch(r, i)
    PROVE  StaleInv'
<1>1. /\ UNCHANGED <<slots, creader, cwriter, boot, cpu, pc, x3, k, lock, monitor, table, mapped>>
      /\ \/ inval' = inval \ {r} /\ cached' = [cached EXCEPT ![r] = table]
         \/ /\ r = mapped[0] /\ inval' = inval
            /\ cached' = [cached EXCEPT ![r] = (@ \ {i}) \union ({i} \intersect table)]
  BY DEF Reload, Fetch, bootVars, itsVars, lockVars, callVars
<1>2. QInv' /\ Queued' = Queued
  BY <1>1, ApartStep DEF StaleInv
<1>3. /\ cached'[r] = table \/ cached'[r] = (cached[r] \ {i}) \union ({i} \intersect table)
      /\ cached' = [d \in Cpus |-> cached'[d]]
      /\ \A d \in Cpus : d # r => cached'[d] = cached[d]
  BY <1>1 DEF StaleInv, MapInv
<1>4. MapInv'
  BY <1>1, <1>2, <1>3 DEF StaleInv, MapInv
<1>5. ASSUME boot' = "kernel" PROVE cached'[0] = table' \/ Pending' \/ Covered'
  <2>1. CASE r = 0 /\ cached'[0] = table
    BY <1>1, <2>1
  <2>2. CASE r = 0 /\ cached'[0] # table
    <3>1. cached[0] # table /\ inval' = inval
      BY <1>1, <1>3, <2>2, ZeroIsCpu DEF StaleInv, MapInv
    <3> QED BY <1>1, <1>2, <1>5, <3>1 DEF StaleInv, Pending, Covered
  <2>3. CASE r # 0
    BY <1>1, <1>2, <1>3, <1>5, <2>3, ZeroIsCpu DEF StaleInv, Pending, Covered
  <2> QED BY <2>1, <2>2, <2>3
<1> QED BY <1>1, <1>2, <1>4, <1>5 DEF StaleInv

\* The table is changed by a CPU that will queue its two commands.
LEMMA EditStale ==
    ASSUME StaleInv, NEW c \in Cpus, EditTable(c)
    PROVE  StaleInv'
<1>1. QInv' /\ Queued' = Queued
  BY EditStep DEF StaleInv
<1>2. Callout(c, "table", "invall") /\ boot = "kernel" /\ pc'[c] = "invall"
  BY CalloutIs DEF EditTable, StaleInv, QInv, RingInv
<1>3. UNCHANGED <<boot, cpu, mapped, cached, inval>>
  BY <1>2 DEF Callout, bootVars, redistVars
<1>4. MapInv'
  BY <1>1, <1>2, <1>3 DEF StaleInv, MapInv, Before
<1>5. Pending'
  BY <1>2 DEF Pending
<1> QED BY <1>1, <1>2, <1>3, <1>4, <1>5 DEF StaleInv

\* They are queued together; nothing is stale behind the SYNC.
LEMMA CwriterStale ==
    ASSUME OneEach, StaleInv, NEW c \in Cpus, StoreCwriter(c)
    PROVE  StaleInv'
<1> DEFINE b == <<Invall(0), Sync(0)>>
<1>1. QInv' /\ Queued' = Queued \o b
  BY CwriterStep DEF StaleInv, OneEach, Issued
<1>2. Callout(c, "cwriter", "unlock") /\ boot = "kernel"
  BY CalloutIs DEF StoreCwriter, StaleInv
<1>3. UNCHANGED <<boot, cpu, mapped, cached, inval, table>>
  BY <1>2 DEF StoreCwriter, Callout, bootVars, redistVars
<1>4. MapInv'
  BY <1>1, <1>2, <1>3 DEF StaleInv, MapInv, Before
<1>5. Queued \in Seq(Callouts) /\ b \in Seq(Callouts) /\ Len(b) = 2 /\ b[1] = Invall(0) /\ b[2] = Sync(0)
  BY <1>2 DEF StaleInv, Callouts
<1> HIDE DEF b
<1>6. PICK q \in Seq(Callouts), d \in Seq(Callouts), n \in Nat :
         q = Queued /\ d = b /\ n = Len(q) /\ Len(d) = 2 /\ d[1] = Invall(0) /\ d[2] = Sync(0)
  BY <1>5
<1>7. /\ q \o d \in Seq(Callouts) /\ Len(q \o d) = n + 2
      /\ (q \o d)[n + 1] = Invall(0) /\ (q \o d)[n + 2] = Sync(0)
  <2>1. Len(q \o d) = n + 2 /\ q \o d \in Seq(Callouts)
    <3>1. Len(q \o d) = Len(q) + Len(d) /\ q \o d \in Seq(Callouts)
      BY ConcatProperties, Zenon
    <3> QED BY <1>6, <3>1
  <2>2. (q \o d)[n + 1] = d[1]
    <3>1. \A i \in 1 .. Len(q) + Len(d) :
             (q \o d)[i] = IF i <= Len(q) THEN q[i] ELSE d[i - Len(q)]
      BY ConcatProperties, Zenon
    <3>2. n + 1 \in 1 .. Len(q) + Len(d) /\ ~(n + 1 <= Len(q)) /\ n + 1 - Len(q) = 1
      BY <1>6
    <3> QED BY <3>1, <3>2
  <2>3. (q \o d)[n + 2] = d[2]
    BY <1>6
  <2> QED BY <1>6, <2>1, <2>2, <2>3
<1>9. Queued' = q \o d
  BY <1>1, <1>6
<1>8. Covered'
  <2>1. Queued' # <<>> /\ n + 2 > 1 /\ n + 2 - 1 = n + 1
    BY <1>6, <1>7, <1>9
  <2> QED BY <1>7, <1>9, <2>1 DEF Covered
<1> QED BY <1>1, <1>4, <1>7, <1>9, <1>8 DEF StaleInv

\* The other steps of a callout: what has been changed is still to be queued.
LEMMA OtherStale ==
    ASSUME StaleInv, NEW c \in Cpus,
           \/ LoadLock(c) \/ Wfe(c) \/ StoreLock(c) \/ WriteInvall(c) \/ WriteSync(c) \/ Unlock(c)
           \/ \E v \in Lpis, unmask \in BOOLEAN : Call(c, v, unmask)
    PROVE  StaleInv'
<1>1. QInv' /\ Queued' = Queued
  BY LockSteps, WriteSteps, UnlockStep, CallStep DEF StaleInv
<1>2. UNCHANGED <<boot, cpu, mapped, cached, inval, table>>
  BY DEF LoadLock, Wfe, StoreLock, WriteInvall, WriteSync, Write, Unlock, Call, Callout,
         bootVars, itsVars, redistVars
<1>3. /\ \A d \in Cpus : d # c => pc'[d] = pc[d]
      /\ pc[c] \in {"invall", "sync", "cwriter"} => pc'[c] \in {"sync", "cwriter"}
  <2>1. PICK from \in {"load", "wfe", "store", "invall", "sync", "unlock", "thread"},
             to \in {"load", "wfe", "store", "table", "invall", "sync", "cwriter", "thread"} :
        /\ pc[c] = from /\ pc' = [pc EXCEPT ![c] = to]
        /\ from \in {"invall", "sync"} => to \in {"sync", "cwriter", "invall"}
        /\ from = "sync" => WriteSync(c)
        /\ from = "invall" => to = "sync"
    BY DEF LoadLock, Wfe, StoreLock, WriteInvall, WriteSync, Unlock, Call, Callout
  <2>2. from = "sync" => to = "cwriter"
    <3> SUFFICES ASSUME from = "sync" PROVE to = "cwriter"
      OBVIOUS
    <3>1. k[c] = 0
      BY <2>1 DEF StaleInv, QInv, BatchInv
    <3>2. Callout(c, "sync", "cwriter")
      BY <2>1, <3>1 DEF WriteSync, NumCollections
    <3>3. pc' = [pc EXCEPT ![c] = "cwriter"]
      BY <3>2 DEF Callout
    <3> QED BY <2>1, <3>3 DEF StaleInv, QInv, RingInv
  <2> QED BY <2>1, <2>2 DEF StaleInv, QInv, RingInv
<1>4. Pending => Pending'
  BY <1>3 DEF Pending
<1> QED BY <1>1, <1>2, <1>4, CalmStep

LEMMA StaleStep == OneEach /\ StaleInv /\ [Next]_vars => StaleInv'
<1> SUFFICES ASSUME OneEach, StaleInv, [Next]_vars PROVE StaleInv'
  OBVIOUS
<1> USE DEF bootVars, itsVars, redistVars, lockVars, callVars
<1>1. CASE (\E e \in Offered : AddLpiEntry(e)) \/ Quiesce \/ Stall \/ UNCHANGED vars
  <2>1. UNCHANGED <<slots, creader, cwriter, boot, cpu, pc, x3, k, lock, monitor,
                    mapped, cached, table, inval>>
    BY <1>1 DEF AddLpiEntry, Quiesce, Stall, vars
  <2>2. QInv' /\ Queued' = Queued
    BY <2>1, ApartStep DEF StaleInv
  <2> QED BY <2>1, <2>2, CalmStep DEF Pending
<1>2. CASE StartupStep
  <2>1. CASE Poll
    <3>1. QInv' /\ Queued' = Queued
      BY <2>1, PollSteps DEF StaleInv
    <3> QED BY <2>1, <3>1, CalmStep DEF Poll, BootStep, Pending
  <2> QED BY <1>2, <2>1, SetupStale, IssueStale, EnableStale DEF StartupStep
<1>3. CASE Execute
  BY <1>3, ExecuteStale
<1>4. CASE \E r \in Cpus : Reload(r) \/ \E v \in Lpis : Fetch(r, v - ARM_GIC_LPI_MIN_IRQ)
  BY <1>4, ReadStale
<1>5. CASE \E c \in Cpus : Continue(c) \/ \E v \in Lpis, unmask \in BOOLEAN : Call(c, v, unmask)
  BY <1>5, EditStale, CwriterStale, OtherStale DEF Continue
<1> QED BY <1>1, <1>2, <1>3, <1>4, <1>5 DEF Next

LEMMA StaleInit == Init => StaleInv
<1> SUFFICES ASSUME Init PROVE StaleInv
  OBVIOUS
<1>1. QInv
  BY QueueInit
<1>2. MapInv
  BY DEF Init, lpi_intrinfo, MapInv
<1> QED BY <1>1, <1>2 DEF Init, lpi_intrinfo, StaleInv

\* With nothing queued and nobody about to queue, CPU 0's redistributor has what
\* the table says.
LEMMA StaleFollows == StaleInv => StaleOnlyWhileQueued
<1> SUFFICES ASSUME StaleInv, boot = "kernel", creader = cwriter, ~Pending
             PROVE  cached[mapped[0]] = table
  BY DEF StaleOnlyWhileQueued, Pending
<1>1. Queued = <<>>
  BY QueuedNow, EmptyQueue DEF StaleInv, QInv, RingInv
<1> QED BY <1>1 DEF StaleInv, MapInv, Covered

\* Wherever a redistributor has an old configuration or an interrupt its old
\* collection, the commands that repair it are still to be executed: an INVALL
\* under way or in the ring, and its SYNC last (the LPI callouts).
THEOREM StaleInvariant == ASSUME OneEach PROVE Spec => []StaleInv
BY OneEach, StaleInit, StaleStep, PTL DEF Spec

\* Whatever the CPUs mask at the same time and however far the ITS is behind,
\* an LPI has one number for all, and a redistributor acts on an old
\* configuration only while the commands are on their way (TablesAgree).
THEOREM LpisAgree == ASSUME OneEach PROVE Spec => []TablesAgree
BY OneEach, LpisKeepNumbers, StaleInvariant, StaleFollows, PTL DEF TablesAgree
=============================================================================
