----------------------------- MODULE LinkProofs -----------------------------
(***************************************************************************)
(* Proofs that, whatever the network does, a receiver never overtakes its  *)
(* sender, never hands over an input it has moved past, and that an input  *)
(* is carried by exactly WindowSize datagrams; and that on a calm network  *)
(* each input is handed over exactly once.                                 *)
(*                                                                         *)
(* A receiver's cycle and flags name cycles modulo MaxCycle and            *)
(* MaxBuffered; the first lemmas, about the phases of handle_datagram,     *)
(* relate them to the cycles themselves, counted from the start of the     *)
(* session.                                                                *)
(***************************************************************************)
EXTENDS Link, CommonLemmas, FiniteSetTheorems

-----------------------------------------------------------------------------
\* Receiver r stands at cycle g and each flag it has set is that of a cycle
\* from g on that the sender, at cycle s, has used.
Backed(r, g, s) ==
    \A j \in FlagIndex : r.flags[j] => \E c \in g .. s - 1 : FlagOf(c % MaxCycle) = j

StandsAt(r, g, s) ==
    /\ r \in Receivers
    /\ r.cycle = g % MaxCycle
    /\ Backed(r, g, s)

-----------------------------------------------------------------------------
(* Constants and cycle numbers.                                            *)

LEMMA ConstantFacts ==
    /\ WindowSize \in Nat \ {0}
    /\ MaxCycle \in Nat \ {0}
    /\ MaxBuffered \in Nat \ {0}
    /\ U16Max \in Nat
    /\ CycleThreshold \in Nat
    /\ TimestampThreshold \in Nat
    /\ MaxBuffered + WindowSize <= MaxCycle
    /\ \E n \in Nat \ {0} : MaxCycle = n * WindowSize
  <1>1. U16Max \div WindowSize \in Nat \ {0}
    BY ProtoAssumption, SMT
  <1>2. MaxCycle \in Nat \ {0}
    BY <1>1, ProtoAssumption, SMT DEF MaxCycle
  <1>3. MaxBuffered \in Nat \ {0}
    BY ProtoAssumption DEF MaxBuffered
  <1> QED BY <1>1, <1>2, <1>3, ProtoAssumption, RoomAssumption DEF MaxCycle

LEMMA FlagOfIndex ==
    ASSUME NEW c \in Int
    PROVE  FlagOf(c % MaxCycle) \in FlagIndex
  BY ConstantFacts, ModRange DEF FlagOf, FlagIndex

LEMMA DiffOfCounts ==
    ASSUME NEW r, NEW g \in Int, NEW k \in Int, r.cycle = g % MaxCycle
    PROVE  CycleDiff(r, k % MaxCycle) = (k - g) % MaxCycle
  BY ConstantFacts, ModOfDifference DEF CycleDiff

LEMMA AheadOfCount ==
    ASSUME NEW r, NEW g \in Int, NEW n \in Int, r.cycle = g % MaxCycle
    PROVE  Ahead(r, n) = (g + n) % MaxCycle
  BY ConstantFacts, ModOfSum DEF Ahead

LEMMA NextCycleOfCount ==
    ASSUME NEW q \in Int
    PROVE  ((q % MaxCycle) + 1) % MaxCycle = (q + 1) % MaxCycle
  <1>1. \A b \in Int : ((q % MaxCycle) + b) % MaxCycle = (q + b) % MaxCycle
    BY ConstantFacts, ModOfSum
  <1>2. 1 \in Int
    OBVIOUS
  <1> QED BY <1>1, <1>2, Zenon

LEMMA WindowCycleOfCount ==
    ASSUME NEW d, NEW q \in Int, NEW i \in Int, d.cycle = q % MaxCycle
    PROVE  WindowCycle(d, i) = (q - i) % MaxCycle
  <1>1. /\ (q % MaxCycle) \in Int
        /\ MaxCycle - i \in Int
        /\ (q % MaxCycle) + (MaxCycle - i) = ((q % MaxCycle) + MaxCycle) - i
        /\ q + (MaxCycle - i) = (q - i) + MaxCycle
        /\ q - i \in Int
    BY ConstantFacts, ModRange
  <1>2. ((q % MaxCycle) + (MaxCycle - i)) % MaxCycle = (q + (MaxCycle - i)) % MaxCycle
    BY <1>1, ConstantFacts, ModOfSum
  <1>3. ((q - i) + MaxCycle) % MaxCycle = (q - i) % MaxCycle
    BY <1>1, ConstantFacts, ModPlus
  <1> QED BY <1>1, <1>2, <1>3 DEF WindowCycle

-----------------------------------------------------------------------------
(* The phases.                                                             *)

\* Stepping over n cycles keeps the flags of the cycles not stepped over.
LEMMA StepOverStands ==
    ASSUME NEW r, NEW g \in Nat, NEW s \in Nat, NEW n \in Nat, StandsAt(r, g, s)
    PROVE  StandsAt(StepOver(r, n), g + n, s)
  <1> DEFINE t == StepOver(r, n)
  <1>1. t.cycle = (g + n) % MaxCycle
    BY AheadOfCount DEF StepOver, StandsAt
  <1>2. t \in Receivers
    <2>1. t.cycle \in Cycles
      BY <1>1, ConstantFacts, ModRange DEF Cycles
    <2>2. r.flags \in [FlagIndex -> BOOLEAN]
      BY DEF StandsAt, Receivers
    <2>3. t.flags \in [FlagIndex -> BOOLEAN]
      BY <2>2 DEF StepOver
    <2> QED BY <2>1, <2>3 DEF StepOver, Receivers
  <1>3. ASSUME NEW j \in FlagIndex, t.flags[j]
        PROVE  \E c \in g + n .. s - 1 : FlagOf(c % MaxCycle) = j
    <2>1. r.flags[j] /\ \A k \in 0 .. n - 1 : FlagOf(Ahead(r, k)) # j
      BY <1>3 DEF StepOver
    <2>2. PICK c \in g .. s - 1 : FlagOf(c % MaxCycle) = j
      BY <2>1 DEF StandsAt, Backed
    <2>3. ASSUME c < g + n PROVE FALSE
      <3>1. c - g \in 0 .. n - 1
        BY <2>3
      <3>2. Ahead(r, c - g) = c % MaxCycle
        <4>1. Ahead(r, c - g) = (g + (c - g)) % MaxCycle
          BY <3>1, AheadOfCount DEF StandsAt
        <4> QED BY <4>1
      <3> QED BY <2>1, <2>2, <3>1, <3>2
    <2> QED BY <2>2, <2>3
  <1> QED BY <1>1, <1>2, <1>3 DEF StandsAt, Backed

\* What the sender sends later takes no flag back.
LEMMA StandsLater ==
    ASSUME NEW r, NEW g \in Nat, NEW s \in Nat, NEW t \in Nat, s <= t, StandsAt(r, g, s)
    PROVE  StandsAt(r, g, t)
  <1>1. \A c \in g .. s - 1 : c \in g .. t - 1
    OBVIOUS
  <1> QED BY <1>1 DEF StandsAt, Backed

\* The catch-up on a datagram of cycle q does not pass q.
LEMMA CatchUpStands ==
    ASSUME NEW r, NEW g \in Nat, NEW s \in Nat, StandsAt(r, g, s),
           NEW d, NEW q \in g .. s - 1, d.cycle = q % MaxCycle
    PROVE  /\ GivenUp(r, d) \in Nat
           /\ g + GivenUp(r, d) <= q
           /\ StandsAt(CatchUp(r, d), g + GivenUp(r, d), s)
  <1>1. CycleDiff(r, d.cycle) = (q - g) % MaxCycle
    BY DiffOfCounts DEF StandsAt
  <1>2. q - g \in Nat
    OBVIOUS
  <1>3. (q - g) % MaxCycle \in Nat /\ (q - g) % MaxCycle <= q - g
    <2>1. MaxCycle \in Nat \ {0} /\ q - g \in Int
      BY <1>2, ConstantFacts
    <2>2. (q - g) % MaxCycle \in 0 .. MaxCycle - 1
      BY <2>1, ModRange
    <2>3. (q - g) % MaxCycle <= q - g
      BY <1>2, <2>1, ModAtMost
    <2> QED BY <2>1, <2>2, <2>3
  <1>4. GivenUp(r, d) \in Nat /\ g + GivenUp(r, d) <= q
    BY <1>1, <1>2, <1>3, ConstantFacts DEF GivenUp
  <1> QED BY <1>4, StepOverStands DEF CatchUp

\* The sink loop ends before the first cycle behind the receiver.
LEMMA ReachedAhead ==
    ASSUME NEW r, NEW g \in Nat, r.cycle = g % MaxCycle,
           NEW d, NEW q \in Nat, g <= q, d.cycle = q % MaxCycle,
           NEW i \in Reached(r, d)
    PROVE  g <= q - i
  <1>1. i \in 0 .. WindowSize - 1 /\ CycleDiff(r, WindowCycle(d, i)) <= MaxBuffered
    BY ConstantFacts DEF Reached, SlotIndex
  <1>2. CycleDiff(r, WindowCycle(d, i)) = ((q - i) - g) % MaxCycle
    <2>1. i \in Int /\ q - i \in Int
      BY <1>1, ConstantFacts
    <2>2. WindowCycle(d, i) = (q - i) % MaxCycle
      BY <2>1, WindowCycleOfCount
    <2> QED BY <2>1, <2>2, DiffOfCounts
  <1>3. ASSUME q - i < g PROVE FALSE
    <2>1. (q - i) - g < 0 /\ -MaxCycle <= (q - i) - g
      BY <1>1, <1>3, ConstantFacts
    <2>2. (q - i) - g \in Int /\ MaxCycle \in Nat \ {0}
      BY <1>1, ConstantFacts
    <2>3. ((q - i) - g) % MaxCycle = ((q - i) - g) + MaxCycle
      BY <2>1, <2>2, ModBelowZero
    <2> QED BY <1>1, <1>2, <2>3, ConstantFacts
  <1> QED BY <1>1, <1>3, ConstantFacts

\* The flags it sets are those of cycles the datagram carries.
LEMMA FlagWindowStands ==
    ASSUME NEW r, NEW g \in Nat, NEW s \in Nat, StandsAt(r, g, s),
           NEW d, NEW q \in g .. s - 1, d.cycle = q % MaxCycle
    PROVE  StandsAt(FlagWindow(r, d), g, s)
  <1> DEFINE t == FlagWindow(r, d)
  <1>1. r.flags \in [FlagIndex -> BOOLEAN] /\ r.cycle \in Cycles /\ r \in Receivers
    BY DEF StandsAt, Receivers
  <1>2. /\ t.cycle = r.cycle
        /\ t.flags \in [FlagIndex -> BOOLEAN]
        /\ \A j \in FlagIndex : t.flags[j] =
              (r.flags[j] \/ \E i \in Reached(r, d) : FlagOf(WindowCycle(d, i)) = j)
        /\ t \in Receivers
    BY <1>1 DEF FlagWindow, Receivers
  <1>3. ASSUME NEW i \in Reached(r, d)
        PROVE  \E c \in g .. s - 1 : FlagOf(c % MaxCycle) = FlagOf(WindowCycle(d, i))
    <2>1. i \in Nat
      BY ConstantFacts DEF Reached, SlotIndex
    <2>2. g <= q - i
      BY <1>3, ReachedAhead DEF StandsAt
    <2>3. WindowCycle(d, i) = (q - i) % MaxCycle
      BY <2>1, WindowCycleOfCount
    <2>4. q - i \in g .. s - 1
      BY <2>1, <2>2
    <2> QED BY <2>3, <2>4
  <1>4. Backed(t, g, s)
    BY <1>2, <1>3 DEF Backed, StandsAt
  <1> QED BY <1>1, <1>2, <1>4 DEF StandsAt

\* The advance loop takes each of its passes on a flag that is set.
LEMMA PassesBelowRun ==
    ASSUME NEW r
    PROVE  /\ RunLength(r) \in Nat
           /\ \A k \in Nat : k < RunLength(r) => Passes(r, k)
  <1>1. IsFiniteSet(Taken(r)) /\ RunLength(r) \in Nat
    <2>1. IsFiniteSet(FlagIndex)
      BY ConstantFacts, FS_Interval DEF FlagIndex
    <2>2. Taken(r) \subseteq FlagIndex
      BY DEF Taken
    <2> QED BY <2>1, <2>2, FS_Subset, FS_CardinalityType DEF RunLength
  <1>2. ASSUME NEW k \in Nat, k < RunLength(r), ~Passes(r, k)
        PROVE  FALSE
    <2>1. Taken(r) \subseteq 0 .. k - 1
      BY <1>2, ConstantFacts DEF Taken, FlagIndex
    <2>2. IsFiniteSet(0 .. k - 1) /\ Cardinality(0 .. k - 1) = k
      BY FS_Interval
    <2>3. RunLength(r) <= k
      BY <2>1, <2>2, FS_Subset DEF RunLength
    <2> QED BY <1>1, <1>2, <2>3
  <1> QED BY <1>1, <1>2

\* It stops at the latest at the first cycle the sender has not used.
LEMMA AdvanceStands ==
    ASSUME NEW r, NEW g \in Nat, NEW s \in Nat, g <= s, StandsAt(r, g, s)
    PROVE  /\ RunLength(r) \in Nat
           /\ g + RunLength(r) <= s
           /\ StandsAt(Advance(r), g + RunLength(r), s)
  <1>1. RunLength(r) \in Nat
    BY PassesBelowRun
  <1>2. ASSUME s < g + RunLength(r) PROVE FALSE
    <2> DEFINE L == s - g
    <2>1. L \in Nat /\ L < RunLength(r)
      BY <1>1, <1>2
    <2>2. Passes(r, L)
      BY <2>1, PassesBelowRun
    <2>3. Ahead(r, L) = s % MaxCycle
      <3>1. Ahead(r, L) = (g + L) % MaxCycle
        BY <2>1, AheadOfCount DEF StandsAt
      <3> QED BY <3>1
    <2>4. PICK c \in g .. s - 1 : FlagOf(c % MaxCycle) = FlagOf(s % MaxCycle)
      BY <2>2, <2>3, FlagOfIndex DEF Passes, StandsAt, Backed
    <2>5. c - g \in 0 .. L - 1
      OBVIOUS
    <2>6. Ahead(r, c - g) = c % MaxCycle
      <3>1. Ahead(r, c - g) = (g + (c - g)) % MaxCycle
        BY <2>5, AheadOfCount DEF StandsAt
      <3> QED BY <3>1
    <2> QED BY <2>2, <2>3, <2>4, <2>5, <2>6 DEF Passes
  <1>3. g + RunLength(r) <= s
    BY <1>1, <1>2
  <1> QED BY <1>1, <1>3, StepOverStands DEF Advance

\* The whole handler, on a datagram the sender sent for a cycle the receiver
\* has not passed.
LEMMA HandleDatagramStands ==
    ASSUME NEW r, NEW g \in Nat, NEW s \in Nat, StandsAt(r, g, s),
           NEW d, NEW q \in g .. s - 1, d.cycle = q % MaxCycle
    PROVE  /\ CyclesGained(r, d) \in Nat
           /\ g + CyclesGained(r, d) <= s
           /\ StandsAt(HandleDatagram(r, d), g + CyclesGained(r, d), s)
  <1> DEFINE up == CatchUp(r, d)
             h  == g + GivenUp(r, d)
             fl == FlagWindow(up, d)
  <1>1. GivenUp(r, d) \in Nat /\ h <= q /\ StandsAt(up, h, s)
    BY CatchUpStands
  <1>2. h \in Nat /\ q \in h .. s - 1 /\ h <= s
    BY <1>1
  <1>3. StandsAt(fl, h, s)
    BY <1>1, <1>2, FlagWindowStands
  <1>4. /\ RunLength(fl) \in Nat
        /\ h + RunLength(fl) <= s
        /\ StandsAt(Advance(fl), h + RunLength(fl), s)
    BY <1>2, <1>3, AdvanceStands
  <1>5. CyclesGained(r, d) = GivenUp(r, d) + RunLength(fl)
    BY DEF CyclesGained
  <1>6. g + CyclesGained(r, d) = h + RunLength(fl)
    BY <1>1, <1>4, <1>5
  <1> QED BY <1>1, <1>4, <1>5, <1>6 DEF HandleDatagram

-----------------------------------------------------------------------------
(* The inductive invariant.                                                *)

\* The cycle numbers of both ends are the counts modulo MaxCycle, and every
\* flag stands for a cycle that is still to be passed.
EndsCounted ==
    /\ sender.cycle = sent % MaxCycle
    /\ got <= sent
    /\ StandsAt(receiver, got, sent)

\* A datagram in flight was sent recently, and since then the sender has used
\* at most one cycle per ms.
WireCounted ==
    \A d \in wire :
        /\ d.cycle = d.seq % MaxCycle
        /\ d.timestamp = AsU16(d.at)
        /\ d.seq < sent
        /\ d.at < now
        /\ now - d.at <= Lifetime
        /\ sent - d.seq <= now - d.at

\* The slot of a window that ends with cycle q holds the marked input exactly
\* if the input is of the window's cycle with that slot.
Exact(slots, q, m) ==
    \A k \in SlotIndex :
        slots[k] = Marked <=>
            /\ m # NotPolled
            /\ q - WindowSize < m
            /\ m <= q
            /\ m % WindowSize = k

\* The sender's own window ends before sent, and once it is quiet the slot of
\* the next cycle is already blank.
SenderWindow ==
    /\ mark # NotPolled => mark < sent
    /\ \A k \in SlotIndex :
          sender.slots[k] = Marked =>
              /\ mark # NotPolled
              /\ sent - WindowSize <= mark
              /\ mark % WindowSize = k
    /\ mark # NotPolled /\ sent - WindowSize < mark =>
          sender.slots[mark % WindowSize] = Marked

WireWindow == \A d \in wire : Exact(d.slots, d.seq, mark)

IInv == TypeOK /\ EndsCounted /\ WireCounted /\ SenderWindow /\ WireWindow

-----------------------------------------------------------------------------
(* The sender.                                                             *)

LEMMA PollSourceType ==
    ASSUME NEW s \in Senders, NEW slot \in Slots
    PROVE  /\ PollSource(s, slot) \in Senders
           /\ PollSource(s, slot).cycle = s.cycle
           /\ PollSource(s, slot).slots = [s.slots EXCEPT ![s.cycle % WindowSize] = slot]
           /\ PollSource(s, slot).flags[s.cycle % WindowSize] = (slot # Blank)
           /\ s.cycle % WindowSize \in SlotIndex
  <1>1. s.cycle \in Int
    BY ConstantFacts DEF Senders, Cycles
  <1>2. s.cycle % WindowSize \in SlotIndex
    BY <1>1, ConstantFacts, ModRange DEF SlotIndex
  <1> QED BY <1>2 DEF PollSource, Senders

LEMMA NextCycleType ==
    ASSUME NEW s \in Senders
    PROVE  NextCycle(s) \in Senders
  <1>1. s.cycle + 1 \in Int
    BY ConstantFacts DEF Senders, Cycles
  <1>2. (s.cycle + 1) % MaxCycle \in Cycles
    BY <1>1, ConstantFacts, ModRange DEF Cycles
  <1> QED BY <1>2 DEF NextCycle, Senders

\* The slot of a cycle number is the slot of the cycle itself, because
\* MaxCycle is a multiple of WindowSize.
LEMMA SlotOfCount ==
    ASSUME NEW q \in Int
    PROVE  /\ (q % MaxCycle) % WindowSize = q % WindowSize
           /\ q % WindowSize \in SlotIndex
  <1>1. PICK n \in Nat \ {0} : MaxCycle = n * WindowSize
    BY ConstantFacts
  <1>2. (q % (n * WindowSize)) % WindowSize = q % WindowSize
    BY ConstantFacts, ModOfMultiple
  <1> QED BY <1>1, <1>2, ConstantFacts, ModRange DEF SlotIndex

\* After a poll the sender's slots are exactly the window that ends with the
\* cycle polled.
LEMMA PollExact ==
    ASSUME IInv, NEW slot \in Slots, slot = Marked => mark = NotPolled
    PROVE  Exact(PollSource(sender, slot).slots, sent,
                 IF slot = Marked THEN sent ELSE mark)
  <1> DEFINE index == sent % WindowSize
             polled == PollSource(sender, slot).slots
  <1>1. /\ sender \in Senders /\ sent \in Nat /\ mark \in Nat \cup {NotPolled}
        /\ sender.slots \in [SlotIndex -> Slots]
        /\ sent \in Int
    BY DEF IInv, TypeOK, Senders
  <1>2. index \in SlotIndex /\ sender.cycle % WindowSize = index
    BY <1>1, SlotOfCount DEF IInv, EndsCounted
  <1>3. \A k \in SlotIndex : polled[k] = IF k = index THEN slot ELSE sender.slots[k]
    BY <1>1, <1>2, PollSourceType
  <1>4. NotPolled \notin Nat
    BY DEF NotPolled
  <1>5. CASE slot = Marked
    <2>1. \A k \in SlotIndex : sender.slots[k] # Marked
      BY <1>5 DEF IInv, SenderWindow
    <2>2. \A k \in SlotIndex : polled[k] = Marked <=> k = index
      BY <1>2, <1>3, <1>5, <2>1
    <2>3. sent # NotPolled /\ sent - WindowSize < sent /\ sent <= sent
      BY <1>1, <1>4, ConstantFacts
    <2> QED BY <1>5, <2>2, <2>3 DEF Exact
  <1>6. CASE slot # Marked
    <2>1. ASSUME mark # NotPolled, sent - WindowSize < mark
          PROVE  mark % WindowSize # index
      <3>1. mark \in Int /\ mark < sent /\ sent - mark < WindowSize /\ mark - sent < WindowSize
        BY <1>1, <2>1, ConstantFacts DEF IInv, SenderWindow
      <3>2. ASSUME mark % WindowSize = sent % WindowSize PROVE FALSE
        <4>1. mark = sent
          BY <1>1, <3>1, <3>2, ConstantFacts, ModEqual
        <4> QED BY <1>1, <3>1, <4>1
      <3> QED BY <3>2
    <2>2. ASSUME mark # NotPolled, mark = sent - WindowSize
          PROVE  mark % WindowSize = index
      <3>1. mark \in Int /\ mark + WindowSize = sent
        BY <1>1, <2>2, ConstantFacts
      <3> QED BY <3>1, ConstantFacts, ModPlus
    <2>3. ASSUME NEW k \in SlotIndex, polled[k] = Marked
          PROVE  mark # NotPolled /\ sent - WindowSize < mark /\ mark <= sent
                 /\ mark % WindowSize = k
      <3>1. k # index /\ sender.slots[k] = Marked
        BY <1>3, <1>6, <2>3
      <3>2. mark # NotPolled /\ sent - WindowSize <= mark /\ mark % WindowSize = k
            /\ mark < sent /\ mark \in Nat
        BY <1>1, <3>1 DEF IInv, SenderWindow
      <3>3. mark # sent - WindowSize
        BY <2>2, <3>1, <3>2
      <3> QED BY <1>1, <3>2, <3>3, ConstantFacts
    <2>4. ASSUME NEW k \in SlotIndex, mark # NotPolled, sent - WindowSize < mark,
                 mark % WindowSize = k
          PROVE  polled[k] = Marked
      <3>1. sender.slots[k] = Marked
        BY <2>4 DEF IInv, SenderWindow
      <3> QED BY <1>3, <2>1, <2>4, <3>1
    <2> QED BY <1>6, <2>3, <2>4 DEF Exact
  <1> QED BY <1>5, <1>6

-----------------------------------------------------------------------------
(* The receiver.                                                           *)

\* What the receiver takes for the age of a datagram.
LEMMA AgeSeen ==
    ASSUME IInv, NEW d \in wire
    PROVE  TimestampDiff(ReceiverClock, d.timestamp) = AsU16((now - d.at) + ClockSkew)
  <1> DEFINE U == U16Max + 1
  <1>1. d.at \in Int /\ now \in Int /\ ClockSkew \in Int /\ now + ClockSkew \in Int /\ U \in Nat \ {0}
    BY LinkAssumption, ConstantFacts DEF IInv, TypeOK, Datagrams
  <1>2. d.timestamp = d.at % U
    BY DEF IInv, WireCounted, AsU16
  <1>3. (((now + ClockSkew) % U) - (d.at % U)) % U = ((now + ClockSkew) - d.at) % U
    BY <1>1, ModOfDifference
  <1>4. (now + ClockSkew) - d.at = (now - d.at) + ClockSkew
    BY <1>1
  <1> QED BY <1>2, <1>3, <1>4 DEF TimestampDiff, ReceiverClock, AsU16

\* A datagram that is not rejected is of a cycle the receiver has not passed.
LEMMA AcceptedAhead ==
    ASSUME IInv, NEW d \in wire, ~Rejects(receiver, ReceiverClock, d)
    PROVE  got <= d.seq
  <1> DEFINE age == now - d.at
             U == U16Max + 1
  <1>1. /\ d.seq \in Nat /\ d.at \in Nat /\ now \in Nat /\ sent \in Nat /\ got \in Nat
        /\ ClockSkew \in Int /\ Lifetime \in Nat /\ U \in Nat \ {0}
    BY LinkAssumption, ConstantFacts DEF IInv, TypeOK, Datagrams
  <1>2. /\ d.cycle = d.seq % MaxCycle
        /\ d.timestamp = d.at % U
        /\ age \in 0 .. Lifetime
        /\ sent - d.seq <= age
        /\ got <= sent
    BY <1>1 DEF IInv, WireCounted, EndsCounted, AsU16
  <1>3. TimestampDiff(ReceiverClock, d.timestamp) = AsU16(age + ClockSkew)
    BY AgeSeen
  <1>4. age < MaxCycle - CycleThreshold
    <2>1. age + ClockSkew \in Int
      BY <1>1
    <2>2. AsU16(age + ClockSkew) \in Int
      <3>1. \A a \in Int : a % U \in 0 .. U - 1
        BY <1>1, ModRange
      <3> QED BY <1>1, <2>1, <3>1 DEF AsU16
    <2>3. AsU16(age + ClockSkew) <= TimestampThreshold
      BY <1>3, <2>2, ConstantFacts DEF Rejects
    <2> QED BY <1>2, <2>3, FreshAssumption
  <1>5. CycleDiff(receiver, d.cycle) = (d.seq - got) % MaxCycle
    BY <1>1, <1>2, DiffOfCounts DEF IInv, EndsCounted, StandsAt
  <1>6. ASSUME d.seq < got PROVE FALSE
    <2>1. /\ d.seq - got \in Int /\ d.seq - got < 0
          /\ -(MaxCycle - CycleThreshold) < d.seq - got
      BY <1>1, <1>2, <1>4, <1>6, ConstantFacts
    <2>2. -MaxCycle <= d.seq - got
      BY <2>1, ConstantFacts
    <2>3. (d.seq - got) % MaxCycle = (d.seq - got) + MaxCycle
      BY <2>1, <2>2, ConstantFacts, ModBelowZero
    <2>4. CycleDiff(receiver, d.cycle) <= CycleThreshold
      BY <1>5, <2>1, <2>3, ConstantFacts DEF Rejects
    <2> QED BY <1>5, <2>1, <2>3, <2>4, ConstantFacts
  <1> QED BY <1>1, <1>6

\* A call of the sink with the marked input is for its own cycle.
LEMMA SinksMark ==
    ASSUME IInv, NEW d \in wire, ~Rejects(receiver, ReceiverClock, d),
           NEW i \in Sinks(receiver, d, Marked)
    PROVE  got <= mark
  <1> DEFINE up == CatchUp(receiver, d)
             h  == got + GivenUp(receiver, d)
             q  == d.seq
  <1>1. /\ q \in Nat /\ got \in Nat /\ sent \in Nat /\ mark \in Nat \cup {NotPolled}
        /\ d.cycle = q % MaxCycle /\ q < sent
    BY DEF IInv, TypeOK, Datagrams, WireCounted
  <1>2. q \in got .. sent - 1
    BY <1>1, AcceptedAhead
  <1>3. StandsAt(up, h, sent) /\ h \in Nat /\ got <= h /\ h <= q
    <2>1. StandsAt(receiver, got, sent)
      BY DEF IInv, EndsCounted
    <2>2. GivenUp(receiver, d) \in Nat /\ h <= q /\ StandsAt(up, h, sent)
      BY <1>1, <1>2, <2>1, CatchUpStands
    <2> QED BY <1>1, <2>2
  <1>4. i \in Reached(up, d) /\ d.slots[WindowCycle(d, i) % WindowSize] = Marked
    BY DEF Sinks, Unseen, SlotAt
  <1>5. i \in 0 .. WindowSize - 1 /\ i \in Int /\ q - i \in Int
    BY <1>1, <1>4, ConstantFacts DEF Reached, SlotIndex
  <1>6. h <= q - i
    BY <1>1, <1>3, <1>4, ReachedAhead DEF StandsAt
  <1>7. WindowCycle(d, i) % WindowSize = (q - i) % WindowSize
        /\ (q - i) % WindowSize \in SlotIndex
    BY <1>1, <1>5, WindowCycleOfCount, SlotOfCount
  <1>8. /\ mark # NotPolled /\ q - WindowSize < mark /\ mark <= q
        /\ mark % WindowSize = (q - i) % WindowSize
    BY <1>4, <1>7 DEF IInv, WireWindow, Exact
  <1>9. mark = q - i
    <2>1. mark \in Int /\ mark - (q - i) < WindowSize /\ (q - i) - mark < WindowSize
      BY <1>1, <1>5, <1>8, ConstantFacts
    <2> QED BY <1>5, <1>8, <2>1, ConstantFacts, ModEqual
  <1> QED BY <1>1, <1>3, <1>5, <1>6, <1>9

LEMMA SinksCount ==
    ASSUME NEW r, NEW d, NEW input
    PROVE  /\ Cardinality(Sinks(r, d, input)) \in Nat
           /\ Cardinality(Sinks(r, d, input)) # 0 => \E i : i \in Sinks(r, d, input)
  <1>1. Sinks(r, d, input) \subseteq SlotIndex
    BY DEF Sinks, Unseen, Reached
  <1>2. IsFiniteSet(SlotIndex)
    BY ConstantFacts, FS_Interval DEF SlotIndex
  <1>3. IsFiniteSet(Sinks(r, d, input))
    BY <1>1, <1>2, FS_Subset
  <1> QED BY <1>3, FS_CardinalityType, FS_EmptySet

-----------------------------------------------------------------------------
(* The steps.                                                              *)

LEMMA InitInv == Init => IInv
  <1> SUFFICES ASSUME Init PROVE IInv
    OBVIOUS
  <1> USE DEF Init
  <1>1. 0 % MaxCycle = 0 /\ 0 \in Cycles /\ Blank \in Slots /\ Blank # Marked
    BY ConstantFacts, ModSmall, BlankAssumption, LinkAssumption DEF Cycles, Slots
  <1>2. TypeOK
    BY <1>1, LinkAssumption DEF TypeOK, NewSender, NewReceiver, Senders, Receivers
  <1>3. EndsCounted
    BY <1>1, <1>2 DEF EndsCounted, StandsAt, Backed, NewSender, NewReceiver, TypeOK
  <1>4. SenderWindow
    BY <1>1 DEF SenderWindow, NewSender
  <1> QED BY <1>2, <1>3, <1>4 DEF IInv, WireCounted, WireWindow

\* The datagrams that survive a ms are still counted, and new ones are.
LEMMA PollInv == ASSUME IInv, NEW slot \in Slots, Poll(slot) PROVE IInv'
  <1> DEFINE polled == PollSource(sender, slot)
             new == [cycle |-> sender.cycle, timestamp |-> AsU16(now),
                     slots |-> polled.slots, seq |-> sent, at |-> now]
  <1>1. /\ sender \in Senders /\ receiver \in Receivers /\ wire \subseteq Datagrams
        /\ now \in Nat /\ sent \in Nat /\ got \in Nat /\ handled \in Nat
        /\ mark \in Nat \cup {NotPolled} /\ NotPolled \notin Nat
        /\ Lifetime \in Nat /\ MaxTime \in Nat
        /\ WindowSize \in Nat \ {0} /\ MaxCycle \in Nat \ {0}
    BY LinkAssumption, ConstantFacts DEF IInv, TypeOK, NotPolled
  <1>2. /\ now < MaxTime /\ now' = now + 1
        /\ slot = Marked => mark = NotPolled
        /\ mark' = IF slot = Marked THEN sent ELSE mark
        /\ UNCHANGED <<receiver, got, handled>>
    BY DEF Poll
  <1>3. /\ polled \in Senders /\ polled.cycle = sender.cycle
        /\ polled.flags[sender.cycle % WindowSize] = (slot # Blank)
        /\ sender.cycle % WindowSize \in SlotIndex
    BY <1>1, PollSourceType
  <1>4. Exact(polled.slots, sent, mark')
    BY <1>2, PollExact
  <1>5. \/ /\ Transmits(polled)
           /\ sender' = NextCycle(polled) /\ sent' = sent + 1
           /\ wire' = Survivors(wire \cup {new})
        \/ /\ ~Transmits(polled)
           /\ sender' = polled /\ sent' = sent
           /\ wire' = Survivors(wire)
    BY DEF Poll, PollDatagram, Datagram
  <1>6. ~Transmits(polled) => slot # Marked
    BY <1>3, BlankAssumption, LinkAssumption DEF Transmits
  <1>7. mark' \in Nat \cup {NotPolled} /\ sent' \in Nat /\ sent <= sent' /\ sent' <= sent + 1
    BY <1>1, <1>2, <1>5
  <1>a. /\ sent \in Nat /\ got \in Nat /\ sent' \in Nat /\ sent <= sent' /\ sent' <= sent + 1
        /\ WindowSize \in Nat \ {0} /\ MaxCycle \in Nat \ {0}
    BY <1>1, <1>7
  <1>b. mark' # NotPolled => mark' \in Nat
    BY <1>7
  <1>8. new \in Datagrams
    <2>1. AsU16(now) \in Timestamps
      <3>1. U16Max + 1 \in Nat \ {0} /\ now \in Int
        BY <1>1, ConstantFacts
      <3>2. now % (U16Max + 1) \in 0 .. (U16Max + 1) - 1
        BY <3>1, ModRange
      <3> QED BY <3>2, ConstantFacts DEF AsU16, Timestamps
    <2>2. polled.slots \in [SlotIndex -> Slots] /\ sender.cycle \in Cycles
      BY <1>1, <1>3 DEF Senders
    <2> QED BY <1>1, <2>1, <2>2 DEF Datagrams
  <1>9. \A d \in wire' : d.at + Lifetime > now /\ (d \in wire \/ (d = new /\ sent' = sent + 1))
    BY <1>5 DEF Survivors
  <1>10. TypeOK'
    <2>1. sender' \in Senders
      BY <1>3, <1>5, NextCycleType
    <2>2. wire' \subseteq Datagrams
      BY <1>1, <1>8, <1>9
    <2> QED BY <1>1, <1>2, <1>7, <2>1, <2>2 DEF TypeOK
  <1>11. EndsCounted'
    <2>1. sender.cycle = sent % MaxCycle /\ got <= sent /\ StandsAt(receiver, got, sent)
      BY DEF IInv, EndsCounted
    <2>2. sender'.cycle = sent' % MaxCycle
      <3>1. CASE sent' = sent + 1 /\ sender' = NextCycle(polled)
        <4>1. sender'.cycle = ((sent % MaxCycle) + 1) % MaxCycle
          BY <1>3, <2>1, <3>1 DEF NextCycle, Senders
        <4>2. ((sent % MaxCycle) + 1) % MaxCycle = (sent + 1) % MaxCycle
          BY <1>a, sent \in Int, NextCycleOfCount
        <4> QED BY <3>1, <4>1, <4>2
      <3> QED BY <1>3, <1>5, <2>1, <3>1
    <2>3. StandsAt(receiver, got, sent')
      BY <1>a, <2>1, StandsLater
    <2> QED BY <1>1, <1>2, <1>7, <2>1, <2>2, <2>3 DEF EndsCounted
  <1>12. WireCounted'
    <2> SUFFICES ASSUME NEW d \in wire'
                 PROVE  /\ d.cycle = d.seq % MaxCycle /\ d.timestamp = AsU16(d.at)
                        /\ d.seq < sent' /\ d.at < now' /\ now' - d.at <= Lifetime
                        /\ sent' - d.seq <= now' - d.at
      BY DEF WireCounted
    <2>1. d \in Datagrams /\ d.seq \in Nat /\ d.at \in Nat /\ d.at + Lifetime > now
      BY <1>9, <1>10 DEF TypeOK, Datagrams
    <2>2. CASE d \in wire
      BY <1>1, <1>2, <1>7, <2>1, <2>2 DEF IInv, WireCounted
    <2>3. CASE d = new /\ sent' = sent + 1
      BY <1>1, <1>2, <2>1, <2>3 DEF IInv, EndsCounted
    <2> QED BY <1>9, <2>2, <2>3
  <1>13. SenderWindow'
    <2>1. mark' # NotPolled => mark' < sent'
      <3>1. mark # NotPolled => mark < sent
        BY DEF IInv, SenderWindow
      <3> QED BY <1>1, <1>2, <1>5, <1>6, <1>7, <3>1
    <2>2. sender'.slots = polled.slots
      BY <1>3, <1>5 DEF NextCycle, Senders
    <2>3. ASSUME NEW k \in SlotIndex, sender'.slots[k] = Marked
          PROVE  mark' # NotPolled /\ sent' - WindowSize <= mark' /\ mark' % WindowSize = k
      <3>1. mark' # NotPolled /\ sent - WindowSize < mark' /\ mark' % WindowSize = k
        BY <1>4, <2>2, <2>3 DEF Exact
      <3>2. mark' \in Nat /\ sent' - WindowSize <= mark'
        BY <1>a, <1>b, <3>1
      <3> QED BY <3>1, <3>2
    <2>4. ASSUME mark' # NotPolled, sent' - WindowSize < mark'
          PROVE  sender'.slots[mark' % WindowSize] = Marked
      <3>1. mark' \in Int /\ sent - WindowSize < mark' /\ mark' <= sent
        BY <1>a, <1>b, <2>1, <2>4
      <3>2. mark' % WindowSize \in SlotIndex
        BY <3>1, SlotOfCount
      <3> QED BY <1>4, <2>2, <2>4, <3>1, <3>2 DEF Exact
    <2> QED BY <2>1, <2>3, <2>4 DEF SenderWindow
  <1>14. WireWindow'
    <2> SUFFICES ASSUME NEW d \in wire' PROVE Exact(d.slots, d.seq, mark')
      BY DEF WireWindow
    <2>1. CASE d = new
      BY <1>4, <2>1
    <2>2. CASE d \in wire
      <3>1. Exact(d.slots, d.seq, mark) /\ d.seq < sent /\ d.seq \in Nat
        BY <1>1, <2>2 DEF IInv, WireWindow, WireCounted, Datagrams
      <3>2. CASE slot = Marked
        BY <1>1, <1>2, <3>1, <3>2 DEF Exact
      <3>3. CASE slot # Marked
        BY <1>2, <3>1, <3>3
      <3> QED BY <3>2, <3>3
    <2> QED BY <1>9, <2>1, <2>2
  <1> QED BY <1>10, <1>11, <1>12, <1>13, <1>14 DEF IInv

LEMMA TickInv == ASSUME IInv, Tick PROVE IInv'
  <1>1. /\ wire \subseteq Datagrams /\ now \in Nat /\ sent \in Nat
        /\ Lifetime \in Nat /\ MaxTime \in Nat
    BY LinkAssumption DEF IInv, TypeOK
  <1>2. /\ now < MaxTime /\ now' = now + 1
        /\ wire' = {d \in wire : d.at + Lifetime > now}
        /\ UNCHANGED <<sender, receiver, sent, got, mark, handled>>
    BY DEF Tick, Survivors
  <1>3. TypeOK'
    BY <1>1, <1>2 DEF IInv, TypeOK
  <1>4. WireCounted'
    <2> SUFFICES ASSUME NEW d \in wire'
                 PROVE  /\ d.cycle = d.seq % MaxCycle /\ d.timestamp = AsU16(d.at)
                        /\ d.seq < sent' /\ d.at < now' /\ now' - d.at <= Lifetime
                        /\ sent' - d.seq <= now' - d.at
      BY DEF WireCounted
    <2>1. d \in wire /\ d.seq \in Nat /\ d.at \in Nat /\ d.at + Lifetime > now
      BY <1>1, <1>2 DEF Datagrams
    <2> QED BY <1>1, <1>2, <2>1 DEF IInv, WireCounted
  <1>5. EndsCounted' /\ SenderWindow'
    BY <1>2 DEF IInv, EndsCounted, SenderWindow
  <1>6. WireWindow'
    BY <1>2 DEF IInv, WireWindow
  <1> QED BY <1>3, <1>4, <1>5, <1>6 DEF IInv

LEMMA DeliverInv == ASSUME IInv, NEW d \in wire, Deliver(d) PROVE IInv'
  <1>1. UNCHANGED <<sender, wire, now, sent, mark>>
    BY DEF Deliver
  <1>2. /\ d.cycle = d.seq % MaxCycle /\ d.seq < sent /\ d.seq \in Nat
        /\ got \in Nat /\ sent \in Nat /\ handled \in Nat
        /\ StandsAt(receiver, got, sent)
    BY DEF IInv, TypeOK, Datagrams, WireCounted, EndsCounted
  <1>3. CASE Rejects(receiver, ReceiverClock, d)
    <2>1. UNCHANGED vars
      BY <1>1, <1>3 DEF Deliver, vars
    <2> QED BY <2>1 DEF IInv, TypeOK, EndsCounted, WireCounted, SenderWindow, WireWindow, vars
  <1>4. CASE ~Rejects(receiver, ReceiverClock, d)
    <2>1. /\ receiver' = HandleDatagram(receiver, d)
          /\ got' = got + CyclesGained(receiver, d)
          /\ handled' = handled + Cardinality(Sinks(receiver, d, Marked))
      BY <1>4 DEF Deliver
    <2>2. d.seq \in got .. sent - 1
      BY <1>2, <1>4, AcceptedAhead
    <2>3. /\ CyclesGained(receiver, d) \in Nat
          /\ got + CyclesGained(receiver, d) <= sent
          /\ StandsAt(HandleDatagram(receiver, d), got + CyclesGained(receiver, d), sent)
      BY <1>2, <2>2, HandleDatagramStands
    <2>4. got' \in Nat /\ got' <= sent' /\ StandsAt(receiver', got', sent') /\ receiver' \in Receivers
      BY <1>1, <1>2, <2>1, <2>3 DEF StandsAt
    <2>5. handled' \in Nat
      BY <1>2, <2>1, SinksCount
    <2>6. TypeOK'
      BY <1>1, <2>4, <2>5 DEF IInv, TypeOK
    <2>7. EndsCounted'
      BY <1>1, <2>4 DEF IInv, EndsCounted
    <2>8. WireCounted' /\ SenderWindow' /\ WireWindow'
      BY <1>1 DEF IInv, WireCounted, SenderWindow, WireWindow
    <2> QED BY <2>6, <2>7, <2>8 DEF IInv
  <1> QED BY <1>3, <1>4

LEMMA NextInv == IInv /\ [Next]_vars => IInv'
  <1> SUFFICES ASSUME IInv, [Next]_vars PROVE IInv'
    OBVIOUS
  <1>1. CASE \E slot \in Slots : Poll(slot)
    BY <1>1, PollInv
  <1>2. CASE Tick
    BY <1>2, TickInv
  <1>3. CASE \E d \in wire : Deliver(d)
    BY <1>3, DeliverInv
  <1>4. CASE UNCHANGED vars
    BY <1>4 DEF IInv, TypeOK, EndsCounted, WireCounted, SenderWindow, WireWindow, vars
  <1> QED BY <1>1, <1>2, <1>3, <1>4 DEF Next, Rest

\* Whatever the wire does, both ends' wrapped numbers are those of cycles counted
\* without wrapping, a flag that is on is backed by a cycle the sender has used, and
\* every window holds its inputs where they belong (sender.rs:44-87,
\* receiver.rs:46-166).
THEOREM Invariance == Spec => []IInv
  BY InitInv, NextInv, PTL DEF Spec

-----------------------------------------------------------------------------
(* The properties.                                                         *)

\* Both ends keep well-formed state: cycle numbers stay below MaxCycle, flags
\* and slots within their arrays.
THEOREM TypeCorrect == Spec => []TypeOK
  <1>1. IInv => TypeOK
    BY DEF IInv
  <1> QED BY <1>1, Invariance, PTL

\* A receiver never overtakes its sender, whatever the network does.
THEOREM NeverAhead == Spec => []NotAhead
  <1>1. IInv => NotAhead
    BY DEF IInv, EndsCounted, NotAhead
  <1> QED BY <1>1, Invariance, PTL

\* Exactly the WindowSize datagrams from an input's cycle on carry it.
THEOREM WindowCarries == Spec => []CarriedByWindow
  <1>1. IInv => CarriedByWindow
    <2> SUFFICES ASSUME IInv, NEW d \in wire
                 PROVE  Carries(d) <=>
                          mark # NotPolled /\ mark <= d.seq /\ d.seq < mark + WindowSize
      BY DEF CarriedByWindow
    <2>1. d.seq \in Nat /\ mark \in Nat \cup {NotPolled} /\ Exact(d.slots, d.seq, mark)
      BY DEF IInv, TypeOK, Datagrams, WireWindow
    <2>2. ASSUME mark # NotPolled PROVE mark \in Int /\ mark % WindowSize \in SlotIndex
      BY <2>1, <2>2, SlotOfCount
    <2>3. mark # NotPolled => (d.seq - WindowSize < mark <=> d.seq < mark + WindowSize)
      BY <2>1, <2>2, ConstantFacts
    <2> QED BY <2>1, <2>2, <2>3 DEF Carries, Exact
  <1> QED BY <1>1, Invariance, PTL

\* The sink is never called with an input the receiver has moved past.
THEOREM NeverReplayed == Spec => NoReplay
  <1>1. IInv /\ [Next]_vars => [handled' # handled => mark >= got]_vars
    <2> SUFFICES ASSUME IInv, Next, handled' # handled PROVE mark >= got
      OBVIOUS
    <2>1. PICK d \in wire : Deliver(d)
      BY DEF Next, Poll, Tick, Rest, vars
    <2>2. /\ ~Rejects(receiver, ReceiverClock, d)
          /\ handled' = handled + Cardinality(Sinks(receiver, d, Marked))
      BY <2>1 DEF Deliver
    <2>3. handled \in Nat /\ got \in Nat /\ mark \in Int
      BY DEF IInv, TypeOK, NotPolled
    <2>4. PICK i : i \in Sinks(receiver, d, Marked)
      BY <2>2, <2>3, SinksCount
    <2>5. got <= mark
      BY <2>2, <2>4, SinksMark
    <2> QED BY <2>3, <2>5
  <1> QED BY <1>1, Invariance, PTL DEF NoReplay, Spec

\* The clocks' difference and the age of a datagram are together less than a round
\* of a u16.
SkewBounded == ClockSkew \in TimestampThreshold - U16Max .. U16Max - Lifetime

\* However far a receiver lags and whatever the two clocks read, it drops exactly
\* the datagrams that are late, processed or more than CycleThreshold cycles ahead,
\* and takes one whole rounds of cycle numbers ahead for near (receiver.rs:84-92).
THEOREM DroppedExactly ==
    ASSUME SkewBounded
    PROVE  Spec => []OnlyBadDropped
  <1>1. IInv => OnlyBadDropped
    <2> SUFFICES ASSUME IInv, NEW d \in wire
                 PROVE  Rejects(receiver, ReceiverClock, d) <=>
                            \/ Late(d)
                            \/ d.seq < got
                            \/ (d.seq - got) % MaxCycle > CycleThreshold
      BY DEF OnlyBadDropped
    <2> DEFINE age == now - d.at
               U   == U16Max + 1
    <2>1. /\ d.seq \in Nat /\ got \in Nat /\ sent \in Nat
          /\ age \in 0 .. Lifetime /\ age + ClockSkew \in Int
          /\ age + ClockSkew <= U16Max /\ TimestampThreshold - U16Max <= age + ClockSkew
          /\ U16Max \in Nat /\ U \in Nat \ {0} /\ TimestampThreshold \in Nat
      BY LinkAssumption, ConstantFacts DEF IInv, TypeOK, Datagrams, WireCounted, SkewBounded
    <2>2. CycleDiff(receiver, d.cycle) = (d.seq - got) % MaxCycle
      BY <2>1, DiffOfCounts DEF IInv, WireCounted, EndsCounted, StandsAt
    <2>3. TimestampDiff(ReceiverClock, d.timestamp) = AsU16(age + ClockSkew)
      BY AgeSeen
    <2>4. AsU16(age + ClockSkew) > TimestampThreshold <=> age + ClockSkew \notin 0 .. TimestampThreshold
      <3>1. CASE age + ClockSkew >= 0
        <4>1. 0 <= age + ClockSkew /\ age + ClockSkew < U /\ age + ClockSkew \in Int
          BY <2>1, <3>1
        <4>2. AsU16(age + ClockSkew) = age + ClockSkew
          BY <2>1, <4>1, ModSmall DEF AsU16
        <4> QED BY <2>1, <3>1, <4>2
      <3>2. CASE age + ClockSkew < 0
        <4>1. -U <= age + ClockSkew
          BY <2>1
        <4>2. AsU16(age + ClockSkew) = (age + ClockSkew) + U
          BY <2>1, <3>2, <4>1, ModBelowZero DEF AsU16
        <4> QED BY <2>1, <3>2, <4>2
      <3> QED BY <2>1, <3>1, <3>2
    <2>5. d.seq < got => Rejects(receiver, ReceiverClock, d)
      BY <2>1, AcceptedAhead
    <2> QED BY <2>2, <2>3, <2>4, <2>5 DEF Rejects, Late
  <1> QED BY <1>1, Invariance, PTL

-----------------------------------------------------------------------------
(* On a calm network.                                                      *)

\* Cycles less than FlagsApart apart have flags of their own: MaxBuffered of
\* them in a row do, but where the cycle numbers wrap and MaxCycle is not a
\* multiple of MaxBuffered, only the remainder (7 for a window of 3).
FlagsApart == IF MaxCycle % MaxBuffered = 0 THEN MaxBuffered ELSE MaxCycle % MaxBuffered

\* The network is calm enough for the flags to tell the cycles between the
\* two ends apart.
CalmBound == LagBound <= FlagsApart

\* The flag of a cycle counted from the start of the session.
Seen(r, c) == r.flags[FlagOf(c % MaxCycle)]

\* The marked input has been handled once it is behind the receiver and, before,
\* exactly if its flag is set.
HandledOnce ==
    /\ handled \in {0, 1}
    /\ mark = NotPolled => handled = 0
    /\ mark # NotPolled /\ mark < got => handled = 1
    /\ mark # NotPolled /\ got <= mark => (Seen(receiver, mark) <=> handled = 1)

CalmInv == IInv /\ Calm /\ HandledOnce

LEMMA FlagsApartFacts ==
    /\ FlagsApart \in Nat
    /\ FlagsApart <= MaxBuffered
    /\ MaxBuffered <= MaxCycle
    /\ LagBound \in Nat
  <1>1. MaxCycle % MaxBuffered \in 0 .. MaxBuffered - 1
    BY ConstantFacts, ModRange
  <1> QED BY <1>1, ConstantFacts, LinkAssumption DEF FlagsApart

\* How calm the network has to be for the code's u16 and its windows: of 1 in the
\* command line server, of 3 in its client and in the tests (proto/constants.rs:11-17).
LEMMA CodeFlagsApart ==
    ASSUME U16Max = 65535, SmallWindow = 4, WindowSize \in {1, 3}
    PROVE  FlagsApart = 7
  <1>1. MaxCycle = 65535
    BY SMT DEF MaxCycle
  <1>2. MaxBuffered = 8
    BY SMT DEF MaxBuffered
  <1> QED BY <1>1, <1>2, SMT DEF FlagsApart

\* Two cycles with one flag are at least FlagsApart apart.
LEMMA DistinctFlags ==
    ASSUME NEW a \in Int, NEW b \in Int, a < b, b - a < FlagsApart
    PROVE  FlagOf(a % MaxCycle) # FlagOf(b % MaxCycle)
  <1> DEFINE M == MaxCycle
             B == MaxBuffered
             n == b - a
  <1>1. M \in Nat \ {0} /\ B \in Nat \ {0} /\ n \in Int /\ 0 < n /\ n < B /\ B <= M
    BY FlagsApartFacts, ConstantFacts
  <1>2. PICK q \in Int, x \in 0 .. M - 1 : a = M * q + x /\ a % M = x
    BY <1>1, ModSplit
  <1>3. b = (x + n) + M * q /\ x + n \in Int /\ M * q \in Int
    BY <1>1, <1>2
  <1>4. b % M = (x + n) % M
    <2>1. M \in Nat \ {0} /\ b \in Int /\ q \in Int
      BY <1>1, <1>2
    <2> QED BY <1>3, <2>1, ModShift
  <1> SUFFICES ASSUME x % B = (b % M) % B PROVE FALSE
    BY <1>2 DEF FlagOf
  <1>5. CASE x + n < M
    <2>1. b % M = x + n
      BY <1>1, <1>2, <1>3, <1>4, <1>5, ModSmall
    <2>2. x \in Int /\ x + n \in Int /\ x - (x + n) < B /\ (x + n) - x < B
      BY <1>1, <1>2
    <2>3. x = x + n
      BY <1>1, <2>1, <2>2, ModEqual
    <2> QED BY <1>1, <2>2, <2>3
  <1>6. CASE M <= x + n
    <2> DEFINE y == (x + n) - M
    <2>1. y \in Int /\ 0 <= y /\ y < M /\ y + M = x + n
      BY <1>1, <1>2, <1>6
    <2>2. (y + M) % M = y % M /\ y % M = y
      BY <1>1, <2>1, ModPlus, ModSmall
    <2>3. b % M = y
      BY <1>4, <2>1, <2>2
    <2>4. PICK k \in Int : x = y + B * k
      <3>1. x \in Int /\ y \in Int /\ x % B = y % B
        BY <1>2, <2>1, <2>3
      <3> QED BY <1>1, <3>1, ModMultiple
    <2>5. M = n + B * k /\ M \in Int
      BY <1>1, <1>2, <2>1, <2>4
    <2>6. M % B = n % B
      <3>1. B \in Nat \ {0} /\ M \in Int /\ n \in Int /\ k \in Int
        BY <1>1, <2>5
      <3> QED BY <2>5, <3>1, ModShift
    <2>7. n % B = n
      BY <1>1, ModSmall
    <2> QED BY <1>1, <2>6, <2>7 DEF FlagsApart
  <1> QED BY <1>1, <1>2, <1>5, <1>6

LEMMA SameFlag ==
    ASSUME NEW g \in Nat, NEW s \in Nat, s - g <= FlagsApart,
           NEW a \in g .. s - 1, NEW b \in g .. s - 1,
           FlagOf(a % MaxCycle) = FlagOf(b % MaxCycle)
    PROVE  a = b
  <1>1. /\ a \in Int /\ b \in Int
        /\ a - b < FlagsApart /\ b - a < FlagsApart
    BY FlagsApartFacts
  <1>2. ~(a < b)
    BY <1>1, DistinctFlags
  <1>3. ~(b < a)
    BY <1>1, DistinctFlags
  <1> QED BY <1>1, <1>2, <1>3

\* The cycle of a datagram between the two ends lies at its distance.
LEMMA NearDiff ==
    ASSUME NEW r, NEW g \in Nat, NEW s \in Nat, StandsAt(r, g, s), s - g <= FlagsApart,
           NEW d, NEW q \in g .. s - 1, d.cycle = q % MaxCycle
    PROVE  CycleDiff(r, d.cycle) = q - g
  <1>1. CycleDiff(r, d.cycle) = (q - g) % MaxCycle
    BY DiffOfCounts DEF StandsAt
  <1>2. q - g \in Int /\ 0 <= q - g /\ q - g < MaxCycle
    BY FlagsApartFacts, ConstantFacts
  <1>3. (q - g) % MaxCycle = q - g
    BY <1>2, ConstantFacts, ModSmall
  <1> QED BY <1>1, <1>3

\* Such a datagram gives no cycle up.
LEMMA NearGivenUp ==
    ASSUME NEW r, NEW g \in Nat, NEW s \in Nat, StandsAt(r, g, s), s - g <= FlagsApart,
           NEW d, NEW q \in g .. s - 1, d.cycle = q % MaxCycle
    PROVE  GivenUp(r, d) = 0
  <1>1. CycleDiff(r, d.cycle) = q - g
    BY NearDiff
  <1>2. q - g \in Int /\ q - g < MaxBuffered
    BY FlagsApartFacts, ConstantFacts
  <1> QED BY <1>1, <1>2, ConstantFacts DEF GivenUp

\* The catch-up does nothing then.
LEMMA NearCatchUp ==
    ASSUME NEW r, NEW g \in Nat, NEW s, StandsAt(r, g, s), NEW d, GivenUp(r, d) = 0
    PROVE  CatchUp(r, d) = r
  <1>1. r.cycle = g % MaxCycle /\ r \in Receivers
    BY DEF StandsAt
  <1>2. Ahead(r, 0) = r.cycle
    BY <1>1, AheadOfCount, g + 0 = g
  <1>3. StepOver(r, 0) = [cycle |-> r.cycle, flags |-> r.flags]
    <2>1. r.flags \in [FlagIndex -> BOOLEAN]
      BY <1>1 DEF Receivers
    <2>2. r.flags = [j \in FlagIndex |-> r.flags[j] /\ \A k \in 0 .. 0 - 1 : FlagOf(Ahead(r, k)) # j]
      BY <2>1
    <2> QED BY <1>2, <2>2 DEF StepOver
  <1>4. r = [cycle |-> r.cycle, flags |-> r.flags]
    BY <1>1 DEF Receivers
  <1> QED BY <1>3, <1>4 DEF CatchUp

\* Its sink loop reaches every cycle of its window from the receiver's on, ...
LEMMA NearReached ==
    ASSUME NEW r, NEW g \in Nat, NEW s \in Nat, StandsAt(r, g, s), s - g <= FlagsApart,
           NEW d, NEW q \in g .. s - 1, d.cycle = q % MaxCycle, NEW i \in SlotIndex
    PROVE  i \in Reached(r, d) <=> g <= q - i
  <1>1. r.cycle = g % MaxCycle /\ i \in 0 .. WindowSize - 1 /\ q \in Nat
    BY DEF StandsAt, SlotIndex
  <1>2. ASSUME g <= q - i, NEW k \in 0 .. i
        PROVE  CycleDiff(r, WindowCycle(d, k)) <= MaxBuffered
    <2>1. k \in Int /\ q - k \in Int /\ (q - k) - g \in Int
          /\ 0 <= (q - k) - g /\ (q - k) - g < MaxBuffered /\ (q - k) - g < MaxCycle
      BY <1>1, <1>2, FlagsApartFacts, ConstantFacts
    <2>2. CycleDiff(r, WindowCycle(d, k)) = ((q - k) - g) % MaxCycle
      BY <1>1, <2>1, WindowCycleOfCount, DiffOfCounts
    <2>3. ((q - k) - g) % MaxCycle = (q - k) - g
      BY <2>1, ConstantFacts, ModSmall
    <2> QED BY <2>1, <2>2, <2>3, ConstantFacts
  <1>3. g <= q - i => i \in Reached(r, d)
    BY <1>2 DEF Reached
  <1>4. i \in Reached(r, d) => g <= q - i
    BY <1>1, ReachedAhead
  <1> QED BY <1>3, <1>4

\* ... takes those for unseen whose own flag is clear, ...
LEMMA NearUnseen ==
    ASSUME NEW r, NEW g \in Nat, NEW s \in Nat, StandsAt(r, g, s), s - g <= FlagsApart,
           NEW d, NEW q \in g .. s - 1, d.cycle = q % MaxCycle, NEW i \in SlotIndex
    PROVE  i \in Unseen(r, d) <=> g <= q - i /\ ~Seen(r, q - i)
  <1>1. i \in 0 .. WindowSize - 1 /\ q \in Nat /\ i \in Int
    BY ConstantFacts DEF SlotIndex
  <1>2. WindowCycle(d, i) = (q - i) % MaxCycle
    BY <1>1, WindowCycleOfCount
  <1>3. ASSUME g <= q - i, NEW k \in 0 .. i - 1
        PROVE  FlagOf(WindowCycle(d, k)) # FlagOf(WindowCycle(d, i))
    <2>1. WindowCycle(d, k) = (q - k) % MaxCycle
      BY <1>1, WindowCycleOfCount
    <2>2. q - i \in g .. s - 1 /\ q - k \in g .. s - 1 /\ q - k # q - i
      BY <1>1, <1>3
    <2> QED BY <1>2, <2>1, <2>2, SameFlag
  <1>4. i \in Reached(r, d) <=> g <= q - i
    BY NearReached
  <1> QED BY <1>2, <1>3, <1>4 DEF Unseen, Seen

\* ... and flags them all and no other between the two ends.
LEMMA NearFlags ==
    ASSUME NEW r, NEW g \in Nat, NEW s \in Nat, StandsAt(r, g, s), s - g <= FlagsApart,
           NEW d, NEW q \in g .. s - 1, d.cycle = q % MaxCycle, NEW c \in g .. s - 1
    PROVE  Seen(FlagWindow(r, d), c) <=>
              Seen(r, c) \/ (q - WindowSize < c /\ c <= q)
  <1>1. r.flags \in [FlagIndex -> BOOLEAN] /\ r \in Receivers /\ FlagOf(c % MaxCycle) \in FlagIndex
    BY FlagOfIndex DEF StandsAt, Receivers
  <1>2. Seen(FlagWindow(r, d), c) <=>
           Seen(r, c) \/ \E i \in Reached(r, d) : FlagOf(WindowCycle(d, i)) = FlagOf(c % MaxCycle)
    BY <1>1 DEF FlagWindow, Seen, Receivers
  <1>3. ASSUME NEW i \in Reached(r, d), FlagOf(WindowCycle(d, i)) = FlagOf(c % MaxCycle)
        PROVE  q - WindowSize < c /\ c <= q
    <2>1. i \in SlotIndex /\ i \in 0 .. WindowSize - 1 /\ i \in Int
      BY ConstantFacts DEF Reached, SlotIndex
    <2>2. g <= q - i
      BY <2>1, NearReached
    <2>3. WindowCycle(d, i) = (q - i) % MaxCycle /\ q - i \in g .. s - 1
      BY <2>1, <2>2, WindowCycleOfCount
    <2>4. q - i = c
      BY <1>3, <2>3, SameFlag
    <2> QED BY <2>1, <2>4, ConstantFacts
  <1>4. ASSUME q - WindowSize < c, c <= q
        PROVE  \E i \in Reached(r, d) : FlagOf(WindowCycle(d, i)) = FlagOf(c % MaxCycle)
    <2>1. q - c \in SlotIndex /\ q - (q - c) = c /\ q - c \in Int
      BY <1>4, ConstantFacts DEF SlotIndex
    <2>2. q - c \in Reached(r, d)
      <3>1. \A i \in SlotIndex : i \in Reached(r, d) <=> g <= q - i
        BY NearReached
      <3> QED BY <2>1, <3>1
    <2>3. WindowCycle(d, q - c) = c % MaxCycle
      BY <2>1, WindowCycleOfCount
    <2> QED BY <2>2, <2>3
  <1> QED BY <1>2, <1>3, <1>4

\* The advance loop passes cycles that are flagged and leaves the flags of the
\* others as they are.
LEMMA NearAdvance ==
    ASSUME NEW r, NEW g \in Nat, NEW s \in Nat, StandsAt(r, g, s), s - g <= FlagsApart,
           NEW c \in g .. s - 1
    PROVE  /\ c < g + RunLength(r) => Seen(r, c)
           /\ g + RunLength(r) <= c => (Seen(Advance(r), c) <=> Seen(r, c))
  <1>1. RunLength(r) \in Nat /\ g \in Int /\ s \in Int /\ c \in Int
    BY PassesBelowRun
  <1>2. \A k \in Int : Ahead(r, k) = (g + k) % MaxCycle
    BY AheadOfCount DEF StandsAt
  <1>3. ASSUME c < g + RunLength(r) PROVE Seen(r, c)
    <2>1. c - g \in Nat /\ c - g < RunLength(r) /\ g + (c - g) = c
      BY <1>1, <1>3
    <2>2. Passes(r, c - g)
      BY <2>1, PassesBelowRun
    <2>3. Ahead(r, c - g) = c % MaxCycle
      BY <1>2, <2>1
    <2> QED BY <2>2, <2>3 DEF Passes, Seen
  <1>4. ASSUME g + RunLength(r) <= c
        PROVE  Seen(Advance(r), c) <=> Seen(r, c)
    <2>1. ASSUME NEW k \in 0 .. RunLength(r) - 1
          PROVE  FlagOf(Ahead(r, k)) # FlagOf(c % MaxCycle)
      <3>1. g + k \in g .. s - 1 /\ g + k # c /\ Ahead(r, k) = (g + k) % MaxCycle
        BY <1>1, <1>2, <1>4
      <3> QED BY <3>1, SameFlag
    <2>2. FlagOf(c % MaxCycle) \in FlagIndex /\ r.flags \in [FlagIndex -> BOOLEAN]
      BY FlagOfIndex DEF StandsAt, Receivers
    <2> QED BY <2>1, <2>2 DEF Advance, StepOver, Seen
  <1> QED BY <1>3, <1>4

LEMMA CalmInit == Init => CalmInv
  <1> SUFFICES ASSUME Init PROVE CalmInv
    OBVIOUS
  <1>1. IInv
    BY InitInv
  <1>2. Calm /\ HandledOnce
    BY LinkAssumption DEF Init, Calm, HandledOnce
  <1> QED BY <1>1, <1>2 DEF CalmInv

\* The cycle that is polled next has its flag clear.
LEMMA PollHandled ==
    ASSUME CalmBound, CalmInv, Calm', NEW slot \in Slots, Poll(slot)
    PROVE  HandledOnce'
  <1>1. /\ sent \in Nat /\ got \in Nat /\ mark \in Nat \cup {NotPolled} /\ NotPolled \notin Nat
        /\ StandsAt(receiver, got, sent) /\ got <= sent
        /\ mark # NotPolled => mark < sent
        /\ LagBound \in Nat /\ FlagsApart \in Nat
    BY FlagsApartFacts DEF CalmInv, IInv, TypeOK, EndsCounted, SenderWindow, NotPolled
  <1>2. /\ slot = Marked => mark = NotPolled
        /\ mark' = IF slot = Marked THEN sent ELSE mark
        /\ UNCHANGED <<receiver, got, handled>>
    BY DEF Poll
  <1>3. CASE slot # Marked
    BY <1>2, <1>3 DEF CalmInv, HandledOnce
  <1>4. CASE slot = Marked
    <2>1. sent' = sent + 1
      <3>1. PollSource(sender, slot).flags[sender.cycle % WindowSize] /\ sender.cycle % WindowSize \in SlotIndex
        BY <1>4, PollSourceType, BlankAssumption, LinkAssumption DEF CalmInv, IInv, TypeOK
      <3>2. Transmits(PollSource(sender, slot))
        BY <3>1 DEF Transmits
      <3> QED BY <3>2 DEF Poll
    <2>2. sent - got < FlagsApart
      BY <1>1, <1>2, <2>1 DEF Calm, CalmBound
    <2>3. ASSUME Seen(receiver, sent) PROVE FALSE
      <3>1. PICK c \in got .. sent - 1 : FlagOf(c % MaxCycle) = FlagOf(sent % MaxCycle)
        <4>1. FlagOf(sent % MaxCycle) \in FlagIndex
          BY <1>1, sent \in Int, FlagOfIndex
        <4> QED BY <1>1, <2>3, <4>1 DEF Seen, StandsAt, Backed
      <3>2. c \in Int /\ sent \in Int /\ c < sent /\ sent - c < FlagsApart
        BY <1>1, <2>2
      <3> QED BY <3>1, <3>2, DistinctFlags
    <2>4. handled = 0
      BY <1>2, <1>4 DEF CalmInv, HandledOnce
    <2>5. mark' = sent /\ got' = got /\ receiver' = receiver /\ handled' = 0
      BY <1>2, <1>4, <2>4
    <2>6. ~Seen(receiver', mark')
      BY <2>3, <2>5
    <2> QED BY <1>1, <2>5, <2>6 DEF HandledOnce
  <1> QED BY <1>3, <1>4

\* The sink is called with the marked input exactly if the datagram carries it
\* and its flag is clear, and then once.
LEMMA CalmSinks ==
    ASSUME CalmBound, CalmInv, NEW d \in wire, ~Rejects(receiver, ReceiverClock, d)
    PROVE  Cardinality(Sinks(receiver, d, Marked)) =
              IF /\ mark # NotPolled
                 /\ got <= mark /\ d.seq - WindowSize < mark /\ mark <= d.seq
                 /\ ~Seen(receiver, mark)
              THEN 1 ELSE 0
  <1> DEFINE q == d.seq
             S == Sinks(receiver, d, Marked)
             Is == /\ mark # NotPolled
                   /\ got <= mark /\ q - WindowSize < mark /\ mark <= q
                   /\ ~Seen(receiver, mark)
  <1>1. /\ q \in got .. sent - 1 /\ got \in Nat /\ sent \in Nat /\ q \in Nat
        /\ d.cycle = q % MaxCycle
        /\ StandsAt(receiver, got, sent) /\ sent - got <= FlagsApart
        /\ mark \in Nat \cup {NotPolled}
    <2>1. got <= q
      BY AcceptedAhead DEF CalmInv
    <2>2. q \in Nat /\ got \in Nat /\ sent \in Nat /\ q < sent
      BY DEF CalmInv, IInv, TypeOK, Datagrams, WireCounted
    <2>3. sent - got <= FlagsApart
      BY <2>2, FlagsApartFacts DEF CalmInv, Calm, CalmBound
    <2> QED BY <2>1, <2>2, <2>3 DEF CalmInv, IInv, TypeOK, EndsCounted, WireCounted
  <1>2. CatchUp(receiver, d) = receiver
    <2>1. GivenUp(receiver, d) = 0
      BY <1>1, NearGivenUp
    <2> QED BY <1>1, <2>1, NearCatchUp
  <1>3. ASSUME NEW i \in SlotIndex
        PROVE  i \in S <=> Is /\ i = q - mark
    <2>1. i \in 0 .. WindowSize - 1 /\ i \in Int /\ q - i \in Int
      BY <1>1, ConstantFacts DEF SlotIndex
    <2>2. WindowCycle(d, i) % WindowSize = (q - i) % WindowSize
          /\ (q - i) % WindowSize \in SlotIndex
      BY <1>1, <2>1, WindowCycleOfCount, SlotOfCount
    <2>3. SlotAt(d, i) = Marked <=>
             mark # NotPolled /\ q - WindowSize < mark /\ mark <= q
             /\ mark % WindowSize = (q - i) % WindowSize
      BY <2>2 DEF CalmInv, IInv, WireWindow, Exact, SlotAt
    <2>4. SlotAt(d, i) = Marked <=> mark # NotPolled /\ mark = q - i
      <3>1. ASSUME mark # NotPolled, q - WindowSize < mark, mark <= q,
                   mark % WindowSize = (q - i) % WindowSize
            PROVE  mark = q - i
        <4>1. mark \in Int /\ mark - (q - i) < WindowSize /\ (q - i) - mark < WindowSize
          BY <1>1, <2>1, <3>1, ConstantFacts
        <4> QED BY <2>1, <3>1, <4>1, ConstantFacts, ModEqual
      <3>2. ASSUME mark # NotPolled, mark = q - i
            PROVE  q - WindowSize < mark /\ mark <= q
        BY <1>1, <2>1, <3>2, ConstantFacts
      <3> QED BY <2>3, <3>1, <3>2
    <2>5. i \in Unseen(receiver, d) <=> got <= q - i /\ ~Seen(receiver, q - i)
      BY <1>1, NearUnseen
    <2>6. i \in S <=> mark # NotPolled /\ mark = q - i /\ got <= mark /\ ~Seen(receiver, mark)
      BY <1>2, <2>4, <2>5 DEF Sinks
    <2>7. mark # NotPolled => (mark = q - i <=> i = q - mark)
      BY <1>1, <2>1
    <2>8. mark # NotPolled /\ mark = q - i => q - WindowSize < mark /\ mark <= q
      BY <1>1, <2>1, ConstantFacts
    <2> QED BY <2>6, <2>7, <2>8
  <1>4. S \subseteq SlotIndex
    BY DEF Sinks, Unseen, Reached
  <1>5. CASE Is
    <2>1. q - mark \in SlotIndex
      BY <1>1, <1>5, ConstantFacts DEF SlotIndex
    <2>2. S = {q - mark}
      BY <1>3, <1>4, <1>5, <2>1
    <2>3. Cardinality(S) = 1
      BY <2>2, FS_Singleton
    <2> QED BY <1>5, <2>3
  <1>6. CASE ~Is
    <2>1. S = {}
      BY <1>3, <1>4, <1>6
    <2>2. Cardinality(S) = 0
      BY <2>1, FS_EmptySet
    <2> QED BY <1>6, <2>2
  <1> QED BY <1>5, <1>6

\* After an accepted datagram the marked input is handled if it was before, if
\* the receiver has moved past it or if the datagram carries it.
LEMMA DeliverHandled ==
    ASSUME CalmBound, CalmInv, NEW d \in wire, Deliver(d),
           ~Rejects(receiver, ReceiverClock, d)
    PROVE  /\ HandledOnce'
           /\ Carries(d) => handled' = 1
  <1> DEFINE q  == d.seq
             fl == FlagWindow(receiver, d)
             Is == /\ mark # NotPolled
                   /\ got <= mark /\ q - WindowSize < mark /\ mark <= q
                   /\ ~Seen(receiver, mark)
  <1>1. /\ q \in got .. sent - 1 /\ got \in Nat /\ sent \in Nat /\ q \in Nat
        /\ d.cycle = q % MaxCycle
        /\ StandsAt(receiver, got, sent) /\ sent - got <= FlagsApart
        /\ mark \in Nat \cup {NotPolled} /\ NotPolled \notin Nat
        /\ mark # NotPolled => mark < sent
        /\ WindowSize \in Nat
    <2>1. got <= q
      BY AcceptedAhead DEF CalmInv
    <2>2. q \in Nat /\ got \in Nat /\ sent \in Nat /\ q < sent
      BY DEF CalmInv, IInv, TypeOK, Datagrams, WireCounted
    <2>3. sent - got <= FlagsApart
      BY <2>2, FlagsApartFacts DEF CalmInv, Calm, CalmBound
    <2> QED BY <2>1, <2>2, <2>3, ConstantFacts
            DEF CalmInv, IInv, TypeOK, EndsCounted, WireCounted, SenderWindow, NotPolled
  <1>2. /\ GivenUp(receiver, d) = 0 /\ CatchUp(receiver, d) = receiver
        /\ RunLength(fl) \in Nat
        /\ StandsAt(fl, got, sent)
    <2>1. GivenUp(receiver, d) = 0 /\ CatchUp(receiver, d) = receiver
      <3>1. /\ got \in Nat /\ sent \in Nat /\ StandsAt(receiver, got, sent)
            /\ sent - got <= FlagsApart /\ q \in got .. sent - 1 /\ d.cycle = q % MaxCycle
        BY <1>1
      <3>2. GivenUp(receiver, d) = 0
        BY <3>1, NearGivenUp
      <3>3. CatchUp(receiver, d) = receiver
        BY <3>1, <3>2, NearCatchUp
      <3> QED BY <3>2, <3>3
    <2>2. StandsAt(fl, got, sent)
      BY <1>1, FlagWindowStands
    <2> QED BY <2>1, <2>2, PassesBelowRun
  <1>3. /\ receiver' = Advance(fl)
        /\ got' = got + RunLength(fl)
        /\ handled' = handled + IF Is THEN 1 ELSE 0
        /\ UNCHANGED <<sent, mark>>
    <2>1. CyclesGained(receiver, d) = RunLength(fl) /\ HandleDatagram(receiver, d) = Advance(fl)
      BY <1>2 DEF CyclesGained, HandleDatagram
    <2> QED BY <2>1, CalmSinks DEF Deliver
  <1>4. CASE mark = NotPolled
    <2>1. handled' = 0
      BY <1>3, <1>4 DEF CalmInv, HandledOnce
    <2>2. ~Carries(d)
      BY <1>4 DEF Carries, CalmInv, IInv, WireWindow, Exact
    <2> QED BY <1>3, <1>4, <2>1, <2>2 DEF HandledOnce
  <1>5. CASE mark # NotPolled /\ mark < got
    <2>1. handled' = 1 /\ mark' < got'
      BY <1>1, <1>2, <1>3, <1>5 DEF CalmInv, HandledOnce
    <2> QED BY <1>1, <1>2, <1>3, <1>5, <2>1 DEF HandledOnce
  <1>6. CASE mark # NotPolled /\ got <= mark
    <2>1. mark \in got .. sent - 1 /\ mark \in Int
      BY <1>1, <1>6
    <2>2. Seen(receiver, mark) <=> handled = 1
      BY <1>6 DEF CalmInv, HandledOnce
    <2>3. handled \in {0, 1}
      BY DEF CalmInv, HandledOnce
    <2>4. Seen(fl, mark) <=> Seen(receiver, mark) \/ (q - WindowSize < mark /\ mark <= q)
      BY <1>1, <2>1, NearFlags
    <2>5. handled' \in {0, 1} /\ (Seen(fl, mark) <=> handled' = 1)
      BY <1>3, <1>6, <2>2, <2>3, <2>4
    <2>6. /\ mark < got + RunLength(fl) => Seen(fl, mark)
          /\ got + RunLength(fl) <= mark => (Seen(Advance(fl), mark) <=> Seen(fl, mark))
      BY <1>1, <1>2, <2>1, NearAdvance
    <2>7. HandledOnce'
      BY <1>3, <1>6, <2>5, <2>6 DEF HandledOnce
    <2>8. Carries(d) => q - WindowSize < mark /\ mark <= q
      BY DEF Carries, CalmInv, IInv, WireWindow, Exact
    <2> QED BY <2>4, <2>5, <2>7, <2>8
  <1> QED BY <1>1, <1>4, <1>5, <1>6

LEMMA CalmNext == CalmBound /\ CalmInv /\ [Next /\ Calm']_vars => CalmInv'
  <1> SUFFICES ASSUME CalmBound, CalmInv, [Next /\ Calm']_vars PROVE CalmInv'
    OBVIOUS
  <1>1. IInv'
    BY NextInv DEF CalmInv
  <1>2. Calm'
    BY DEF CalmInv, Calm, vars
  <1>3. HandledOnce'
    <2>1. CASE \E slot \in Slots : Poll(slot)
      BY <1>2, <2>1, PollHandled
    <2>2. CASE Tick
      BY <2>2 DEF Tick, CalmInv, HandledOnce
    <2>3. ASSUME NEW d \in wire, Deliver(d) PROVE HandledOnce'
      <3>1. CASE ~Rejects(receiver, ReceiverClock, d)
        BY <2>3, <3>1, DeliverHandled
      <3>2. CASE Rejects(receiver, ReceiverClock, d)
        BY <2>3, <3>2 DEF Deliver, CalmInv, HandledOnce
      <3> QED BY <3>1, <3>2
    <2>4. CASE UNCHANGED vars
      BY <2>4 DEF vars, CalmInv, HandledOnce
    <2> QED BY <2>1, <2>2, <2>3, <2>4 DEF Next, Rest
  <1> QED BY <1>1, <1>2, <1>3 DEF CalmInv

\* While the sender is at most FlagsApart cycles ahead, an input was handled once if
\* its cycle is passed or flagged, and not at all otherwise (receiver.rs:116-165).
THEOREM CalmInvariance ==
    ASSUME CalmBound
    PROVE  CalmSpec => []CalmInv
  <1>1. CalmInv /\ [Next /\ Calm']_vars => CalmInv'
    BY CalmNext
  <1> QED BY <1>1, CalmInit, PTL DEF CalmSpec

\* No input is handled twice.
THEOREM HandledAtMostOnce ==
    ASSUME CalmBound
    PROVE  CalmSpec => []AtMostOnce
  <1>1. CalmInv => AtMostOnce
    BY DEF CalmInv, HandledOnce, AtMostOnce
  <1> QED BY <1>1, CalmInvariance, PTL

\* The receiver moves past no input before it is handled.
THEOREM NothingSkipped ==
    ASSUME CalmBound
    PROVE  CalmSpec => []NoSkip
  <1>1. CalmInv => NoSkip
    BY DEF CalmInv, HandledOnce, NoSkip
  <1> QED BY <1>1, CalmInvariance, PTL

\* Any one of the datagrams that carry an input has it handled.
THEOREM LossRepaired ==
    ASSUME CalmBound
    PROVE  CalmSpec => RepairsLoss
  <1>1. CalmInv =>
           [\A d \in wire :
               Deliver(d) /\ Carries(d) /\ ~Rejects(receiver, ReceiverClock, d)
                  => handled' = 1]_vars
    BY DeliverHandled
  <1> QED BY <1>1, CalmInvariance, PTL DEF RepairsLoss

-----------------------------------------------------------------------------
(* The refinement of Stream.                                               *)

LEMMA StreamInit == Init => Abstract!Init
  BY DEF Init, Abstract!Init, NotPolled, Abstract!NotPolled

LEMMA StreamEmits ==
    ASSUME CalmInv, NEW slot \in Slots, Poll(slot)
    PROVE  Abstract!Emit \/ UNCHANGED Abstract!vars
  <1>1. CASE Transmits(PollSource(sender, slot))
    BY <1>1 DEF Poll, Abstract!Emit, NotPolled, Abstract!NotPolled
  <1>2. CASE ~Transmits(PollSource(sender, slot))
    <2>1. slot # Marked
      <3>1. PollSource(sender, slot).flags[sender.cycle % WindowSize] = (slot # Blank)
            /\ sender.cycle % WindowSize \in SlotIndex
        BY PollSourceType DEF CalmInv, IInv, TypeOK
      <3> QED BY <1>2, <3>1, BlankAssumption, LinkAssumption DEF Transmits
    <2> QED BY <1>2, <2>1 DEF Poll, Abstract!vars
  <1> QED BY <1>1, <1>2

LEMMA StreamReceives ==
    ASSUME CalmBound, CalmInv, CalmInv', NEW d \in wire, Deliver(d)
    PROVE  Abstract!Receive \/ UNCHANGED Abstract!vars
  <1>1. CASE Rejects(receiver, ReceiverClock, d)
    BY <1>1 DEF Deliver, Abstract!vars
  <1>2. CASE ~Rejects(receiver, ReceiverClock, d)
    <2>1. /\ got \in Nat /\ sent \in Nat /\ mark \in Nat \cup {NotPolled}
          /\ NotPolled \notin Nat /\ NotPolled \in Int
          /\ mark # NotPolled => mark < sent
          /\ got' \in Nat /\ got' <= sent' /\ handled \in {0, 1} /\ handled' \in {0, 1}
          /\ UNCHANGED <<sent, mark>>
          /\ mark # NotPolled /\ mark < got' => handled' = 1
      BY DEF CalmInv, HandledOnce, IInv, TypeOK, EndsCounted, SenderWindow, NotPolled, Deliver
    <2>2. got <= got'
      <3>1. got' = got + CyclesGained(receiver, d) /\ d.seq \in got .. sent - 1
            /\ d.cycle = d.seq % MaxCycle /\ StandsAt(receiver, got, sent)
        BY <1>2, AcceptedAhead, <2>1
           DEF Deliver, CalmInv, IInv, EndsCounted, WireCounted, TypeOK, Datagrams
      <3>2. CyclesGained(receiver, d) \in Nat
        BY <2>1, <3>1, HandleDatagramStands
      <3> QED BY <2>1, <3>1, <3>2
    <2>3. handled' # handled => mark \in got .. sent - 1 /\ handled = 0 /\ handled' = 1
      <3>1. handled' = handled + Cardinality(Sinks(receiver, d, Marked))
        BY <1>2 DEF Deliver
      <3>2. CASE mark # NotPolled /\ got <= mark
        BY <2>1, <3>1, <3>2, <1>2, CalmSinks
      <3>3. CASE ~(mark # NotPolled /\ got <= mark)
        BY <2>1, <3>1, <3>3, <1>2, CalmSinks
      <3> QED BY <3>2, <3>3
    <2>4. got' \in got .. sent
      BY <2>1, <2>2
    <2>5. handled' \in {handled} \cup IF Abstract!Pending THEN {1} ELSE {}
      BY <2>3 DEF Abstract!Pending
    <2>6. mark \in 0 .. got' - 1 => handled' = 1
      <3>1. \A m : \A g \in Nat : m \in 0 .. g - 1 => m \in Nat /\ m < g
        BY SMT
      <3>2. mark \in 0 .. got' - 1 => mark \in Nat /\ mark < got'
        BY <2>1, <3>1, Zenon
      <3> QED BY <2>1, <3>2
    <2> QED BY <2>1, <2>4, <2>5, <2>6 DEF Abstract!Receive
  <1> QED BY <1>1, <1>2

\* On a calm network the two ends are an exactly-once stream.
THEOREM StreamImplemented ==
    ASSUME CalmBound
    PROVE  CalmSpec => ExactlyOnce
  <1>1. CalmInv /\ CalmInv' /\ [Next /\ Calm']_vars => [Abstract!Next]_(Abstract!vars)
    <2> SUFFICES ASSUME CalmInv, CalmInv', [Next /\ Calm']_vars
                 PROVE  Abstract!Next \/ UNCHANGED Abstract!vars
      OBVIOUS
    <2>1. CASE \E slot \in Slots : Poll(slot)
      BY <2>1, StreamEmits DEF Abstract!Next
    <2>2. CASE \E d \in wire : Deliver(d)
      BY <2>2, StreamReceives DEF Abstract!Next
    <2>3. CASE Tick \/ UNCHANGED vars
      BY <2>3 DEF Tick, vars, Abstract!vars
    <2> QED BY <2>1, <2>2, <2>3 DEF Next, Rest
  <1> QED BY <1>1, StreamInit, CalmInvariance, PTL DEF CalmSpec, ExactlyOnce, Abstract!Spec
=============================================================================
