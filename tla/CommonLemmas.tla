---------------------------- MODULE CommonLemmas ----------------------------
(***************************************************************************)
(* Lemmas of several components' proofs: about % with a modulus that is    *)
(* not a literal, which the solvers do not find on their own, and about    *)
(* the channel of session events from the Server to a task.                *)
(***************************************************************************)
EXTENDS Integers, Sequences, TLAPS

-----------------------------------------------------------------------------
(* Remainders.                                                             *)

\* A remainder lies below the modulus.
LEMMA ModRange ==
    ASSUME NEW m \in Nat \ {0}, NEW a \in Int
    PROVE  (a % m) \in 0 .. m - 1
  BY SMT

\* Every integer is a multiple of the modulus plus its remainder.
LEMMA ModQuotient ==
    ASSUME NEW m \in Nat \ {0}, NEW a \in Int
    PROVE  \E q \in Int : a = m * q + (a % m)
  <1>1. (a \div m) \in Int
    BY SMT
  <1>2. a = m * (a \div m) + (a % m)
    BY SMT
  <1> QED BY <1>1, <1>2

\* The remainder is the only such number.
LEMMA ModUnique ==
    ASSUME NEW m \in Nat \ {0}, NEW a \in Int, NEW q \in Int, NEW r \in 0 .. m - 1,
           a = m * q + r
    PROVE  a % m = r
  BY SMT

\* Adding a multiple of the modulus changes no remainder.
LEMMA ModShift ==
    ASSUME NEW m \in Nat \ {0}, NEW a \in Int, NEW b \in Int, NEW k \in Int,
           a = b + m * k
    PROVE  a % m = b % m
  <1>1. PICK q \in Int : b = m * q + (b % m)
    BY ModQuotient
  <1>2. (b % m) \in 0 .. m - 1
    BY ModRange
  <1>3. a = m * (q + k) + (b % m) /\ q + k \in Int
    BY <1>1, <1>2, SMT
  <1> QED BY <1>2, <1>3, ModUnique

LEMMA ModPlus ==
    ASSUME NEW m \in Nat \ {0}, NEW a \in Int
    PROVE  (a + m) % m = a % m
  <1>1. PICK k \in Int : m * k = m
    BY m * 1 = m
  <1>2. a + m = a + m * k /\ a + m \in Int
    BY <1>1
  <1> QED BY <1>2, ModShift

\* Numbers with one remainder differ by a multiple of the modulus.
LEMMA ModMultiple ==
    ASSUME NEW m \in Nat \ {0}, NEW a \in Int, NEW b \in Int, a % m = b % m
    PROVE  \E k \in Int : a = b + m * k
  <1>1. PICK q \in Int : b = m * q + (b % m)
    BY ModQuotient
  <1>2. PICK p \in Int : a = m * p + (a % m)
    BY ModQuotient
  <1>3. a = b + m * (p - q) /\ p - q \in Int
    BY <1>1, <1>2, ModRange, SMT
  <1> QED BY <1>3

\* Numbers with one remainder and less than the modulus apart are equal.
LEMMA ModEqual ==
    ASSUME NEW m \in Nat \ {0}, NEW a \in Int, NEW b \in Int,
           a % m = b % m, a - b < m, b - a < m
    PROVE  a = b
  <1>1. PICK k \in Int : a = b + m * k
    BY ModMultiple
  <1>2. k = 0
    BY <1>1, SMT
  <1> QED BY <1>1, <1>2

\* Multiplication distributes.
LEMMA Distributes ==
    ASSUME NEW m \in Int, NEW a \in Int, NEW b \in Int
    PROVE  m * (a - b) = m * a - m * b
  BY SMT

\* A number as a multiple of the modulus and its remainder, both named.
LEMMA ModSplit ==
    ASSUME NEW m \in Nat \ {0}, NEW a \in Int
    PROVE  \E q \in Int, x \in 0 .. m - 1 : a = m * q + x /\ a % m = x
  BY ModQuotient, ModRange

\* Remainders may be taken before a sum.
LEMMA ModOfSum ==
    ASSUME NEW m \in Nat \ {0}, NEW a \in Int, NEW b \in Int
    PROVE  ((a % m) + b) % m = (a + b) % m
  <1>1. PICK q \in Int, x \in 0 .. m - 1 : a = m * q + x /\ a % m = x
    BY ModSplit
  <1>2. m * q \in Int /\ x \in Int
    BY SMT
  <1>3. a + b = (x + b) + m * q
    BY <1>1, <1>2, SMT
  <1>4. a + b \in Int /\ x + b \in Int
    BY <1>2
  <1>5. (a + b) % m = (x + b) % m
    BY <1>3, <1>4, ModShift
  <1> QED BY <1>1, <1>5

\* ... or a difference, one of whose sides may be raised by the modulus.
LEMMA ModOfDifference ==
    ASSUME NEW m \in Nat \ {0}, NEW a \in Int, NEW b \in Int
    PROVE  /\ ((a % m) - (b % m)) % m = (a - b) % m
           /\ (((a % m) + m) - (b % m)) % m = (a - b) % m
  <1>1. PICK q \in Int, x \in 0 .. m - 1 : a = m * q + x /\ a % m = x
    BY ModSplit
  <1>2. PICK p \in Int, y \in 0 .. m - 1 : b = m * p + y /\ b % m = y
    BY ModSplit
  <1>3. /\ m * q \in Int
        /\ m * p \in Int
        /\ m * (q - p) = m * q - m * p
        /\ m * ((q - p) - 1) = m * (q - p) - m * 1
    BY Distributes
  <1>4. a - b = (x - y) + m * (q - p)
    BY <1>1, <1>2, <1>3, SMT
  <1>5. a - b = ((x + m) - y) + m * ((q - p) - 1)
    BY <1>3, <1>4, SMT
  <1>6. /\ a - b \in Int /\ x - y \in Int /\ (x + m) - y \in Int
        /\ q - p \in Int /\ (q - p) - 1 \in Int
    OBVIOUS
  <1>7. (a - b) % m = (x - y) % m
    BY <1>4, <1>6, ModShift
  <1>8. (a - b) % m = ((x + m) - y) % m
    BY <1>5, <1>6, ModShift
  <1> QED BY <1>1, <1>2, <1>7, <1>8

\* The remainder of a small number, and of one just below zero.
LEMMA ModSmall ==
    ASSUME NEW m \in Nat \ {0}, NEW a \in Int, 0 <= a, a < m
    PROVE  a % m = a
  BY ModUnique, a = m * 0 + a

LEMMA ModBelowZero ==
    ASSUME NEW m \in Nat \ {0}, NEW a \in Int, a < 0, -m <= a
    PROVE  a % m = a + m
  <1>1. a = m * (-1) + (a + m) /\ (a + m) \in 0 .. m - 1
    BY SMT
  <1> QED BY <1>1, ModUnique

\* A remainder is no larger than the number it is taken of.
LEMMA ModAtMost ==
    ASSUME NEW m \in Nat \ {0}, NEW a \in Nat
    PROVE  a % m <= a
  <1>1. PICK q \in Int, x \in 0 .. m - 1 : a = m * q + x /\ a % m = x
    BY a \in Int, ModSplit
  <1>2. q >= 0
    BY <1>1, SMT
  <1>3. m * q >= 0
    BY <1>2, SMT
  <1> QED BY <1>1, <1>3, SMT

\* A modulus that divides another sees through it.
LEMMA ModOfMultiple ==
    ASSUME NEW w \in Nat \ {0}, NEW n \in Nat \ {0}, NEW a \in Int
    PROVE  (a % (n * w)) % w = a % w
  <1>1. n * w \in Nat \ {0}
    BY SMT
  <1>2. PICK q \in Int, x \in 0 .. (n * w) - 1 : a = (n * w) * q + x /\ a % (n * w) = x
    BY <1>1, ModSplit
  <1>3. (n * w) * q = w * (n * q) /\ n * q \in Int /\ x \in Int /\ w * (n * q) \in Int
    BY <1>1, SMT
  <1>4. a = x + w * (n * q)
    BY <1>2, <1>3, SMT
  <1>5. a % w = x % w
    BY <1>3, <1>4, ModShift
  <1> QED BY <1>2, <1>5

-----------------------------------------------------------------------------
(* Session events.                                                         *)

\* The event is not a duplicate for these ids, nor of an unknown one.
Fits(ids, event) == event.connects <=> event.id \notin ids

\* The ids after the event.
After(ids, event) ==
    IF event.connects THEN ids \cup {event.id} ELSE ids \ {event.id}

(***************************************************************************)
(* The events of a channel, in their order, turn the ids that a task holds *)
(* into those it was told of: those of an id alternate, beginning with the *)
(* one that fits what the task holds and ending with the one that leaves   *)
(* what it was told.                                                       *)
(***************************************************************************)
FirstFits(q, held) ==
    \A i \in DOMAIN q :
        (\A j \in 1 .. i - 1 : q[j].id # q[i].id) => (q[i].connects <=> q[i].id \notin held)

Alternate(q) ==
    \A i, k \in DOMAIN q :
        i < k /\ q[i].id = q[k].id /\ (\A j \in i + 1 .. k - 1 : q[j].id # q[i].id)
            => (q[k].connects <=> ~q[i].connects)

LastLeaves(q, told) ==
    \A i \in DOMAIN q :
        (\A j \in i + 1 .. Len(q) : q[j].id # q[i].id) => (q[i].connects <=> q[i].id \in told)

OthersKept(q, held, told) ==
    \A id \in held \cup told :
        (\A i \in DOMAIN q : q[i].id # id) => (id \in held <=> id \in told)

Leads(q, held, told) ==
    FirstFits(q, held) /\ Alternate(q) /\ LastLeaves(q, told) /\ OthersKept(q, held, told)

\* A new task holds nothing and was told nothing.
LEMMA EmptyLeads == Leads(<<>>, {}, {})
  BY DEF Leads, FirstFits, Alternate, LastLeaves, OthersKept

\* Sending an event that fits what the task was told changes what it was told.
LEMMA AppendLeads ==
    ASSUME NEW Ids, NEW q \in Seq([id : Ids, connects : BOOLEAN]),
           NEW held \in SUBSET Ids, NEW told \in SUBSET Ids,
           Leads(q, held, told),
           NEW e \in [id : Ids, connects : BOOLEAN], Fits(told, e)
    PROVE  Leads(Append(q, e), held, After(told, e))
  <1> DEFINE r == Append(q, e)
             n == Len(q) + 1
  <1>1. /\ Len(q) \in Nat /\ n \in Nat /\ n = Len(q) + 1
        /\ DOMAIN q = 1 .. n - 1 /\ DOMAIN r = 1 .. n /\ Len(r) = n
        /\ r[n] = e
        /\ \A i \in 1 .. n - 1 : r[i] = q[i]
    OBVIOUS
  <1>3. e.id \in Ids
    OBVIOUS
  <1> HIDE DEF r, n
  <1>4. \A i \in DOMAIN r : i = n \/ (i \in DOMAIN q /\ i < n)
    BY <1>1
  <1> USE DEF Leads
  <1>5. FirstFits(r, held)
    <2> SUFFICES ASSUME NEW i \in DOMAIN r, \A j \in 1 .. i - 1 : r[j].id # r[i].id
                 PROVE  r[i].connects <=> r[i].id \notin held
      BY DEF FirstFits
    <2>1. CASE i = n
      <3>1. \A j \in DOMAIN q : q[j].id # e.id
        BY <1>1, <2>1
      <3> QED BY <1>1, <1>3, <2>1, <3>1 DEF OthersKept, Fits
    <2>2. CASE i \in DOMAIN q
      <3>1. \A j \in 1 .. i - 1 : q[j].id # q[i].id
        BY <1>1, <2>2
      <3> QED BY <1>1, <2>2, <3>1 DEF FirstFits
    <2> QED BY <1>4, <2>1, <2>2
  <1>6. Alternate(r)
    <2> SUFFICES ASSUME NEW i \in DOMAIN r, NEW k \in DOMAIN r, i < k, r[i].id = r[k].id,
                        \A j \in i + 1 .. k - 1 : r[j].id # r[i].id
                 PROVE  r[k].connects <=> ~r[i].connects
      BY DEF Alternate
    <2>1. i \in DOMAIN q
      BY <1>1
    <2>2. CASE k = n
      <3>1. \A j \in i + 1 .. Len(q) : q[j].id # q[i].id
        BY <1>1, <2>1, <2>2
      <3>2. q[i].connects <=> q[i].id \in told
        BY <2>1, <3>1 DEF LastLeaves
      <3> QED BY <1>1, <2>1, <2>2, <3>2 DEF Fits
    <2>3. CASE k \in DOMAIN q
      <3>1. \A j \in i + 1 .. k - 1 : q[j].id # q[i].id
        BY <1>1, <2>1, <2>3
      <3> QED BY <1>1, <2>1, <2>3, <3>1 DEF Alternate
    <2> QED BY <1>4, <2>2, <2>3
  <1>7. LastLeaves(r, After(told, e))
    <2> SUFFICES ASSUME NEW i \in DOMAIN r, \A j \in i + 1 .. Len(r) : r[j].id # r[i].id
                 PROVE  r[i].connects <=> r[i].id \in After(told, e)
      BY DEF LastLeaves
    <2>1. CASE i = n
      BY <1>1, <2>1 DEF After
    <2>2. CASE i \in DOMAIN q /\ i < n
      <3>1. r[n].id # r[i].id
        BY <1>1, <2>2
      <3>2. \A j \in i + 1 .. Len(q) : q[j].id # q[i].id
        BY <1>1, <2>2
      <3>3. q[i].connects <=> q[i].id \in told
        BY <2>2, <3>2 DEF LastLeaves
      <3> QED BY <1>1, <2>2, <3>1, <3>3 DEF After
    <2> QED BY <1>4, <2>1, <2>2
  <1>8. OthersKept(r, held, After(told, e))
    <2> SUFFICES ASSUME NEW id, \A i \in DOMAIN r : r[i].id # id
                 PROVE  id \in held <=> id \in After(told, e)
      BY DEF OthersKept
    <2>1. e.id # id /\ \A i \in DOMAIN q : q[i].id # id
      BY <1>1
    <2> QED BY <2>1 DEF OthersKept, After
  <1> QED BY <1>5, <1>6, <1>7, <1>8 DEF r

\* The first event fits what the task holds, and handling it changes that.
LEMMA TailLeads ==
    ASSUME NEW Ids, NEW q \in Seq([id : Ids, connects : BOOLEAN]),
           NEW held \in SUBSET Ids, NEW told \in SUBSET Ids,
           Leads(q, held, told), q # <<>>
    PROVE  Fits(held, Head(q)) /\ Leads(Tail(q), After(held, Head(q)), told)
  <1> DEFINE r == Tail(q)
             e == Head(q)
             n == Len(q)
  <1>1. /\ n \in Nat /\ n >= 1 /\ DOMAIN q = 1 .. n /\ DOMAIN r = 1 .. n - 1 /\ Len(r) = n - 1
        /\ q[1] = e
        /\ \A i \in 1 .. n - 1 : r[i] = q[i + 1]
    OBVIOUS
  <1>2. Len(q) = n
    OBVIOUS
  <1> HIDE DEF r, e, n
  <1> USE DEF Leads
  <1>3. e.connects <=> e.id \notin held
    <2>1. 1 \in DOMAIN q /\ \A j \in 1 .. 1 - 1 : q[j].id # q[1].id
      BY <1>1
    <2> QED BY <1>1, <2>1 DEF FirstFits
  <1>4. FirstFits(r, After(held, e))
    <2> SUFFICES ASSUME NEW i \in DOMAIN r, \A j \in 1 .. i - 1 : r[j].id # r[i].id
                 PROVE  r[i].connects <=> r[i].id \notin After(held, e)
      BY DEF FirstFits
    <2>1. \A j \in 2 .. i : q[j].id # q[i + 1].id
      <3> SUFFICES ASSUME NEW j \in 2 .. i PROVE q[j].id # q[i + 1].id
        OBVIOUS
      <3>1. j - 1 \in 1 .. i - 1 /\ j - 1 \in 1 .. n - 1 /\ (j - 1) + 1 = j
        BY <1>1
      <3> QED BY <1>1, <3>1
    <2>2. i + 1 \in DOMAIN q /\ 1 \in DOMAIN q /\ 1 < i + 1 /\ r[i] = q[i + 1]
      BY <1>1
    <2>3. CASE q[1].id = q[i + 1].id
      <3>1. q[i + 1].connects <=> ~q[1].connects
        <4>1. \A j \in 1 + 1 .. (i + 1) - 1 : q[j].id # q[1].id
          BY <1>1, <2>1, <2>3
        <4> QED BY <2>2, <2>3, <4>1 DEF Alternate
      <3> QED BY <1>1, <2>2, <2>3, <3>1 DEF After
    <2>4. CASE q[1].id # q[i + 1].id
      <3>1. \A j \in 1 .. (i + 1) - 1 : q[j].id # q[i + 1].id
        BY <1>1, <2>1, <2>4
      <3>2. q[i + 1].connects <=> q[i + 1].id \notin held
        BY <2>2, <3>1 DEF FirstFits
      <3> QED BY <1>1, <2>2, <2>4, <3>2 DEF After
    <2> QED BY <2>3, <2>4
  <1>5. Alternate(r)
    <2> SUFFICES ASSUME NEW i \in DOMAIN r, NEW k \in DOMAIN r, i < k, r[i].id = r[k].id,
                        \A j \in i + 1 .. k - 1 : r[j].id # r[i].id
                 PROVE  r[k].connects <=> ~r[i].connects
      BY DEF Alternate
    <2>1. /\ i + 1 \in DOMAIN q /\ k + 1 \in DOMAIN q /\ i + 1 < k + 1
          /\ r[i] = q[i + 1] /\ r[k] = q[k + 1]
      BY <1>1
    <2>2. \A j \in (i + 1) + 1 .. (k + 1) - 1 : q[j].id # q[i + 1].id
      <3> SUFFICES ASSUME NEW j \in (i + 1) + 1 .. (k + 1) - 1 PROVE q[j].id # q[i + 1].id
        OBVIOUS
      <3>1. j - 1 \in i + 1 .. k - 1 /\ j - 1 \in 1 .. n - 1 /\ (j - 1) + 1 = j
        BY <1>1
      <3> QED BY <1>1, <2>1, <3>1
    <2> QED BY <2>1, <2>2 DEF Alternate
  <1>6. LastLeaves(r, told)
    <2> SUFFICES ASSUME NEW i \in DOMAIN r, \A j \in i + 1 .. Len(r) : r[j].id # r[i].id
                 PROVE  r[i].connects <=> r[i].id \in told
      BY DEF LastLeaves
    <2>1. i + 1 \in DOMAIN q /\ r[i] = q[i + 1]
      BY <1>1
    <2>2. \A j \in (i + 1) + 1 .. Len(q) : q[j].id # q[i + 1].id
      <3> SUFFICES ASSUME NEW j \in (i + 1) + 1 .. Len(q) PROVE q[j].id # q[i + 1].id
        OBVIOUS
      <3>1. j - 1 \in i + 1 .. Len(r) /\ j - 1 \in 1 .. n - 1 /\ (j - 1) + 1 = j
        BY <1>1, <1>2
      <3> QED BY <1>1, <2>1, <3>1
    <2> QED BY <2>1, <2>2 DEF LastLeaves
  <1>7. OthersKept(r, After(held, e), told)
    <2> SUFFICES ASSUME NEW id, \A i \in DOMAIN r : r[i].id # id
                 PROVE  id \in After(held, e) <=> id \in told
      BY DEF OthersKept
    <2>1. \A i \in 2 .. n : q[i].id # id
      <3> SUFFICES ASSUME NEW i \in 2 .. n PROVE q[i].id # id
        OBVIOUS
      <3>1. i - 1 \in DOMAIN r /\ i - 1 \in 1 .. n - 1 /\ (i - 1) + 1 = i
        BY <1>1
      <3> QED BY <1>1, <3>1
    <2>2. CASE e.id = id
      <3>1. 1 \in DOMAIN q /\ \A j \in 1 + 1 .. Len(q) : q[j].id # q[1].id
        BY <1>1, <1>2, <2>1, <2>2
      <3>2. q[1].connects <=> q[1].id \in told
        BY <3>1 DEF LastLeaves
      <3> QED BY <1>1, <2>2, <3>2 DEF After
    <2>3. CASE e.id # id
      <3>1. \A i \in DOMAIN q : q[i].id # id
        BY <1>1, <2>1, <2>3
      <3> QED BY <2>3, <3>1 DEF OthersKept, After
    <2> QED BY <2>2, <2>3
  <1> QED BY <1>3, <1>4, <1>5, <1>6, <1>7 DEF Fits, r, e
=============================================================================
