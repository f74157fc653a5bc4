------------------------- MODULE PairedRingsProofs --------------------------
(***************************************************************************)
(* Proofs about PairedRings, for every size, number of pairs, rounds and   *)
(* items, and all seven programs: the indices and the semaphores count the *)
(* items, what a consumer receives is what its producer sent, and every    *)
(* buffer that is used implements BoundedFifo.                             *)
(***************************************************************************)
EXTENDS PairedRings, SequenceTheorems, TLAPS

Values == Items \cup {Unwritten}

ProdPoints == {"unborn", "failed", "pin", "produce", "full", "lock", "write", "publish",
               "unlock", "post", "done"}
ConsPoints == {"unborn", "failed", "pin", "empty", "lock", "read", "release",
               "unlock", "post", "done"}

(* The types of the variables; a thread main has not come to is not born.  *)
ControlTyped ==
  /\ prog \in Programs /\ i \in Nat
  /\ main \in {"perf", "create"} => \A t \in Threads : t >= i => pc[t] = "unborn"
  /\ pc \in [Threads -> ProdPoints \cup ConsPoints]

DataTyped ==
  /\ in \in [Pairs -> Nat] /\ out \in [Pairs -> Nat]
  /\ B \in [Pairs -> [Slots -> Values]]
  /\ item \in [Pairs -> Values] /\ w \in [Pairs -> Values]
  /\ sent \in [Pairs -> Seq(Values)] /\ received \in [Pairs -> Seq(Values)]

TypesOK == ControlTyped /\ DataTyped

(* The index after m moves.                                                *)
Place(m) == IF S.kind = "ring" THEN m % BUFF_MAX ELSE m

(* The indices are those of the rounds done, and a thread within a round   *)
(* has not done all.                                                       *)
Counted(p) ==
  /\ in[p] = Place(Len(sent[p])) /\ out[p] = Place(Len(received[p]))
  /\ Len(sent[p]) <= Rounds /\ Len(received[p]) <= Rounds
  /\ pc[Prod(p)] \in {"full", "lock", "write", "publish"} => Len(sent[p]) < Rounds
  /\ pc[Cons(p)] \in {"lock", "read", "release"} => Len(received[p]) < Rounds

(* The control points of the two threads.                                  *)
Points(p) ==
  /\ pc[Prod(p)] \in ProdPoints /\ pc[Cons(p)] \in ConsPoints
  /\ S.kind = "ring" => pc[Prod(p)] # "lock" /\ pc[Cons(p)] # "lock"
  /\ S.kind = "ring" /\ ~S.items => pc[Prod(p)] # "write" /\ pc[Cons(p)] # "read"

Inside(p) == Len(sent[p]) - Len(received[p])

One(b) == IF b THEN 1 ELSE 0

(* What a thread's test or its semaphore has told it about the number of   *)
(* items stays true until it has acted on it.                              *)
Room(p) ==
  /\ S.kind = "ring" =>
       /\ Inside(p) \in 0 .. BUFF_MAX - 1
       /\ pc[Prod(p)] \in {"write", "publish"} => Inside(p) < BUFF_MAX - 1
       /\ pc[Cons(p)] \in {"read", "release"} => Inside(p) > 0
  /\ S.kind = "semaphores" =>
       /\ full \in Nat /\ empty \in Nat
       /\ full = Inside(p) - One(pc[Prod(p)] \in {"unlock", "post"})
                           - One(pc[Cons(p)] \in {"lock", "read", "release"})
       /\ empty = LINEAR - Inside(p) - One(pc[Prod(p)] \in {"lock", "write", "publish"})
                                     - One(pc[Cons(p)] \in {"unlock", "post"})
  /\ S.kind = "mutex" /\ ~overtaken =>
       Inside(p) >= 0 /\ (pc[Cons(p)] = "release" => Inside(p) > 0)

(* What was received is what was sent, what was not is in its slot, and    *)
(* what a thread has written or read is the item of its round.             *)
Content(p) ==
  S.items /\ ~overtaken =>
    /\ \A k \in 1 .. Len(received[p]) : k <= Len(sent[p]) /\ received[p][k] = sent[p][k]
    /\ \A k \in Len(received[p]) + 1 .. Len(sent[p]) : B[p][(k - 1) % Size] = sent[p][k]
    /\ pc[Prod(p)] = "publish" => B[p][Len(sent[p]) % Size] = item[p]
    /\ pc[Cons(p)] = "release" => w[p] = sent[p][Len(received[p]) + 1]

PairOK(p) == Points(p) /\ Counted(p) /\ Room(p) /\ Content(p)

(* The inductive invariant.                                                *)
IInv == TypesOK /\ \A p \in Pairs : PairOK(p)

-----------------------------------------------------------------------------
(* Remainders *)

(* The remainders of the code, for a divisor that is not fixed.             *)
LEMMA Division ==
  ASSUME NEW n \in Nat \ {0}, NEW x \in Int
  PROVE  x = (x \div n) * n + (x % n) /\ x \div n \in Int /\ x % n \in 0 .. n - 1
  <1>1. n > 0 /\ n \in Int
    OBVIOUS
  <1>2. x = (x \div n) * n + (x % n)
    BY <1>1
  <1>3. QED
    BY <1>1, <1>2

(* The remainder of a number that is written with it.                      *)
LEMMA Remainder ==
  ASSUME NEW n \in Nat \ {0}, NEW q \in Int, NEW m \in 0 .. n - 1
  PROVE  (q * n + m) % n = m
  OBVIOUS

(* Moving by one past the end of a ring.                                   *)
LEMMA NextPlace ==
  ASSUME NEW n \in Nat \ {0}, NEW x \in Int
  PROVE  (x + 1) % n = IF (x % n) + 1 = n THEN 0 ELSE (x % n) + 1
  <1> DEFINE q == x \div n  m == x % n
  <1>1. x = q * n + m /\ q \in Int /\ m \in 0 .. n - 1
    BY Division
  <1> HIDE DEF q, m
  <1>2. CASE m + 1 = n
    <2>1. x + 1 = (q + 1) * n + 0
      BY <1>1, <1>2
    <2>2. (x + 1) % n = 0
      BY <1>1, <2>1, Remainder
    <2>3. QED
      BY <1>2, <2>2 DEF m
  <1>3. CASE m + 1 # n
    <2>1. m + 1 \in 0 .. n - 1 /\ x + 1 = q * n + (m + 1)
      BY <1>1, <1>3
    <2>2. (x + 1) % n = m + 1
      BY <1>1, <2>1, Remainder
    <2>3. QED
      BY <1>3, <2>2 DEF m
  <1>4. QED
    BY <1>2, <1>3

(* How far two places of a ring are apart.                                 *)
LEMMA Apart ==
  ASSUME NEW n \in Nat \ {0}, NEW x \in Int, NEW d \in 0 .. n - 1
  PROVE  (((x + d) % n) - (x % n)) % n = d
  <1> DEFINE q == x \div n  m == x % n
  <1>1. x = q * n + m /\ q \in Int /\ m \in 0 .. n - 1
    BY Division
  <1>room. x % n = m
    OBVIOUS
  <1> HIDE DEF q, m
  <1>2. CASE m + d < n
    <2>1. m + d \in 0 .. n - 1 /\ x + d = q * n + (m + d)
      BY <1>1, <1>2
    <2>2. (x + d) % n = m + d
      BY <1>1, <2>1, Remainder
    <2>3. (m + d) - m = 0 * n + d
      BY <1>1
    <2>4. ((m + d) - m) % n = d
      BY <2>3, Remainder
    <2>5. QED
      BY <2>2, <2>4, <1>room
  <1>3. CASE m + d >= n
    <2>1. m + d - n \in 0 .. n - 1
      BY <1>1, <1>3
    <2>2. x + d = (q + 1) * n + (m + d - n)
      BY <1>1
    <2>3. (x + d) % n = m + d - n
      <3> DEFINE e == m + d - n
      <3>1. e \in 0 .. n - 1 /\ x + d = (q + 1) * n + e /\ q + 1 \in Int
        BY <1>1, <2>1, <2>2
      <3> HIDE DEF e
      <3>2. (x + d) % n = e
        BY <3>1, Remainder
      <3>3. QED
        BY <3>2 DEF e
    <2>4. (m + d - n) - m = -1 * n + d /\ -1 \in Int
      BY <1>1
    <2>5. ((m + d - n) - m) % n = d
      BY <2>4, Remainder
    <2>6. QED
      BY <2>3, <2>5, <1>room
  <1>4. QED
    BY <1>1, <1>2, <1>3

-----------------------------------------------------------------------------
(* The programs and their places *)

(* What all the scripts have in common.                                    *)
LEMMA Scripts ==
  ASSUME prog \in Programs
  PROVE  /\ S.kind \in {"ring", "semaphores", "mutex"}
         /\ S.pairs \in Nat \ {0}
         /\ S.kind # "ring" => S.pairs = 1 /\ S.items
  BY PairedAssumption DEF S, Script, PC2, MicroPC2, DryRun, ParaPCB, ParaPCBBUFF,
     NewSemaphore, New, Spinning, Locking

(* The sizes and rounds of the scripts; the linear arrays hold all rounds. *)
LEMMA Bounds ==
  ASSUME prog \in Programs
  PROVE  /\ Size \in Nat \ {0} /\ Rounds \in Nat
         /\ S.kind = "ring" => Size = BUFF_MAX
         /\ S.kind # "ring" => Size = LINEAR /\ Rounds <= LINEAR
  BY Scripts, PairedAssumption DEF Size, Rounds

(* The two threads of a pair are its own.                                  *)
LEMMA Numbering ==
  ASSUME prog \in Programs, NEW p \in Pairs
  PROVE  /\ Prod(p) \in Threads /\ Cons(p) \in Threads /\ p \in Nat
         /\ Prod(p) % 2 = 0 /\ Cons(p) % 2 # 0
         /\ \A q \in Pairs : Prod(p) # Cons(q) /\ (q # p => Prod(p) # Prod(q) /\ Cons(p) # Cons(q))
  BY Scripts DEF Pairs, Threads, Prod, Cons

(* Where the m-th item goes.                                               *)
LEMMA Places ==
  ASSUME prog \in Programs, NEW m \in Nat, S.kind = "ring" \/ m < Size
  PROVE  Place(m) = m % Size /\ m % Size \in Slots
  <1>1. m % Size \in 0 .. Size - 1
    BY Bounds, Division
  <1>2. S.kind # "ring" => m % Size = m
    <2>1. m < Size => m = 0 * Size + m /\ m \in 0 .. Size - 1
      BY Bounds
    <2>2. QED
      BY <2>1, Bounds, Remainder
  <1>3. QED
    BY <1>1, <1>2, Bounds DEF Place, Slots

(* Moving an index is moving one place on.                                 *)
LEMMA PlaceMoves ==
  ASSUME prog \in Programs, NEW m \in Nat
  PROVE  Moved(Place(m)) = Place(m + 1) /\ Place(m) \in Nat
  <1>1. BUFF_MAX \in Nat \ {0} /\ m \in Int
    BY PairedAssumption
  <1>2. (m + 1) % BUFF_MAX = IF (m % BUFF_MAX) + 1 = BUFF_MAX THEN 0 ELSE (m % BUFF_MAX) + 1
    BY <1>1, NextPlace
  <1>3. m % BUFF_MAX \in 0 .. BUFF_MAX - 1
    BY <1>1, Division
  <1>4. ((m % BUFF_MAX) + 1) % BUFF_MAX = IF (m % BUFF_MAX) + 1 = BUFF_MAX THEN 0 ELSE (m % BUFF_MAX) + 1
    <2> DEFINE e == m % BUFF_MAX
    <2>1. e \in 0 .. BUFF_MAX - 1 /\ e \in Int
      BY <1>3
    <2> HIDE DEF e
    <2>2. e % BUFF_MAX = e
      <3>1. e = 0 * BUFF_MAX + e
        BY <1>1, <2>1
      <3>2. QED
        BY <1>1, <2>1, <3>1, Remainder
    <2>3. (e + 1) % BUFF_MAX = IF (e % BUFF_MAX) + 1 = BUFF_MAX THEN 0 ELSE (e % BUFF_MAX) + 1
      BY <1>1, <2>1, NextPlace
    <2>4. QED
      BY <2>2, <2>3 DEF e
  <1>5. QED
    BY <1>2, <1>3, <1>4 DEF Moved, Place

(* Places less than a ring apart are not the same.                         *)
LEMMA Distinct ==
  ASSUME prog \in Programs, NEW k \in Nat, NEW m \in Nat, k < m, m - k < Size
  PROVE  k % Size # m % Size
  <1> DEFINE d == m - k
           n == Size
  <1>1. /\ n \in Nat \ {0} /\ d \in 1 .. n - 1 /\ d \in 0 .. n - 1
        /\ m = k + d /\ k \in Int
    BY Bounds
  <1> HIDE DEF d, n
  <1>2. (((k + d) % n) - (k % n)) % n = d
    BY <1>1, Apart
  <1>3. ASSUME k % n = m % n PROVE FALSE
    <2>1. ((k + d) % n) - (k % n) = 0
      BY <1>1, <1>3, Division
    <2>2. 0 % n = 0
      <3>1. 0 = 0 * n + 0 /\ 0 \in 0 .. n - 1
        BY <1>1
      <3>2. QED
        BY <1>1, <3>1, Remainder
    <2>3. QED
      BY <1>1, <1>2, <2>1, <2>2
  <1>4. QED
    BY <1>3 DEF n

(* A ring that lacks one item of being full looks full to its producer.    *)
LEMMA FullRing ==
  ASSUME prog \in Programs, S.kind = "ring", NEW m \in Nat, NEW r \in Nat,
         m - r = BUFF_MAX - 1
  PROVE  (Place(m) + 1) % BUFF_MAX = Place(r)
  <1>1. BUFF_MAX \in Nat \ {0}
    BY PairedAssumption
  <1>2. (Place(m) + 1) % BUFF_MAX = (m + 1) % BUFF_MAX
    BY PlaceMoves DEF Moved, Place
  <1> DEFINE q == r \div BUFF_MAX  e == r % BUFF_MAX
  <1>3. r = q * BUFF_MAX + e /\ q \in Int /\ e \in 0 .. BUFF_MAX - 1
    BY <1>1, Division
  <1>4. Place(r) = e
    BY DEF Place
  <1> HIDE DEF q, e
  <1>5. m + 1 = (q + 1) * BUFF_MAX + e /\ q + 1 \in Int
    <2>1. m + 1 = r + BUFF_MAX
      BY <1>1
    <2>2. r + BUFF_MAX = (q + 1) * BUFF_MAX + e
      BY <1>1, <1>3
    <2>3. QED
      BY <1>3, <2>1, <2>2
  <1>6. (m + 1) % BUFF_MAX = e
    BY <1>1, <1>3, <1>5, Remainder
  <1>7. QED
    BY <1>2, <1>4, <1>6

-----------------------------------------------------------------------------
(* Steps *)

(* What depends on the program alone.                                      *)
LEMMA SameProgram ==
  ASSUME prog' = prog
  PROVE  /\ Pairs' = Pairs /\ Threads' = Threads /\ Slots' = Slots /\ Size' = Size
         /\ Rounds' = Rounds /\ S' = S
         /\ \A m : Place(m)' = Place(m)
  BY DEF Pairs, Threads, Slots, Size, Rounds, S, Place

(* Initially every buffer is empty.                                        *)
LEMMA InitIInv == Init => IInv
  <1> SUFFICES ASSUME Init PROVE IInv
    OBVIOUS
  <1> USE DEF Init
  <1>1. prog \in Programs
    OBVIOUS
  <1>2. TypesOK
    <2>1. \A p \in Pairs : sent[p] = << >> /\ received[p] = << >>
      OBVIOUS
    <2>2. sent \in [Pairs -> Seq(Values)] /\ received \in [Pairs -> Seq(Values)]
      OBVIOUS
    <2>3. B \in [Pairs -> [Slots -> Values]] /\ item \in [Pairs -> Values] /\ w \in [Pairs -> Values]
      BY DEF Values
    <2>4. QED
      BY <2>2, <2>3 DEF TypesOK, ControlTyped, DataTyped, ProdPoints, ConsPoints
  <1>3. ASSUME NEW p \in Pairs PROVE PairOK(p)
    <2>1. /\ pc[Prod(p)] = "unborn" /\ pc[Cons(p)] = "unborn"
          /\ in[p] = 0 /\ out[p] = 0 /\ sent[p] = << >> /\ received[p] = << >>
      BY <1>1, Numbering
    <2>2. Place(0) = 0
      <3>1. 0 = 0 * BUFF_MAX + 0 /\ 0 \in 0 .. BUFF_MAX - 1
        BY PairedAssumption
      <3>2. 0 % BUFF_MAX = 0
        BY <3>1, PairedAssumption, Remainder
      <3>3. QED
        BY <3>2 DEF Place
    <2>3. Points(p) /\ Counted(p)
      BY <1>1, <2>1, <2>2, Bounds DEF Points, Counted, ProdPoints, ConsPoints
    <2>4. Room(p)
      BY <1>1, <2>1, Bounds, PairedAssumption DEF Room, Inside, One
    <2>5. Content(p)
      BY <2>1 DEF Content
    <2>6. QED
      BY <2>3, <2>4, <2>5 DEF PairOK
  <1>4. QED
    BY <1>2, <1>3 DEF IInv

(* A step leaves the other pairs alone.                                    *)
OthersKept(p) ==
  /\ prog' = prog
  /\ overtaken => overtaken'
  /\ \A q \in Pairs \ {p} :
       /\ pc'[Prod(q)] = pc[Prod(q)] /\ pc'[Cons(q)] = pc[Cons(q)]
       /\ in'[q] = in[q] /\ out'[q] = out[q] /\ B'[q] = B[q] /\ item'[q] = item[q] /\ w'[q] = w[q]
       /\ sent'[q] = sent[q] /\ received'[q] = received[q]

(* A step of one pair keeps the invariant if it keeps that pair's part.    *)
LEMMA Assembled ==
  ASSUME IInv, NEW p \in Pairs, OthersKept(p), TypesOK', PairOK(p)'
  PROVE  IInv'
  <1>1. prog \in Programs /\ prog' = prog
    BY DEF IInv, TypesOK, ControlTyped, OthersKept
  <1>2. ASSUME NEW q \in Pairs \ {p} PROVE PairOK(q)'
    <2>1. S.kind = "ring" /\ (overtaken => overtaken')
      <3>1. S.pairs = 1 => p = 0 /\ q = 0
        BY DEF Pairs
      <3>2. QED
        BY <1>1, <3>1, Scripts DEF OthersKept
    <2>2. PairOK(q)
      BY DEF IInv
    <2>3. Points(q)' /\ Counted(q)'
      BY <1>1, <2>2, SameProgram DEF PairOK, Points, Counted, OthersKept
    <2>4. Room(q)'
      BY <1>1, <2>1, <2>2, SameProgram DEF PairOK, Room, Inside, OthersKept
    <2>5. /\ sent'[q] = sent[q] /\ received'[q] = received[q] /\ B'[q] = B[q]
          /\ item'[q] = item[q] /\ w'[q] = w[q] /\ S' = S /\ Size' = Size
          /\ pc'[Prod(q)] = pc[Prod(q)] /\ pc'[Cons(q)] = pc[Cons(q)]
      BY <1>1, SameProgram DEF OthersKept
    <2>6. Content(q)'
      BY <2>1, <2>2, <2>5 DEF PairOK, Content
    <2>7. QED
      BY <2>3, <2>4, <2>6 DEF PairOK
  <1>3. QED
    BY <1>1, <1>2, SameProgram DEF IInv

(* A step that leaves the buffers and the histories alone and puts no      *)
(* thread in a place for which it has not been tested.                     *)
LEMMA QuietStep ==
  ASSUME IInv, NEW p \in Pairs, OthersKept(p), TypesOK', UNCHANGED rings,
         Points(p)', Room(p)',
         pc'[Prod(p)] \in {"full", "lock", "write", "publish"} => Len(sent[p]) < Rounds,
         pc'[Cons(p)] \in {"lock", "read", "release"} => Len(received[p]) < Rounds,
         S.items /\ pc'[Prod(p)] = "publish" => pc[Prod(p)] = "publish" /\ item'[p] = item[p],
         S.items /\ pc'[Cons(p)] = "release" => pc[Cons(p)] = "release" /\ w'[p] = w[p]
  PROVE  IInv'
  <1>1. prog' = prog /\ UNCHANGED <<in, out, B, sent, received, overtaken>>
    BY DEF OthersKept, rings
  <1>2. Counted(p)'
    BY <1>1, SameProgram DEF IInv, PairOK, Counted
  <1>3. Content(p)'
    BY <1>1, SameProgram DEF IInv, PairOK, Content
  <1>4. QED
    BY <1>2, <1>3, Assembled DEF PairOK

(* main only creates and joins the threads.                                *)
LEMMA MainStep == ASSUME IInv, Main PROVE IInv'
  <1>1. /\ UNCHANGED <<prog, item, w, rings, sems>>
        /\ UNCHANGED <<in, out, B, sent, received, overtaken, mutex, empty, full>>
    BY DEF Main, InitializePerf, Create, MallocFails, Join, rings, sems
  <1>2. prog \in Programs
    BY DEF IInv, TypesOK, ControlTyped, DataTyped
  <1>3. /\ pc' \in [Threads -> ProdPoints \cup ConsPoints]
        /\ \A t \in Threads : pc'[t] = pc[t] \/ (pc[t] = "unborn" /\ pc'[t] \in {"pin", "failed"})
        /\ i' \in Nat /\ (main' \in {"perf", "create"} => \A t \in Threads : t >= i' => pc'[t] = "unborn")
    <2>1. CASE InitializePerf \/ MallocFails \/ Join
      BY <2>1 DEF InitializePerf, MallocFails, Join, IInv, TypesOK, ControlTyped, DataTyped
    <2>2. CASE Create
      <3> USE <2>2 DEF Create
      <3>1. /\ \A t \in Threads : t >= i => pc[t] = "unborn"
            /\ pc \in [Threads -> ProdPoints \cup ConsPoints] /\ i \in Nat
        BY DEF IInv, TypesOK, ControlTyped, DataTyped
      <3>2. PICK at \in {"pin", "failed"} : pc' = [pc EXCEPT ![i] = at]
        OBVIOUS
      <3>3. at \in ProdPoints
        BY DEF ProdPoints
      <3>4. \A t \in Threads : t \in Int
        BY <1>2, Scripts DEF Threads
      <3>5. pc' \in [Threads -> ProdPoints \cup ConsPoints]
        BY <3>1, <3>2, <3>3
      <3>6. \A t \in Threads : pc'[t] = pc[t] \/ (t = i /\ pc[t] = "unborn" /\ pc'[t] = at)
        BY <3>1, <3>2, <3>4
      <3>7. CASE i + 1 \in Threads
        BY <3>1, <3>4, <3>5, <3>6, <3>7
      <3>8. CASE i + 1 \notin Threads
        BY <3>5, <3>6, <3>8
      <3>9. QED
        BY <3>7, <3>8
    <2>3. QED
      BY <2>1, <2>2 DEF Main
  <1>4. TypesOK'
    BY <1>1, <1>2, <1>3, SameProgram DEF IInv, TypesOK, ControlTyped, DataTyped
  <1>5. ASSUME NEW p \in Pairs PROVE PairOK(p)'
    <2> DEFINE fresh == {"unborn", "pin", "failed"}
    <2>1. /\ pc'[Prod(p)] = pc[Prod(p)] \/ (pc[Prod(p)] \in fresh /\ pc'[Prod(p)] \in fresh)
          /\ pc'[Cons(p)] = pc[Cons(p)] \/ (pc[Cons(p)] \in fresh /\ pc'[Cons(p)] \in fresh)
      BY <1>2, <1>3, Numbering
    <2>2. PairOK(p)
      BY DEF IInv
    <2>3. Points(p)' /\ Counted(p)' /\ Content(p)'
      BY <1>1, <2>1, <2>2, SameProgram DEF PairOK, Points, Counted, Content, ProdPoints, ConsPoints
    <2>4. Room(p)'
      <3>1. Inside(p)' = Inside(p) /\ full' = full /\ empty' = empty /\ overtaken' = overtaken /\ S' = S
        BY <1>1, SameProgram DEF Inside
      <3>2. /\ One(pc[Prod(p)] \in {"unlock", "post"})' = One(pc[Prod(p)] \in {"unlock", "post"})
            /\ One(pc[Prod(p)] \in {"lock", "write", "publish"})' = One(pc[Prod(p)] \in {"lock", "write", "publish"})
            /\ (pc[Prod(p)] \in {"write", "publish"})' => pc[Prod(p)] \in {"write", "publish"}
        BY <2>1 DEF One
      <3>3. /\ One(pc[Cons(p)] \in {"lock", "read", "release"})' = One(pc[Cons(p)] \in {"lock", "read", "release"})
            /\ One(pc[Cons(p)] \in {"unlock", "post"})' = One(pc[Cons(p)] \in {"unlock", "post"})
            /\ (pc[Cons(p)] \in {"read", "release"})' => pc[Cons(p)] \in {"read", "release"}
            /\ (pc[Cons(p)] = "release")' => pc[Cons(p)] = "release"
        BY <2>1 DEF One
      <3>4. QED
        BY <2>2, <3>1, <3>2, <3>3 DEF PairOK, Room
    <2>5. QED
      BY <2>3, <2>4 DEF PairOK
  <1>6. QED
    BY <1>1, <1>4, <1>5, SameProgram DEF IInv

(* What Goto does to a thread that was born.                               *)
LEMMA Moves ==
  ASSUME IInv, NEW t \in Threads, NEW from, NEW to \in ProdPoints \cup ConsPoints,
         Goto(t, from, to), from # "unborn"
  PROVE  /\ pc[t] = from /\ pc'[t] = to /\ \A u \in Threads \ {t} : pc'[u] = pc[u]
         /\ pc' \in [Threads -> ProdPoints \cup ConsPoints]
         /\ prog' = prog /\ main' = main /\ i' = i
         /\ main \in {"perf", "create"} => \A u \in Threads : u >= i => pc'[u] = "unborn"
  BY DEF Goto, IInv, TypesOK, ControlTyped, DataTyped

(* A producer that moves leaves all other threads where they are.          *)
LEMMA ProducerMoves ==
  ASSUME IInv, NEW p \in Pairs, NEW from, NEW to \in ProdPoints,
         Goto(Prod(p), from, to), from # "unborn"
  PROVE  /\ prog' = prog /\ pc[Prod(p)] = from /\ pc'[Prod(p)] = to /\ pc'[Cons(p)] = pc[Cons(p)]
         /\ \A q \in Pairs \ {p} : pc'[Prod(q)] = pc[Prod(q)] /\ pc'[Cons(q)] = pc[Cons(q)]
         /\ ControlTyped'
  <1>1. prog \in Programs
    BY DEF IInv, TypesOK, ControlTyped, DataTyped
  <1>2. \A q \in Pairs : Prod(q) \in Threads /\ Cons(q) \in Threads
    BY <1>1, Numbering
  <1>3. QED
    BY <1>1, <1>2, Numbering, Moves, SameProgram DEF IInv, TypesOK, ControlTyped, DataTyped

(* A consumer that moves leaves all other threads where they are.          *)
LEMMA ConsumerMoves ==
  ASSUME IInv, NEW p \in Pairs, NEW from, NEW to \in ConsPoints,
         Goto(Cons(p), from, to), from # "unborn"
  PROVE  /\ prog' = prog /\ pc[Cons(p)] = from /\ pc'[Cons(p)] = to /\ pc'[Prod(p)] = pc[Prod(p)]
         /\ \A q \in Pairs \ {p} : pc'[Prod(q)] = pc[Prod(q)] /\ pc'[Cons(q)] = pc[Cons(q)]
         /\ ControlTyped'
  <1>1. prog \in Programs
    BY DEF IInv, TypesOK, ControlTyped, DataTyped
  <1>2. \A q \in Pairs : Prod(q) \in Threads /\ Cons(q) \in Threads
    BY <1>1, Numbering
  <1>3. QED
    BY <1>1, <1>2, Numbering, Moves, SameProgram DEF IInv, TypesOK, ControlTyped, DataTyped

(* The process ends, or nothing happens.                                   *)
LEMMA Stands ==
  ASSUME IInv, UNCHANGED <<prog, i, pc, item, w, rings, sems>>, main' = main \/ main' = "exited"
  PROVE  IInv'
  <1>1. UNCHANGED <<in, out, B, sent, received, overtaken, mutex, empty, full>>
    BY DEF rings, sems
  <1>2. TypesOK'
    BY <1>1, SameProgram DEF IInv, TypesOK, ControlTyped, DataTyped
  <1>3. ASSUME NEW p \in Pairs PROVE PairOK(p)'
    <2>1. PairOK(p)
      BY DEF IInv
    <2>2. Points(p)' /\ Counted(p)' /\ Room(p)'
      BY <1>1, <2>1, SameProgram DEF PairOK, Points, Counted, Room, Inside
    <2>3. Content(p)'
      BY <1>1, <2>1, SameProgram DEF PairOK, Content
    <2>4. QED
      BY <2>2, <2>3 DEF PairOK
  <1>4. QED
    BY <1>2, <1>3, SameProgram DEF IInv

(* What is known of a pair.                                                *)
LEMMA Known ==
  ASSUME IInv, NEW p \in Pairs
  PROVE  /\ prog \in Programs /\ PairOK(p)
         /\ Len(sent[p]) \in Nat /\ Len(received[p]) \in Nat /\ Inside(p) \in Int
         /\ LINEAR \in Nat /\ BUFF_MAX \in Nat
  BY PairedAssumption DEF IInv, TypesOK, ControlTyped, DataTyped, Inside

(* The steps of a producer that leave the buffer alone.                    *)
LEMMA ProducerQuiet ==
  ASSUME IInv, NEW p \in Pairs,
         \/ Pin(Prod(p)) \/ Produce(p) \/ SeeSpace(p) \/ Lock(Prod(p)) \/ Unlock(Prod(p))
         \/ Post(Prod(p)) \/ ProducerReturns(p)
  PROVE  IInv'
  <1> USE DEF PairOK
  <1>1. UNCHANGED rings /\ UNCHANGED <<in, out, B, sent, received, overtaken>>
    BY DEF Pin, Produce, SeeSpace, Lock, Unlock, Post, ProducerReturns, rings
  <1>2. Prod(p) % 2 = 0 /\ \A q \in Pairs \ {p} : Prod(p) # Prod(q)
    BY Known, Numbering
  <1>3. ASSUME NEW from, NEW to \in ProdPoints, Goto(Prod(p), from, to), from # "unborn",
               item' \in [Pairs -> Values], \A q \in Pairs \ {p} : item'[q] = item[q], w' = w,
               to # "lock" \/ S.kind # "ring", to # "write" \/ S.kind # "ring" \/ S.items,
               to \in {"full", "lock", "write", "publish"} => Len(sent[p]) < Rounds,
               S.items => to # "publish", Room(p)'
        PROVE  IInv'
    <2>1. /\ prog' = prog /\ pc[Prod(p)] = from /\ pc'[Prod(p)] = to /\ pc'[Cons(p)] = pc[Cons(p)]
          /\ \A q \in Pairs \ {p} : pc'[Prod(q)] = pc[Prod(q)] /\ pc'[Cons(q)] = pc[Cons(q)]
          /\ ControlTyped'
      BY <1>3, ProducerMoves
    <2>2. OthersKept(p)
      BY <1>1, <1>3, <2>1 DEF OthersKept
    <2>3. TypesOK'
      BY <1>1, <1>3, <2>1, SameProgram DEF IInv, TypesOK, DataTyped
    <2>4. Points(p)'
      BY <1>3, <2>1, SameProgram, Known DEF Points
    <2>5. pc'[Cons(p)] \in {"lock", "read", "release"} => Len(received[p]) < Rounds
      BY <2>1, Known DEF Counted
    <2>6. QED
      BY <1>1, <1>3, <2>1, <2>2, <2>3, <2>4, <2>5, QuietStep
  <1>4. item \in [Pairs -> Values]
    BY DEF IInv, TypesOK, DataTyped
  <1>room. /\ S' = S /\ Inside(p)' = Inside(p) /\ overtaken' = overtaken
           /\ Room(p) /\ Inside(p) \in Int /\ LINEAR \in Nat /\ BUFF_MAX \in Nat
    <2>1. prog' = prog
      BY DEF Pin, Produce, SeeSpace, Lock, Unlock, Post, ProducerReturns, Goto
    <2>2. QED
      BY <1>1, <2>1, Known, SameProgram DEF Inside
  <1>5. CASE Pin(Prod(p))
    <2>1. CASE Goto(Prod(p), "pin", "produce")
      <3>1. /\ pc[Prod(p)] = "pin" /\ pc'[Prod(p)] = "produce" /\ pc'[Cons(p)] = pc[Cons(p)]
            /\ UNCHANGED <<empty, full>>
        BY <1>5, <2>1, ProducerMoves DEF Pin, sems, ProdPoints
      <3>2. Room(p)'
        BY <1>room, <3>1 DEF Room, One
      <3>3. QED
        BY <1>3, <1>4, <1>5, <2>1, <3>2 DEF Pin, ProdPoints
    <2>2. CASE main' = "exited" /\ UNCHANGED <<prog, i, pc>>
      BY <1>5, <2>2, Stands DEF Pin
    <2>3. QED
      BY <1>2, <1>5, <2>1, <2>2 DEF Pin
  <1>6. CASE Produce(p)
    <2>1. /\ pc[Prod(p)] = "produce" /\ pc'[Prod(p)] = "full" /\ pc'[Cons(p)] = pc[Cons(p)]
          /\ UNCHANGED <<empty, full>>
      BY <1>6, ProducerMoves DEF Produce, sems, ProdPoints
    <2>2. Room(p)'
      BY <1>room, <2>1 DEF Room, One
    <2>3. item' \in [Pairs -> Values] /\ \A q \in Pairs \ {p} : item'[q] = item[q]
      BY <1>4, <1>6 DEF Produce, Values
    <2>4. QED
      BY <1>3, <1>6, <2>2, <2>3 DEF Produce, ProdPoints
  <1>7. CASE SeeSpace(p)
    <2> DEFINE to == ToSlot("write")
    <2>1. /\ Goto(Prod(p), "full", to) /\ item' = item /\ w' = w
          /\ to = IF S.kind # "ring" THEN "lock" ELSE IF S.items THEN "write" ELSE "publish"
      BY <1>7 DEF SeeSpace, ToSlot
    <2> HIDE DEF to
    <2>2. to \in ProdPoints
      BY <2>1 DEF ProdPoints
    <2>3. /\ pc[Prod(p)] = "full" /\ pc'[Prod(p)] = to /\ pc'[Cons(p)] = pc[Cons(p)] /\ prog' = prog
      BY <2>1, <2>2, ProducerMoves
    <2>4. Len(sent[p]) < Rounds
      BY <2>3, Known DEF Counted
    <2>5. CASE S.kind = "ring"
      <3>1. (in[p] + 1) % BUFF_MAX # out[p]
        BY <1>7, <2>5 DEF SeeSpace
      <3>2. Inside(p) # BUFF_MAX - 1
        <4>1. /\ prog \in Programs /\ Len(sent[p]) \in Nat /\ Len(received[p]) \in Nat
              /\ in[p] = Place(Len(sent[p])) /\ out[p] = Place(Len(received[p]))
          BY Known DEF PairOK, Counted
        <4>2. Inside(p) = BUFF_MAX - 1 => (in[p] + 1) % BUFF_MAX = out[p]
          BY <2>5, <4>1, FullRing DEF Inside
        <4>3. QED
          BY <3>1, <4>2
      <3>3. Room(p)'
        BY <1>room, <2>3, <2>5, <3>2 DEF Room
      <3>4. QED
        BY <1>3, <1>4, <2>1, <2>2, <2>4, <2>5, <3>3
    <2>6. CASE S.kind = "semaphores"
      <3>1. empty > 0 /\ empty' = empty - 1 /\ full' = full
        BY <1>7, <2>6 DEF SeeSpace
      <3>2. Room(p)'
        BY <2>1, <2>3, <2>6, <3>1, <1>room DEF Room, One
      <3>3. QED
        BY <1>3, <1>4, <2>1, <2>2, <2>4, <2>6, <3>2
    <2>7. CASE S.kind = "mutex"
      <3>1. Room(p)'
        BY <2>3, <2>7, <1>room DEF Room
      <3>2. QED
        BY <1>3, <1>4, <2>1, <2>2, <2>4, <2>7, <3>1
    <2>8. QED
      BY <2>5, <2>6, <2>7, Known, Scripts
  <1>8. CASE Lock(Prod(p))
    <2>1. Goto(Prod(p), "lock", "write") /\ UNCHANGED <<item, w, empty, full>>
      BY <1>2, <1>8 DEF Lock
    <2>2. /\ pc[Prod(p)] = "lock" /\ pc'[Prod(p)] = "write" /\ pc'[Cons(p)] = pc[Cons(p)] /\ prog' = prog
      BY <2>1, ProducerMoves DEF ProdPoints
    <2>3. Len(sent[p]) < Rounds /\ S.kind # "ring"
      BY <2>2, Known DEF Counted, Points
    <2>4. Room(p)'
      BY <2>1, <2>2, <2>3, <1>room DEF Room, One
    <2>5. QED
      BY <1>3, <1>4, <2>1, <2>3, <2>4 DEF ProdPoints
  <1>9. CASE Unlock(Prod(p))
    <2> DEFINE to == IF S.kind = "semaphores" THEN "post" ELSE "produce"
    <2>1. Goto(Prod(p), "unlock", to) /\ UNCHANGED <<item, w, empty, full>>
      BY <1>2, <1>9 DEF Unlock, Again
    <2>2. to \in ProdPoints /\ to \notin {"full", "lock", "write", "publish"}
      BY DEF ProdPoints
    <2>3. S.kind = "semaphores" => to = "post"
      OBVIOUS
    <2> HIDE DEF to
    <2>4. /\ pc[Prod(p)] = "unlock" /\ pc'[Prod(p)] = to /\ pc'[Cons(p)] = pc[Cons(p)] /\ prog' = prog
      BY <2>1, <2>2, ProducerMoves
    <2>5. Room(p)'
      BY <2>1, <2>2, <2>3, <2>4, <1>room DEF Room, One
    <2>6. QED
      BY <1>3, <1>4, <2>1, <2>2, <2>5
  <1>10. CASE Post(Prod(p))
    <2>1. Goto(Prod(p), "post", "produce") /\ UNCHANGED <<item, w, empty>> /\ full' = full + 1
      BY <1>2, <1>10 DEF Post, Again
    <2>2. /\ pc[Prod(p)] = "post" /\ pc'[Prod(p)] = "produce" /\ pc'[Cons(p)] = pc[Cons(p)] /\ prog' = prog
      BY <2>1, ProducerMoves DEF ProdPoints
    <2>3. Room(p)'
      BY <2>1, <2>2, <1>room DEF Room, One
    <2>4. QED
      BY <1>3, <1>4, <2>1, <2>3 DEF ProdPoints
  <1>11. CASE ProducerReturns(p)
    <2>1. /\ pc[Prod(p)] = "produce" /\ pc'[Prod(p)] = "done" /\ pc'[Cons(p)] = pc[Cons(p)]
          /\ UNCHANGED <<empty, full>>
      BY <1>11, ProducerMoves DEF ProducerReturns, sems, ProdPoints
    <2>2. Room(p)'
      BY <1>room, <2>1 DEF Room, One
    <2>3. QED
      BY <1>3, <1>4, <1>11, <2>2 DEF ProducerReturns, ProdPoints
  <1>12. QED
    BY <1>5, <1>6, <1>7, <1>8, <1>9, <1>10, <1>11

(* The steps of a consumer that leave the buffer alone.                    *)
LEMMA ConsumerQuiet ==
  ASSUME IInv, NEW p \in Pairs,
         \/ Pin(Cons(p)) \/ SeeItem(p) \/ Lock(Cons(p)) \/ Unlock(Cons(p))
         \/ Post(Cons(p)) \/ ConsumerReturns(p)
  PROVE  IInv'
  <1> USE DEF PairOK
  <1>1. UNCHANGED rings /\ UNCHANGED <<in, out, B, sent, received, overtaken>>
    BY DEF Pin, SeeItem, Lock, Unlock, Post, ConsumerReturns, rings
  <1>2. Cons(p) % 2 # 0 /\ \A q \in Pairs \ {p} : Cons(p) # Cons(q)
    BY Known, Numbering
  <1>3. ASSUME NEW from, NEW to \in ConsPoints, Goto(Cons(p), from, to), from # "unborn",
               w' \in [Pairs -> Values], \A q \in Pairs \ {p} : w'[q] = w[q], item' = item,
               to # "lock" \/ S.kind # "ring", to # "read" \/ S.kind # "ring" \/ S.items,
               to \in {"lock", "read", "release"} => Len(received[p]) < Rounds,
               S.items => to # "release", Room(p)'
        PROVE  IInv'
    <2>1. /\ prog' = prog /\ pc[Cons(p)] = from /\ pc'[Cons(p)] = to /\ pc'[Prod(p)] = pc[Prod(p)]
          /\ \A q \in Pairs \ {p} : pc'[Cons(q)] = pc[Cons(q)] /\ pc'[Prod(q)] = pc[Prod(q)]
          /\ ControlTyped'
      BY <1>3, ConsumerMoves
    <2>2. OthersKept(p)
      BY <1>1, <1>3, <2>1 DEF OthersKept
    <2>3. TypesOK'
      BY <1>1, <1>3, <2>1, SameProgram DEF IInv, TypesOK, DataTyped
    <2>4. Points(p)'
      BY <1>3, <2>1, SameProgram, Known DEF Points
    <2>5. pc'[Prod(p)] \in {"full", "lock", "write", "publish"} => Len(sent[p]) < Rounds
      BY <2>1, Known DEF Counted
    <2>6. QED
      BY <1>1, <1>3, <2>1, <2>2, <2>3, <2>4, <2>5, QuietStep
  <1>4. w \in [Pairs -> Values]
    BY DEF IInv, TypesOK, DataTyped
  <1>room. /\ S' = S /\ Inside(p)' = Inside(p) /\ overtaken' = overtaken
           /\ Room(p) /\ Inside(p) \in Int /\ LINEAR \in Nat /\ BUFF_MAX \in Nat
    <2>1. prog' = prog
      BY DEF Pin, SeeItem, Lock, Unlock, Post, ConsumerReturns, Goto
    <2>2. QED
      BY <1>1, <2>1, Known, SameProgram DEF Inside
  <1>5. CASE Pin(Cons(p))
    <2>1. CASE Goto(Cons(p), "pin", "empty")
      <3>1. /\ pc[Cons(p)] = "pin" /\ pc'[Cons(p)] = "empty" /\ pc'[Prod(p)] = pc[Prod(p)]
            /\ UNCHANGED <<empty, full>>
        BY <1>5, <2>1, ConsumerMoves DEF Pin, sems, ConsPoints
      <3>2. Room(p)'
        BY <1>room, <3>1 DEF Room, One
      <3>3. QED
        BY <1>3, <1>4, <1>5, <2>1, <3>2 DEF Pin, ConsPoints
    <2>2. CASE main' = "exited" /\ UNCHANGED <<prog, i, pc>>
      BY <1>5, <2>2, Stands DEF Pin
    <2>3. QED
      BY <1>2, <1>5, <2>1, <2>2 DEF Pin
  <1>6. CASE SeeItem(p)
    <2> DEFINE to == ToSlot("read")
    <2>1. /\ Goto(Cons(p), "empty", to) /\ item' = item /\ w' = w /\ Len(received[p]) < Rounds
          /\ to = IF S.kind # "ring" THEN "lock" ELSE IF S.items THEN "read" ELSE "release"
      BY <1>6 DEF SeeItem, ToSlot
    <2> HIDE DEF to
    <2>2. to \in ConsPoints
      BY <2>1 DEF ConsPoints
    <2>3. /\ pc[Cons(p)] = "empty" /\ pc'[Cons(p)] = to /\ pc'[Prod(p)] = pc[Prod(p)]
      BY <2>1, <2>2, ConsumerMoves
    <2>4. CASE S.kind = "ring"
      <3>1. in[p] # out[p]
        BY <1>6, <2>4 DEF SeeItem
      <3>2. Inside(p) # 0
        BY <3>1, Known DEF Counted, Inside
      <3>3. Room(p)'
        BY <1>room, <2>3, <2>4, <3>2 DEF Room
      <3>4. QED
        BY <1>3, <1>4, <2>1, <2>2, <2>4, <3>3
    <2>5. CASE S.kind = "semaphores"
      <3>1. full > 0 /\ full' = full - 1 /\ empty' = empty
        BY <1>6, <2>5 DEF SeeItem
      <3>2. Room(p)'
        BY <1>room, <2>1, <2>3, <2>5, <3>1 DEF Room, One
      <3>3. QED
        BY <1>3, <1>4, <2>1, <2>2, <2>5, <3>2
    <2>6. CASE S.kind = "mutex"
      <3>1. Room(p)'
        BY <1>room, <2>1, <2>3, <2>6 DEF Room
      <3>2. QED
        BY <1>3, <1>4, <2>1, <2>2, <2>6, <3>1
    <2>7. QED
      BY <2>4, <2>5, <2>6, Known, Scripts
  <1>7. CASE Lock(Cons(p))
    <2>1. Goto(Cons(p), "lock", "read") /\ UNCHANGED <<item, w, empty, full>>
      BY <1>2, <1>7 DEF Lock
    <2>2. /\ pc[Cons(p)] = "lock" /\ pc'[Cons(p)] = "read" /\ pc'[Prod(p)] = pc[Prod(p)] /\ prog' = prog
      BY <2>1, ConsumerMoves DEF ConsPoints
    <2>3. Len(received[p]) < Rounds /\ S.kind # "ring"
      BY <2>2, Known DEF Counted, Points
    <2>4. Room(p)'
      BY <2>1, <2>2, <2>3, <1>room DEF Room, One
    <2>5. QED
      BY <1>3, <1>4, <2>1, <2>3, <2>4 DEF ConsPoints
  <1>8. CASE Unlock(Cons(p))
    <2> DEFINE to == IF S.kind = "semaphores" THEN "post" ELSE "empty"
    <2>1. Goto(Cons(p), "unlock", to) /\ UNCHANGED <<item, w, empty, full>>
      BY <1>2, <1>8 DEF Unlock, Again
    <2>2. to \in ConsPoints /\ to \notin {"lock", "read", "release"}
      BY DEF ConsPoints
    <2>3. S.kind = "semaphores" => to = "post"
      OBVIOUS
    <2> HIDE DEF to
    <2>4. /\ pc[Cons(p)] = "unlock" /\ pc'[Cons(p)] = to /\ pc'[Prod(p)] = pc[Prod(p)] /\ prog' = prog
      BY <2>1, <2>2, ConsumerMoves
    <2>5. Room(p)'
      BY <2>1, <2>2, <2>3, <2>4, <1>room DEF Room, One
    <2>6. QED
      BY <1>3, <1>4, <2>1, <2>2, <2>5
  <1>9. CASE Post(Cons(p))
    <2>1. Goto(Cons(p), "post", "empty") /\ UNCHANGED <<item, w, full>> /\ empty' = empty + 1
      BY <1>2, <1>9 DEF Post, Again
    <2>2. /\ pc[Cons(p)] = "post" /\ pc'[Cons(p)] = "empty" /\ pc'[Prod(p)] = pc[Prod(p)] /\ prog' = prog
      BY <2>1, ConsumerMoves DEF ConsPoints
    <2>3. Room(p)'
      BY <2>1, <2>2, <1>room DEF Room, One
    <2>4. QED
      BY <1>3, <1>4, <2>1, <2>3 DEF ConsPoints
  <1>10. CASE ConsumerReturns(p)
    <2>1. /\ pc[Cons(p)] = "empty" /\ pc'[Cons(p)] = "done" /\ pc'[Prod(p)] = pc[Prod(p)]
          /\ UNCHANGED <<empty, full>>
      BY <1>10, ConsumerMoves DEF ConsumerReturns, sems, ConsPoints
    <2>2. Room(p)'
      BY <1>room, <2>1 DEF Room, One
    <2>3. QED
      BY <1>3, <1>4, <1>10, <2>2 DEF ConsumerReturns, ConsPoints
  <1>11. QED
    BY <1>5, <1>6, <1>7, <1>8, <1>9, <1>10

(* The places two threads in a round are at.                               *)
LEMMA InRound ==
  ASSUME IInv, NEW p \in Pairs
  PROVE  /\ Len(sent[p]) < Rounds =>
              in[p] = Len(sent[p]) % Size /\ in[p] \in Slots
         /\ Len(received[p]) < Rounds =>
              out[p] = Len(received[p]) % Size /\ out[p] \in Slots
         /\ ~overtaken /\ pc[Cons(p)] = "release" => Inside(p) > 0
  <1>1. /\ Counted(p) /\ Room(p) /\ prog \in Programs
        /\ Len(sent[p]) \in Nat /\ Len(received[p]) \in Nat
        /\ LINEAR \in Nat /\ Size \in Nat /\ Rounds \in Nat
        /\ S.kind = "ring" \/ Rounds <= Size
        /\ S.kind \in {"ring", "semaphores", "mutex"}
    BY Known, Scripts, Bounds DEF PairOK
  <1>2. Len(sent[p]) < Rounds => in[p] = Len(sent[p]) % Size /\ in[p] \in Slots
    <2> DEFINE m == Len(sent[p])
    <2> SUFFICES ASSUME m < Rounds PROVE in[p] = m % Size /\ in[p] \in Slots
      OBVIOUS
    <2>1. m \in Nat /\ (S.kind = "ring" \/ m < Size) /\ in[p] = Place(m)
      BY <1>1 DEF Counted
    <2> HIDE DEF m
    <2>2. QED
      BY <1>1, <2>1, Places
  <1>3. Len(received[p]) < Rounds => out[p] = Len(received[p]) % Size /\ out[p] \in Slots
    <2> DEFINE m == Len(received[p])
    <2> SUFFICES ASSUME m < Rounds PROVE out[p] = m % Size /\ out[p] \in Slots
      OBVIOUS
    <2>1. m \in Nat /\ (S.kind = "ring" \/ m < Size) /\ out[p] = Place(m)
      BY <1>1 DEF Counted
    <2> HIDE DEF m
    <2>2. QED
      BY <1>1, <2>1, Places
  <1>4. ~overtaken /\ pc[Cons(p)] = "release" => Inside(p) > 0
    BY <1>1, Known DEF Room, One
  <1>5. QED
    BY <1>2, <1>3, <1>4

(* A slot the producer writes holds no unread item.                        *)
LEMMA WriteStep == ASSUME IInv, NEW p \in Pairs, WriteSlot(p) PROVE IInv'
  <1> DEFINE m == Len(sent[p])
             r == Len(received[p])
  <1>1. /\ Goto(Prod(p), "write", "publish") /\ UNCHANGED <<in, out, item, w, sent, received, full, empty>>
        /\ B' = [B EXCEPT ![p] = [B[p] EXCEPT ![in[p]] = item[p]]] /\ overtaken' = overtaken
    BY DEF WriteSlot, sems
  <1>2. /\ prog' = prog /\ pc[Prod(p)] = "write" /\ pc'[Prod(p)] = "publish" /\ pc'[Cons(p)] = pc[Cons(p)]
        /\ \A q \in Pairs \ {p} : pc'[Prod(q)] = pc[Prod(q)] /\ pc'[Cons(q)] = pc[Cons(q)]
        /\ ControlTyped'
    BY <1>1, ProducerMoves DEF ProdPoints
  <1>3. /\ prog \in Programs /\ m \in Nat /\ r \in Nat /\ Inside(p) = m - r
        /\ Points(p) /\ Counted(p) /\ Room(p) /\ Content(p) /\ BUFF_MAX \in Nat /\ LINEAR \in Nat
    BY Known DEF PairOK, Inside
  <1>4. m < Rounds /\ in[p] = m % Size /\ in[p] \in Slots
    BY <1>2, <1>3, InRound DEF Counted
  <1>5. /\ B' \in [Pairs -> [Slots -> Values]] /\ B'[p][m % Size] = item[p]
        /\ \A x \in Slots \ {m % Size} : B'[p][x] = B[p][x]
        /\ \A q \in Pairs \ {p} : B'[q] = B[q]
    <2>1. B \in [Pairs -> [Slots -> Values]] /\ item[p] \in Values
      BY DEF IInv, TypesOK, DataTyped
    <2>2. B[p] \in [Slots -> Values] /\ B'[p] = [B[p] EXCEPT ![in[p]] = item[p]]
      BY <1>1, <2>1
    <2>3. B'[p] \in [Slots -> Values]
      BY <1>4, <2>1, <2>2
    <2>4. QED
      BY <1>1, <1>4, <2>1, <2>2, <2>3
  <1>6. TypesOK' /\ OthersKept(p)
    BY <1>1, <1>2, <1>5, SameProgram DEF IInv, TypesOK, DataTyped, OthersKept
  <1>7. Points(p)' /\ Counted(p)'
    BY <1>1, <1>2, <1>3, <1>4, SameProgram DEF Points, Counted, ProdPoints
  <1>8. Room(p)'
    <2>1. S' = S /\ Inside(p)' = Inside(p) /\ Inside(p) \in Int
      BY <1>1, <1>2, <1>3, SameProgram DEF Inside
    <2>2. QED
      BY <1>1, <1>2, <1>3, <2>1 DEF Room, One
  <1>9. Content(p)'
    <2> SUFFICES ASSUME S.items, ~overtaken PROVE Content(p)'
      BY <1>1, <1>2, SameProgram DEF Content
    <2>1. ASSUME NEW k \in r + 1 .. m PROVE (k - 1) % Size \in Slots \ {m % Size}
      <3>1. S.kind = "ring" => Inside(p) < Size
        <4>1. S.kind = "ring" => Size = BUFF_MAX /\ BUFF_MAX \in Nat
          BY <1>3, Bounds
        <4>2. S.kind = "ring" => Inside(p) \in 0 .. BUFF_MAX - 1
          BY <1>3, Zenon DEF Room
        <4>3. QED
          BY <4>1, <4>2
      <3>2. S.kind # "ring" => m < Size
        BY <1>3, <1>4, Bounds
      <3>3. Size \in Nat /\ m \in Nat /\ r \in Nat /\ Inside(p) = m - r /\ k \in r + 1 .. m
        BY <1>3, Bounds
      <3> HIDE DEF m, r
      <3>4. k - 1 \in Nat /\ k - 1 < m /\ m - (k - 1) < Size /\ (S.kind = "ring" \/ k - 1 < Size)
        BY <3>1, <3>2, <3>3
      <3>5. (k - 1) % Size # m % Size
        BY <1>3, <3>3, <3>4, Distinct
      <3>6. (k - 1) % Size \in Slots
        BY <1>3, <3>4, Places
      <3>7. QED
        BY <3>5, <3>6
    <2>2. /\ \A k \in 1 .. r : k <= m /\ received[p][k] = sent[p][k]
          /\ \A k \in r + 1 .. m : B[p][(k - 1) % Size] = sent[p][k]
          /\ pc[Cons(p)] = "release" => w[p] = sent[p][r + 1]
      BY <1>3 DEF Content
    <2>3. \A k \in r + 1 .. m : B'[p][(k - 1) % Size] = sent[p][k]
      BY <1>5, <2>1, <2>2
    <2>4. QED
      BY <1>1, <1>2, <1>5, <2>2, <2>3, SameProgram DEF Content
  <1>10. QED
    BY <1>6, <1>7, <1>8, <1>9, Assembled DEF PairOK

(* Moving in makes the item in its slot the last that was sent.            *)
LEMMA PublishStep == ASSUME IInv, NEW p \in Pairs, Publish(p) PROVE IInv'
  <1> DEFINE m == Len(sent[p])
             r == Len(received[p])
             to == IF S.kind = "ring" THEN "produce" ELSE "unlock"
  <1>1. /\ Goto(Prod(p), "publish", to) /\ UNCHANGED <<out, B, item, w, received, full, empty>>
        /\ in' = [in EXCEPT ![p] = Moved(in[p])] /\ overtaken' = overtaken
        /\ sent' = [sent EXCEPT ![p] = Append(sent[p], item[p])]
    BY DEF Publish, sems
  <1>2. to \in ProdPoints \ {"lock", "write", "full", "publish"} /\ (S.kind = "semaphores" => to = "unlock")
    BY DEF ProdPoints
  <1> HIDE DEF to
  <1>3. /\ prog' = prog /\ pc[Prod(p)] = "publish" /\ pc'[Prod(p)] = to /\ pc'[Cons(p)] = pc[Cons(p)]
        /\ \A q \in Pairs \ {p} : pc'[Prod(q)] = pc[Prod(q)] /\ pc'[Cons(q)] = pc[Cons(q)]
        /\ ControlTyped'
    BY <1>1, <1>2, ProducerMoves
  <1>4. /\ prog \in Programs /\ m \in Nat /\ r \in Nat /\ Inside(p) = m - r
        /\ Points(p) /\ Counted(p) /\ Room(p) /\ Content(p) /\ BUFF_MAX \in Nat /\ LINEAR \in Nat
    BY Known DEF PairOK, Inside
  <1>5. m < Rounds /\ in[p] = Place(m) /\ Rounds \in Nat
    BY <1>3, <1>4, Bounds DEF Counted
  <1>6. /\ sent' \in [Pairs -> Seq(Values)] /\ Len(sent'[p]) = m + 1 /\ sent'[p][m + 1] = item[p]
        /\ \A k \in 1 .. m : sent'[p][k] = sent[p][k]
        /\ \A q \in Pairs \ {p} : sent'[q] = sent[q]
    <2>1. sent \in [Pairs -> Seq(Values)] /\ item[p] \in Values
      BY DEF IInv, TypesOK, DataTyped
    <2>2. sent'[p] = Append(sent[p], item[p]) /\ sent[p] \in Seq(Values)
      BY <1>1, <2>1
    <2>3. QED
      BY <1>1, <2>1, <2>2
  <1>7. /\ in' \in [Pairs -> Nat] /\ in'[p] = Place(m + 1)
        /\ \A q \in Pairs \ {p} : in'[q] = in[q]
    <2>1. in \in [Pairs -> Nat]
      BY DEF IInv, TypesOK, DataTyped
    <2>2. prog \in Programs /\ m \in Nat /\ m + 1 \in Nat /\ in[p] = Place(m)
      BY <1>4, <1>5
    <2> HIDE DEF m
    <2>3. Moved(in[p]) = Place(m + 1) /\ Place(m + 1) \in Nat
      BY <2>2, PlaceMoves
    <2>4. QED
      BY <1>1, <2>1, <2>3
  <1>8. TypesOK' /\ OthersKept(p)
    BY <1>1, <1>3, <1>6, <1>7, SameProgram DEF IInv, TypesOK, DataTyped, OthersKept
  <1>9. Points(p)' /\ Counted(p)'
    BY <1>1, <1>2, <1>3, <1>4, <1>5, <1>6, <1>7, SameProgram DEF Points, Counted
  <1>10. Room(p)'
    <2>1. Inside(p)' = (m + 1) - r
      BY <1>1, <1>6 DEF Inside
    <2>2. m \in Nat /\ r \in Nat /\ Inside(p) = m - r
      BY <1>4
    <2> HIDE DEF m, r
    <2>3. Inside(p)' = Inside(p) + 1 /\ Inside(p) \in Int
      BY <2>1, <2>2
    <2>4. S' = S /\ full' = full /\ empty' = empty /\ overtaken' = overtaken
      BY <1>1, <1>3, SameProgram
    <2>5. Room(p) /\ BUFF_MAX \in Nat /\ LINEAR \in Nat
      BY <1>4
    <2>6. QED
      BY <1>2, <1>3, <2>3, <2>4, <2>5 DEF Room, One
  <1>11. Content(p)'
    <2> SUFFICES ASSUME S.items, ~overtaken PROVE Content(p)'
      BY <1>1, <1>3, SameProgram DEF Content
    <2>1. /\ \A k \in 1 .. r : k <= m /\ received[p][k] = sent[p][k]
          /\ \A k \in r + 1 .. m : B[p][(k - 1) % Size] = sent[p][k]
          /\ B[p][m % Size] = item[p]
          /\ pc[Cons(p)] = "release" => w[p] = sent[p][r + 1]
      BY <1>3, <1>4 DEF Content
    <2>room. m \in Nat /\ r \in Nat /\ Inside(p) = m - r /\ (pc[Cons(p)] = "release" => Inside(p) > 0)
      BY <1>4, InRound
    <2> HIDE DEF m, r
    <2>2. pc[Cons(p)] = "release" => r + 1 \in 1 .. m
      BY <2>room
    <2>3. \A k \in 1 .. r : k <= m + 1 /\ received[p][k] = sent'[p][k]
      BY <1>4, <1>6, <2>1
    <2>4. ASSUME NEW k \in r + 1 .. m + 1 PROVE B[p][(k - 1) % Size] = sent'[p][k]
      <3>1. CASE k = m + 1
        <4>1. k - 1 = m
          BY <1>4, <3>1
        <4>2. QED
          BY <1>6, <2>1, <3>1, <4>1
      <3>2. CASE k # m + 1
        <4>1. k \in r + 1 .. m /\ k \in 1 .. m
          BY <1>4, <3>2
        <4>2. QED
          BY <1>6, <2>1, <4>1
      <3>3. QED
        BY <3>1, <3>2
    <2>5. pc[Cons(p)] = "release" => w[p] = sent'[p][r + 1]
      BY <1>6, <2>1, <2>2
    <2>6. pc'[Prod(p)] # "publish"
      BY <1>2, <1>3
    <2>7. /\ received' = received /\ B' = B /\ w' = w /\ Len(sent'[p]) = m + 1
          /\ S' = S /\ Size' = Size /\ pc'[Cons(p)] = pc[Cons(p)] /\ Len(received[p]) = r
      BY <1>1, <1>3, <1>6, SameProgram DEF r
    <2>8. QED
      BY <2>3, <2>4, <2>5, <2>6, <2>7 DEF Content
  <1>12. QED
    BY <1>8, <1>9, <1>10, <1>11, Assembled DEF PairOK

(* The slot a consumer reads holds the next item, unless it overtook.      *)
LEMMA ReadStep == ASSUME IInv, NEW p \in Pairs, ReadSlot(p) PROVE IInv'
  <1> DEFINE m == Len(sent[p])
             r == Len(received[p])
  <1>1. /\ Goto(Cons(p), "read", "release") /\ UNCHANGED <<in, out, B, item, sent, received, full, empty>>
        /\ w' = [w EXCEPT ![p] = B[p][out[p]]]
        /\ overtaken => overtaken'
        /\ S.kind = "mutex" /\ ~overtaken' => out[p] < in[p] \/ ~(out[p] >= in[p])
    BY DEF ReadSlot, sems
  <1>2. /\ prog' = prog /\ pc[Cons(p)] = "read" /\ pc'[Cons(p)] = "release" /\ pc'[Prod(p)] = pc[Prod(p)]
        /\ \A q \in Pairs \ {p} : pc'[Cons(q)] = pc[Cons(q)] /\ pc'[Prod(q)] = pc[Prod(q)]
        /\ ControlTyped'
    BY <1>1, ConsumerMoves DEF ConsPoints
  <1>3. /\ prog \in Programs /\ m \in Nat /\ r \in Nat /\ Inside(p) = m - r
        /\ Points(p) /\ Counted(p) /\ Room(p) /\ Content(p) /\ BUFF_MAX \in Nat /\ LINEAR \in Nat
    BY Known DEF PairOK, Inside
  <1>4. r < Rounds /\ out[p] = r % Size /\ out[p] \in Slots
    BY <1>2, <1>3, InRound DEF Counted
  <1>5. w' \in [Pairs -> Values] /\ w'[p] = B[p][r % Size] /\ \A q \in Pairs \ {p} : w'[q] = w[q]
    BY <1>1, <1>4 DEF IInv, TypesOK, DataTyped
  <1>6. TypesOK' /\ OthersKept(p)
    BY <1>1, <1>2, <1>5, SameProgram DEF IInv, TypesOK, DataTyped, OthersKept
  <1>7. Points(p)' /\ Counted(p)'
    BY <1>1, <1>2, <1>3, <1>4, SameProgram DEF Points, Counted, ConsPoints
  <1>8. ~overtaken' => ~overtaken /\ Inside(p) > 0
    <2>1. CASE S.kind = "mutex"
      <3>1. in[p] = m /\ out[p] = r
        BY <1>3, <2>1 DEF Counted, Place
      <3>2. m \in Nat /\ r \in Nat /\ Inside(p) = m - r
        BY <1>3
      <3>3. /\ overtaken => overtaken'
            /\ ~overtaken' => out[p] < in[p] \/ ~(out[p] >= in[p])
        BY <1>1, <2>1
      <3> HIDE DEF m, r
      <3>4. QED
        BY <3>1, <3>2, <3>3
    <2>2. CASE S.kind = "ring"
      <3>1. Inside(p) > 0
        BY <1>2, <1>3, <2>2, Zenon DEF Room
      <3>2. QED
        BY <1>1, <3>1
    <2>3. CASE S.kind = "semaphores"
      <3>1. Room(p) /\ Inside(p) \in Int /\ LINEAR \in Nat
        BY Known DEF PairOK
      <3>2. Inside(p) > 0
        BY <1>2, <2>3, <3>1 DEF Room, One
      <3>3. QED
        BY <1>1, <3>2
    <2>4. QED
      BY <1>3, <2>1, <2>2, <2>3, Scripts
  <1>9. Room(p)'
    <2>1. S' = S /\ Inside(p)' = Inside(p) /\ Inside(p) \in Int
      BY <1>1, <1>2, <1>3, SameProgram DEF Inside
    <2>2. QED
      BY <1>1, <1>2, <1>3, <1>8, <2>1 DEF Room, One
  <1>10. Content(p)'
    <2> SUFFICES ASSUME S.items, ~overtaken' PROVE Content(p)'
      BY <1>2, SameProgram DEF Content
    <2>1. /\ \A k \in 1 .. r : k <= m /\ received[p][k] = sent[p][k]
          /\ \A k \in r + 1 .. m : B[p][(k - 1) % Size] = sent[p][k]
          /\ pc[Prod(p)] = "publish" => B[p][m % Size] = item[p]
      BY <1>3, <1>8 DEF Content
    <2>2. r + 1 \in r + 1 .. m /\ (r + 1) - 1 = r
      <3>1. m \in Nat /\ r \in Nat /\ Inside(p) = m - r /\ Inside(p) > 0
        BY <1>3, <1>8
      <3> HIDE DEF m, r
      <3>2. QED
        BY <3>1
    <2>3. B[p][((r + 1) - 1) % Size] = sent[p][r + 1]
      BY <2>1, <2>2
    <2>4. w'[p] = sent[p][r + 1]
      BY <1>5, <2>2, <2>3
    <2>5. QED
      BY <1>1, <1>2, <2>1, <2>4, SameProgram DEF Content
  <1>11. QED
    BY <1>6, <1>7, <1>9, <1>10, Assembled DEF PairOK

(* Moving out makes the item the consumer holds the last received.         *)
LEMMA ReleaseStep == ASSUME IInv, NEW p \in Pairs, Release(p) PROVE IInv'
  <1> DEFINE m == Len(sent[p])
             r == Len(received[p])
             to == IF S.kind = "ring" THEN "empty" ELSE "unlock"
  <1>1. /\ Goto(Cons(p), "release", to) /\ UNCHANGED <<in, B, item, w, sent, full, empty>>
        /\ out' = [out EXCEPT ![p] = Moved(out[p])] /\ overtaken' = overtaken
        /\ received' = [received EXCEPT ![p] = Append(received[p], w[p])]
    BY DEF Release, sems
  <1>2. to \in ConsPoints \ {"lock", "read", "release"} /\ (S.kind = "semaphores" => to = "unlock")
    BY DEF ConsPoints
  <1> HIDE DEF to
  <1>3. /\ prog' = prog /\ pc[Cons(p)] = "release" /\ pc'[Cons(p)] = to /\ pc'[Prod(p)] = pc[Prod(p)]
        /\ \A q \in Pairs \ {p} : pc'[Cons(q)] = pc[Cons(q)] /\ pc'[Prod(q)] = pc[Prod(q)]
        /\ ControlTyped'
    BY <1>1, <1>2, ConsumerMoves
  <1>4. /\ prog \in Programs /\ m \in Nat /\ r \in Nat /\ Inside(p) = m - r
        /\ Points(p) /\ Counted(p) /\ Room(p) /\ Content(p) /\ BUFF_MAX \in Nat /\ LINEAR \in Nat
    BY Known DEF PairOK, Inside
  <1>5. r < Rounds /\ out[p] = Place(r) /\ Rounds \in Nat
    BY <1>3, <1>4, Bounds DEF Counted
  <1>6. /\ received' \in [Pairs -> Seq(Values)] /\ Len(received'[p]) = r + 1 /\ received'[p][r + 1] = w[p]
        /\ \A k \in 1 .. r : received'[p][k] = received[p][k]
        /\ \A q \in Pairs \ {p} : received'[q] = received[q]
    <2>1. received \in [Pairs -> Seq(Values)] /\ w[p] \in Values
      BY DEF IInv, TypesOK, DataTyped
    <2>2. received'[p] = Append(received[p], w[p]) /\ received[p] \in Seq(Values)
      BY <1>1, <2>1
    <2>3. QED
      BY <1>1, <2>1, <2>2
  <1>7. /\ out' \in [Pairs -> Nat] /\ out'[p] = Place(r + 1)
        /\ \A q \in Pairs \ {p} : out'[q] = out[q]
    <2>1. out \in [Pairs -> Nat]
      BY DEF IInv, TypesOK, DataTyped
    <2>2. prog \in Programs /\ r \in Nat /\ r + 1 \in Nat /\ out[p] = Place(r)
      BY <1>4, <1>5
    <2> HIDE DEF r
    <2>3. Moved(out[p]) = Place(r + 1) /\ Place(r + 1) \in Nat
      BY <2>2, PlaceMoves
    <2>4. QED
      BY <1>1, <2>1, <2>3
  <1>8. TypesOK' /\ OthersKept(p)
    BY <1>1, <1>3, <1>6, <1>7, SameProgram DEF IInv, TypesOK, DataTyped, OthersKept
  <1>9. Points(p)' /\ Counted(p)'
    BY <1>1, <1>2, <1>3, <1>4, <1>5, <1>6, <1>7, SameProgram DEF Points, Counted
  <1>10. ~overtaken => Inside(p) > 0
    BY <1>3, InRound
  <1>11. Room(p)'
    <2>1. Inside(p)' = m - (r + 1)
      BY <1>1, <1>6 DEF Inside
    <2>2. m \in Nat /\ r \in Nat /\ Inside(p) = m - r
      BY <1>4
    <2> HIDE DEF m, r
    <2>3. Inside(p)' = Inside(p) - 1 /\ Inside(p) \in Int
      BY <2>1, <2>2
    <2>4. S' = S /\ full' = full /\ empty' = empty /\ overtaken' = overtaken
      BY <1>1, <1>3, SameProgram
    <2>5. Room(p) /\ BUFF_MAX \in Nat /\ LINEAR \in Nat
      BY <1>4
    <2>6. QED
      BY <1>2, <1>3, <1>10, <2>3, <2>4, <2>5 DEF Room, One
  <1>12. Content(p)'
    <2> SUFFICES ASSUME S.items, ~overtaken PROVE Content(p)'
      BY <1>1, <1>3, SameProgram DEF Content
    <2>1. /\ \A k \in 1 .. r : k <= m /\ received[p][k] = sent[p][k]
          /\ \A k \in r + 1 .. m : B[p][(k - 1) % Size] = sent[p][k]
          /\ pc[Prod(p)] = "publish" => B[p][m % Size] = item[p]
          /\ w[p] = sent[p][r + 1]
      BY <1>3, <1>4 DEF Content
    <2>room. m \in Nat /\ r \in Nat /\ Inside(p) = m - r /\ Inside(p) > 0
      BY <1>4, <1>10
    <2> HIDE DEF m, r
    <2>2. r + 1 <= m
      BY <2>room
    <2>3. \A k \in 1 .. r + 1 : k <= m /\ received'[p][k] = sent[p][k]
      BY <1>4, <1>6, <2>1, <2>2
    <2>4. \A k \in r + 2 .. m : B[p][(k - 1) % Size] = sent[p][k]
      BY <1>4, <2>1
    <2>5. pc'[Cons(p)] # "release" /\ (r + 1) + 1 = r + 2
      BY <1>2, <1>3, <1>4
    <2>6. QED
      BY <1>1, <1>3, <1>6, <2>1, <2>3, <2>4, <2>5, SameProgram DEF Content, m
  <1>13. QED
    BY <1>8, <1>9, <1>11, <1>12, Assembled DEF PairOK

-----------------------------------------------------------------------------
(* IInv holds in every reachable state of every program.                   *)
THEOREM PairsInvariance == Spec => []IInv
  <1>1. IInv /\ [Next]_vars => IInv'
    <2> SUFFICES ASSUME IInv, [Next]_vars PROVE IInv'
      OBVIOUS
    <2>1. CASE UNCHANGED vars
      BY <2>1, Stands DEF vars
    <2>2. CASE Main
      BY <2>2, MainStep
    <2>3. ASSUME NEW p \in Pairs, Producer(p) PROVE IInv'
      BY <2>3, ProducerQuiet, WriteStep, PublishStep DEF Producer
    <2>4. ASSUME NEW p \in Pairs, Consumer(p) PROVE IInv'
      BY <2>4, ConsumerQuiet, ReadStep, ReleaseStep DEF Consumer
    <2>5. QED
      BY <2>1, <2>2, <2>3, <2>4 DEF Next
  <1>2. QED
    BY <1>1, InitIInv, PTL DEF Spec

(* The indices and semaphores always tell how many items a buffer holds,   *)
(* although every access to them is a step of its own and the rings have   *)
(* no lock (producer and consumer of the seven programs).                  *)
THEOREM CountsKept == Spec => []IndicesCount
  <1>1. IInv => IndicesCount
    <2> SUFFICES ASSUME IInv, NEW p \in Pairs, ~(S.kind = "mutex" /\ overtaken)
                 PROVE  LET inside == Len(sent[p]) - Len(received[p]) IN
                        /\ inside >= 0
                        /\ S.kind = "ring" => inside < BUFF_MAX /\ (in[p] - out[p]) % BUFF_MAX = inside
                        /\ S.kind = "semaphores" =>
                             /\ full <= inside /\ inside <= LINEAR - empty
                             /\ pc[Prod(p)] = "produce" /\ pc[Cons(p)] = "empty" =>
                                  full = inside /\ empty = LINEAR - inside
      BY DEF IndicesCount
    <2>1. /\ prog \in Programs /\ Room(p) /\ Counted(p) /\ Inside(p) \in Int
          /\ LINEAR \in Nat /\ BUFF_MAX \in Nat \ {0}
          /\ Len(sent[p]) \in Nat /\ Len(received[p]) \in Nat
      BY Known, PairedAssumption DEF PairOK
    <2>2. CASE S.kind = "ring"
      <3> DEFINE r == Len(received[p])
                 d == Inside(p)
      <3>1. d \in 0 .. BUFF_MAX - 1 /\ Len(sent[p]) = r + d
        BY <2>1, <2>2 DEF Room, Inside, One
      <3>2. in[p] = (r + d) % BUFF_MAX /\ out[p] = r % BUFF_MAX
        BY <2>1, <2>2, <3>1 DEF Counted, Place
      <3>3. r \in Int
        BY <2>1
      <3> HIDE DEF r, d
      <3>4. (((r + d) % BUFF_MAX) - (r % BUFF_MAX)) % BUFF_MAX = d
        BY <2>1, <3>1, <3>3, Apart
      <3>5. QED
        <4>1. Len(sent[p]) - Len(received[p]) = d
          BY DEF d, Inside
        <4>2. d >= 0 /\ d < BUFF_MAX
          BY <2>1, <3>1
        <4>3. QED
          BY <2>2, <3>2, <3>4, <4>1, <4>2
    <2>3. CASE S.kind = "semaphores"
      <3>1. Len(sent[p]) - Len(received[p]) = Inside(p)
        BY DEF Inside
      <3>2. /\ Inside(p) >= 0 /\ full <= Inside(p) /\ Inside(p) <= LINEAR - empty
            /\ pc[Prod(p)] = "produce" /\ pc[Cons(p)] = "empty" =>
                 full = Inside(p) /\ empty = LINEAR - Inside(p)
        <4>1. /\ One(pc[Prod(p)] \in {"unlock", "post"}) \in Nat
              /\ One(pc[Cons(p)] \in {"lock", "read", "release"}) \in Nat
              /\ One(pc[Prod(p)] \in {"lock", "write", "publish"}) \in Nat
              /\ One(pc[Cons(p)] \in {"unlock", "post"}) \in Nat
          BY DEF One
        <4>2. pc[Prod(p)] = "produce" /\ pc[Cons(p)] = "empty" =>
                /\ One(pc[Prod(p)] \in {"unlock", "post"}) = 0
                /\ One(pc[Cons(p)] \in {"lock", "read", "release"}) = 0
                /\ One(pc[Prod(p)] \in {"lock", "write", "publish"}) = 0
                /\ One(pc[Cons(p)] \in {"unlock", "post"}) = 0
          BY DEF One
        <4>3. PICK a1 \in Nat, b1 \in Nat, a2 \in Nat, b2 \in Nat :
                /\ full = Inside(p) - a1 - b1 /\ empty = LINEAR - Inside(p) - a2 - b2
                /\ pc[Prod(p)] = "produce" /\ pc[Cons(p)] = "empty" =>
                     a1 = 0 /\ b1 = 0 /\ a2 = 0 /\ b2 = 0
          <5>1. /\ full = Inside(p) - One(pc[Prod(p)] \in {"unlock", "post"})
                                    - One(pc[Cons(p)] \in {"lock", "read", "release"})
                /\ empty = LINEAR - Inside(p) - One(pc[Prod(p)] \in {"lock", "write", "publish"})
                                              - One(pc[Cons(p)] \in {"unlock", "post"})
            BY <2>1, <2>3 DEF Room
          <5>2. QED
            BY <4>1, <4>2, <5>1
        <4>4. full \in Nat /\ empty \in Nat /\ Inside(p) \in Int /\ LINEAR \in Nat
          BY <2>1, <2>3, PairedAssumption DEF Room
        <4>5. QED
          BY <4>3, <4>4
      <3>3. QED
        BY <2>3, <3>1, <3>2
    <2>4. CASE S.kind = "mutex"
      BY <2>1, <2>4 DEF Room, Inside
    <2>5. QED
      BY <2>1, <2>2, <2>3, <2>4, Scripts
  <1>2. QED
    BY <1>1, PairsInvariance, PTL

(* What a consumer receives is what the producer of its pair sent, in      *)
(* order, and nothing unread is overwritten.                               *)
THEOREM PairsDeliver == Spec => []PairFifo
  <1>1. IInv => PairFifo
    BY DEF IInv, PairOK, Content, PairFifo
  <1>2. QED
    BY <1>1, PairsInvariance, PTL

-----------------------------------------------------------------------------
(* Refinement: every buffer implements BoundedFifo, as long as nothing is  *)
(* read before it was written.                                             *)

(* The unread items of a buffer, read off its slots.                       *)
Queue(p) == [k \in 1 .. Inside(p) |-> B[p][(Len(received[p]) + k - 1) % Size]]

Fifo(p, capacity) == INSTANCE BoundedFifo WITH
  Capacity <- capacity, queue <- Queue(p), delivered <- received[p]

(* A ring is full with one slot free, an array with none.                  *)
FifoStep(p) ==
  /\ S.kind = "ring" => Fifo(p, BUFF_MAX - 1)!Next \/ UNCHANGED Fifo(p, BUFF_MAX - 1)!vars
  /\ S.kind # "ring" => Fifo(p, LINEAR)!Next \/ UNCHANGED Fifo(p, LINEAR)!vars

(* Where the slots are used every pair has a bounded queue of its own: it  *)
(* is empty at first, and every step of any thread puts an item of the     *)
(* producer at its end, takes its first item to the consumer, or leaves it *)
(* as it is.                                                               *)
PairsImplementFifo ==
  /\ S.items => \A p \in Pairs : Fifo(p, LINEAR)!Init
  /\ [][S.items /\ ~overtaken' => \A p \in Pairs : FifoStep(p)]_vars

(* What a producer is about to put was drawn from the items.               *)
Drawn ==
  \A p \in Pairs : pc[Prod(p)] \in {"full", "lock", "write", "publish"} => item[p] \in Items

(* The slots hold what was sent and not received.                          *)
QueueOK ==
  S.items /\ ~overtaken =>
    \A p \in Pairs : Queue(p) = [k \in 1 .. Inside(p) |-> sent[p][Len(received[p]) + k]]

(* No step changes the program, and what was overtaken stays so.           *)
LEMMA StepsOfRings ==
  ASSUME IInv, [Next]_vars
  PROVE  /\ prog' = prog /\ (overtaken => overtaken')
         /\ \A p \in Pairs : \/ sent'[p] = sent[p] /\ received'[p] = received[p]
                             \/ Publish(p) \/ Release(p)
  <1>1. sent \in [Pairs -> Seq(Values)] /\ received \in [Pairs -> Seq(Values)]
    BY DEF IInv, TypesOK, DataTyped
  <1>2. CASE UNCHANGED vars
    BY <1>2 DEF vars, rings
  <1>3. CASE Main
    BY <1>3 DEF Main, InitializePerf, Create, MallocFails, Join, rings
  <1>4. ASSUME NEW p \in Pairs,
               \/ \E t \in {Prod(p), Cons(p)} : Pin(t) \/ Lock(t) \/ Unlock(t) \/ Post(t)
               \/ Produce(p) \/ SeeSpace(p) \/ WriteSlot(p) \/ ProducerReturns(p)
               \/ SeeItem(p) \/ ReadSlot(p) \/ ConsumerReturns(p)
        PROVE  prog' = prog /\ (overtaken => overtaken') /\ UNCHANGED <<sent, received>>
    <2>1. ASSUME NEW t, Pin(t) \/ Lock(t) \/ Unlock(t) \/ Post(t) PROVE prog' = prog /\ UNCHANGED rings
      BY <2>1 DEF Pin, Lock, Unlock, Post, Goto
    <2>2. ASSUME Produce(p) \/ SeeSpace(p) \/ ProducerReturns(p) \/ SeeItem(p) \/ ConsumerReturns(p)
          PROVE  prog' = prog /\ UNCHANGED rings
      BY <2>2 DEF Produce, SeeSpace, ProducerReturns, SeeItem, ConsumerReturns, Goto
    <2>3. ASSUME WriteSlot(p) \/ ReadSlot(p)
          PROVE  prog' = prog /\ (overtaken => overtaken') /\ UNCHANGED <<sent, received>>
      <3>1. prog' = prog /\ UNCHANGED <<sent, received>>
        BY <2>3 DEF WriteSlot, ReadSlot, Goto
      <3>2. overtaken => overtaken'
        BY <2>3, Zenon DEF WriteSlot, ReadSlot
      <3>3. QED
        BY <3>1, <3>2
    <2>4. QED
      BY <1>4, <2>1, <2>2, <2>3 DEF rings
  <1>5. ASSUME NEW p \in Pairs, Publish(p)
        PROVE  /\ prog' = prog /\ overtaken' = overtaken /\ received' = received
               /\ \A q \in Pairs \ {p} : sent'[q] = sent[q]
    BY <1>1, <1>5 DEF Publish, Goto
  <1>6. ASSUME NEW p \in Pairs, Release(p)
        PROVE  /\ prog' = prog /\ overtaken' = overtaken /\ sent' = sent
               /\ \A q \in Pairs \ {p} : received'[q] = received[q]
    BY <1>1, <1>6 DEF Release, Goto
  <1>7. ASSUME NEW p \in Pairs, Producer(p) \/ Consumer(p)
        PROVE  \/ prog' = prog /\ (overtaken => overtaken') /\ UNCHANGED <<sent, received>>
               \/ Publish(p) \/ Release(p)
    BY <1>4, <1>7 DEF Producer, Consumer
  <1>8. CASE \E p \in Pairs : Producer(p) \/ Consumer(p)
    <2>1. PICK p \in Pairs : Producer(p) \/ Consumer(p)
      BY <1>8
    <2>2. CASE prog' = prog /\ (overtaken => overtaken') /\ UNCHANGED <<sent, received>>
      BY <2>2
    <2>3. CASE Publish(p)
      BY <1>5, <2>3
    <2>4. CASE Release(p)
      BY <1>6, <2>4
    <2>5. QED
      BY <1>7, <2>1, <2>2, <2>3, <2>4
  <1>9. QED
    BY <1>2, <1>3, <1>8 DEF Next

Drawing == {"full", "lock", "write", "publish"}

(* Only Produce takes a producer to where it needs an item.                *)
LEMMA DrawnStep == ASSUME IInv, Drawn, [Next]_vars PROVE Drawn'
  <1>1. prog' = prog /\ Pairs' = Pairs /\ prog \in Programs
    BY StepsOfRings, SameProgram DEF IInv, TypesOK, ControlTyped
  <1>2. /\ pc \in [Threads -> ProdPoints \cup ConsPoints] /\ item \in [Pairs -> Values]
        /\ \A p \in Pairs : pc[Prod(p)] \in Drawing => item[p] \in Items
    BY DEF IInv, TypesOK, ControlTyped, DataTyped, Drawn, Drawing
  <1> SUFFICES ASSUME NEW p \in Pairs, pc'[Prod(p)] \in Drawing PROVE item'[p] \in Items
    BY <1>1 DEF Drawn, Drawing, Prod
  <1>3. Prod(p) \in Threads /\ \A q \in Pairs : Cons(q) # Prod(p) /\ (q # p => Prod(q) # Prod(p))
    BY <1>1, Numbering
  <1>4. ASSUME pc[Prod(p)] \in Drawing, item'[p] = item[p] PROVE item'[p] \in Items
    BY <1>2, <1>4
  <1>5. CASE UNCHANGED vars
    BY <1>4, <1>5 DEF vars
  <1>6. CASE Main
    <2>1. item' = item
      BY <1>6 DEF Main, InitializePerf, Create, MallocFails, Join
    <2>2. pc' = pc \/ \E at \in {"pin", "failed"} : pc' = [pc EXCEPT ![i] = at]
      BY <1>6 DEF Main, InitializePerf, Create, MallocFails, Join
    <2>3. pc[Prod(p)] = pc'[Prod(p)]
      BY <1>2, <1>3, <2>2 DEF Drawing
    <2>4. QED
      BY <1>4, <2>1, <2>3
  <1>7. ASSUME NEW t \in Threads, t # Prod(p), NEW from, NEW to, Goto(t, from, to), item'[p] = item[p]
        PROVE  item'[p] \in Items
    BY <1>2, <1>3, <1>4, <1>7 DEF Goto
  <1>8. ASSUME NEW from \in Drawing, NEW to, Goto(Prod(p), from, to), item'[p] = item[p]
        PROVE  item'[p] \in Items
    BY <1>4, <1>8 DEF Goto
  <1>9. ASSUME NEW to, to \notin Drawing, NEW from, Goto(Prod(p), from, to) PROVE FALSE
    BY <1>2, <1>3, <1>9 DEF Goto
  <1>10. ASSUME NEW q \in Pairs, Producer(q) PROVE item'[p] \in Items
    <2>1. Prod(q) \in Threads /\ Prod(q) % 2 = 0
      BY <1>1, Numbering
    <2>2. CASE Produce(q)
      <3>1. CASE q = p
        BY <1>2, <2>2, <3>1 DEF Produce
      <3>2. CASE q # p
        BY <1>2, <1>3, <1>7, <2>1, <2>2, <3>2 DEF Produce
      <3>3. QED
        BY <3>1, <3>2
    <2>3. CASE ~Produce(q)
      <3>1. item' = item
        BY <1>10, <2>3 DEF Producer, Pin, SeeSpace, Lock, WriteSlot, Publish, Unlock, Post,
                           ProducerReturns, Goto
      <3>2. PICK from, to :
              /\ Goto(Prod(q), from, to) \/ pc' = pc
              /\ from \in Drawing \/ to \notin Drawing
        <4>1. CASE Pin(Prod(q))
          BY <2>1, <4>1 DEF Pin, Drawing
        <4>2. CASE SeeSpace(q)
          BY <4>2 DEF SeeSpace, Drawing
        <4>3. CASE Lock(Prod(q)) \/ WriteSlot(q) \/ Publish(q)
          BY <4>3 DEF Lock, WriteSlot, Publish, Drawing
        <4>4. CASE Unlock(Prod(q)) \/ Post(Prod(q))
          BY <2>1, <4>4 DEF Unlock, Post, Again, Drawing
        <4>5. CASE ProducerReturns(q)
          BY <4>5 DEF ProducerReturns, Drawing
        <4>6. QED
          BY <1>10, <2>3, <4>1, <4>2, <4>3, <4>4, <4>5 DEF Producer
      <3>3. CASE q = p
        BY <1>4, <1>8, <1>9, <3>1, <3>2, <3>3
      <3>4. CASE q # p
        BY <1>3, <1>4, <1>7, <2>1, <3>1, <3>2, <3>4
      <3>5. QED
        BY <3>3, <3>4
    <2>4. QED
      BY <2>2, <2>3
  <1>11. ASSUME NEW q \in Pairs, Consumer(q) PROVE item'[p] \in Items
    <2>1. Cons(q) \in Threads
      BY <1>1, Numbering
    <2>2. item' = item
      BY <1>11 DEF Consumer, Pin, SeeItem, Lock, ReadSlot, Release, Unlock, Post, ConsumerReturns
    <2>3. (\E from, to : Goto(Cons(q), from, to)) \/ pc' = pc
      BY <1>11 DEF Consumer, Pin, SeeItem, Lock, ReadSlot, Release, Unlock, Post, ConsumerReturns
    <2>4. QED
      BY <1>3, <1>4, <1>7, <2>1, <2>2, <2>3
  <1>12. QED
    BY <1>5, <1>6, <1>10, <1>11 DEF Next

(* What is in the slots is what was sent: the content of the invariant.    *)
LEMMA SlotsHoldQueue == IInv => QueueOK
  <1> SUFFICES ASSUME IInv, S.items, ~overtaken, NEW p \in Pairs
               PROVE  Queue(p) = [k \in 1 .. Inside(p) |-> sent[p][Len(received[p]) + k]]
    BY DEF QueueOK
  <1>1. /\ Len(sent[p]) \in Nat /\ Len(received[p]) \in Nat /\ Content(p)
    BY Known DEF PairOK
  <1>2. ASSUME NEW k \in 1 .. Inside(p)
        PROVE  B[p][(Len(received[p]) + k - 1) % Size] = sent[p][Len(received[p]) + k]
    <2> DEFINE m == Len(received[p]) + k
    <2>1. m \in Len(received[p]) + 1 .. Len(sent[p]) /\ Len(received[p]) + k - 1 = m - 1
      BY <1>1 DEF Inside
    <2>2. B[p][(m - 1) % Size] = sent[p][m]
      BY <1>1, <2>1 DEF Content
    <2>3. QED
      BY <2>1, <2>2
  <1>3. QED
    BY <1>2 DEF Queue

(* Publishing appends the producer's item to its queue.                    *)
LEMMA PublishPuts ==
  ASSUME IInv, Drawn, QueueOK, QueueOK', prog' = prog, S.items, ~overtaken, NEW p \in Pairs, Publish(p)
  PROVE  FifoStep(p)
  <1> DEFINE m == Len(sent[p])
             r == Len(received[p])
  <1>1. /\ sent' = [sent EXCEPT ![p] = Append(sent[p], item[p])] /\ received' = received
        /\ overtaken' = overtaken /\ pc[Prod(p)] = "publish"
    BY DEF Publish, Goto
  <1>2. /\ item[p] \in Items /\ sent \in [Pairs -> Seq(Values)] /\ sent[p] \in Seq(Values)
        /\ m \in Nat /\ r \in Nat /\ item[p] \in Values
    BY <1>1 DEF Drawn, IInv, TypesOK, DataTyped, Values
  <1>3. /\ Room(p) /\ Counted(p) /\ prog \in Programs /\ BUFF_MAX \in Nat /\ LINEAR \in Nat
        /\ Inside(p) = m - r
    BY Known DEF PairOK, Inside
  <1>4. /\ m - r \in Nat
        /\ S.kind = "ring" => m - r < BUFF_MAX - 1
        /\ S.kind # "ring" => m - r < LINEAR
    <2>1. CASE S.kind = "ring"
      BY <1>1, <1>2, <1>3, <2>1 DEF Room
    <2>2. CASE S.kind = "semaphores"
      <3>1. /\ full \in Nat /\ empty \in Nat
            /\ full = (m - r) - One(pc[Prod(p)] \in {"unlock", "post"})
                              - One(pc[Cons(p)] \in {"lock", "read", "release"})
            /\ empty = LINEAR - (m - r) - One(pc[Prod(p)] \in {"lock", "write", "publish"})
                                        - One(pc[Cons(p)] \in {"unlock", "post"})
        BY <1>3, <2>2 DEF Room
      <3>2. One(pc[Prod(p)] \in {"lock", "write", "publish"}) = 1
        BY <1>1 DEF One
      <3>3. \A b : One(b) \in {0, 1}
        BY DEF One
      <3>4. m - r \in Nat /\ m - r < LINEAR
        <4>1. PICK a, b, c \in {0, 1} :
                full = (m - r) - a - b /\ empty = LINEAR - (m - r) - 1 - c
          <5>1. PICK a, b, c :
                  /\ a = One(pc[Prod(p)] \in {"unlock", "post"})
                  /\ b = One(pc[Cons(p)] \in {"lock", "read", "release"})
                  /\ c = One(pc[Cons(p)] \in {"unlock", "post"})
            OBVIOUS
          <5>2. a \in {0, 1} /\ b \in {0, 1} /\ c \in {0, 1}
            BY <3>3, <5>1
          <5>3. full = (m - r) - a - b /\ empty = LINEAR - (m - r) - 1 - c
            BY <3>1, <3>2, <5>1
          <5>4. QED
            BY <5>2, <5>3
        <4>2. full \in Nat /\ empty \in Nat /\ m \in Int /\ r \in Int
          BY <1>2, <3>1
        <4> HIDE DEF m, r
        <4>3. QED
          BY <1>3, <4>1, <4>2
      <3>5. QED
        BY <2>2, <3>4
    <2>3. CASE S.kind = "mutex"
      BY <1>1, <1>2, <1>3, <2>3 DEF Room, Counted, Rounds
    <2>4. QED
      BY <1>3, <2>1, <2>2, <2>3, Scripts
  <1>5. /\ Len(sent'[p]) = m + 1 /\ sent'[p][m + 1] = item[p]
        /\ \A k \in 1 .. m : sent'[p][k] = sent[p][k]
    BY <1>1, <1>2
  <1>6. Queue(p) = [k \in 1 .. m - r |-> sent[p][r + k]]
    BY <1>3 DEF QueueOK
  <1>7. Queue(p)' = [k \in 1 .. (m + 1) - r |-> sent'[p][r + k]]
    <2>1. Pairs' = Pairs /\ S'.items /\ ~overtaken'
      BY <1>1, SameProgram
    <2>2. Queue(p)' = [k \in 1 .. Inside(p)' |-> sent'[p][Len(received'[p]) + k]]
      BY <2>1 DEF QueueOK
    <2>3. Inside(p)' = (m + 1) - r
      BY <1>1, <1>5 DEF Inside
    <2>4. QED
      BY <1>1, <2>2, <2>3
  <1> HIDE DEF m, r
  <1>8. \A k \in 1 .. m - r : sent[p][r + k] \in Values /\ sent'[p][r + k] = sent[p][r + k]
    <2> SUFFICES ASSUME NEW k \in 1 .. m - r PROVE sent[p][r + k] \in Values /\ sent'[p][r + k] = sent[p][r + k]
      OBVIOUS
    <2>1. r + k \in 1 .. m
      BY <1>2
    <2>2. QED
      BY <1>2, <1>5, <2>1 DEF m
  <1>9. Queue(p) \in Seq(Values) /\ Len(Queue(p)) = m - r
    BY <1>4, <1>6, <1>8
  <1>10. Queue(p)' = Append(Queue(p), item[p])
    <2>1. ASSUME NEW k \in 1 .. (m + 1) - r PROVE sent'[p][r + k] = Append(Queue(p), item[p])[k]
      <3>1. CASE k \in 1 .. m - r
        BY <1>2, <1>6, <1>8, <1>9, <3>1
      <3>2. CASE k \notin 1 .. m - r
        <4>1. k = (m - r) + 1 /\ r + k = m + 1
          BY <1>2, <1>4, <3>2
        <4>2. QED
          BY <1>2, <1>5, <1>9, <4>1
      <3>3. QED
        BY <3>1, <3>2
    <2>2. Append(Queue(p), item[p]) \in Seq(Values) /\ Len(Append(Queue(p), item[p])) = (m + 1) - r
      BY <1>2, <1>4, <1>9, SMTT(30)
    <2>3. Append(Queue(p), item[p]) = [k \in 1 .. (m + 1) - r |-> Append(Queue(p), item[p])[k]]
      BY <2>2
    <2>4. QED
      BY <1>7, <2>1, <2>3
  <1>11. received'[p] = received[p]
    BY <1>1
  <1>12. /\ S.kind = "ring" => Fifo(p, BUFF_MAX - 1)!Put(item[p])
         /\ S.kind # "ring" => Fifo(p, LINEAR)!Put(item[p])
    BY <1>4, <1>9, <1>10, <1>11 DEF Fifo!Put
  <1>13. QED
    BY <1>2, <1>12 DEF FifoStep, Fifo!Next

(* Releasing delivers the first item of the queue.                         *)
LEMMA ReleaseTakes ==
  ASSUME IInv, QueueOK, QueueOK', prog' = prog, S.items, ~overtaken, NEW p \in Pairs, Release(p)
  PROVE  FifoStep(p)
  <1> DEFINE m == Len(sent[p])
             r == Len(received[p])
  <1>1. /\ received' = [received EXCEPT ![p] = Append(received[p], w[p])] /\ sent' = sent
        /\ overtaken' = overtaken /\ pc[Cons(p)] = "release"
    BY DEF Release, Goto
  <1>2. /\ sent[p] \in Seq(Values) /\ received \in [Pairs -> Seq(Values)] /\ received[p] \in Seq(Values)
        /\ m \in Nat /\ r \in Nat /\ w[p] \in Values
    BY DEF IInv, TypesOK, DataTyped
  <1>3. Inside(p) = m - r /\ m - r > 0 /\ w[p] = sent[p][r + 1]
    BY <1>1, InRound, Known DEF PairOK, Content, Inside
  <1>4. received'[p] = Append(received[p], w[p]) /\ Len(received'[p]) = r + 1
    BY <1>1, <1>2
  <1>5. Queue(p) = [k \in 1 .. m - r |-> sent[p][r + k]]
    BY <1>3 DEF QueueOK
  <1>6. Queue(p)' = [k \in 1 .. m - (r + 1) |-> sent[p][(r + 1) + k]]
    <2>1. Pairs' = Pairs /\ S'.items /\ ~overtaken'
      BY <1>1, SameProgram
    <2>2. Queue(p)' = [k \in 1 .. Inside(p)' |-> sent'[p][Len(received'[p]) + k]]
      BY <2>1 DEF QueueOK
    <2>3. Inside(p)' = m - (r + 1)
      BY <1>1, <1>4 DEF Inside
    <2>4. QED
      BY <1>1, <1>4, <2>2, <2>3
  <1> HIDE DEF m, r
  <1>7. \A k \in 1 .. m - r : sent[p][r + k] \in Values
    <2> SUFFICES ASSUME NEW k \in 1 .. m - r PROVE sent[p][r + k] \in Values
      OBVIOUS
    <2>1. r + k \in 1 .. m
      BY <1>2
    <2>2. QED
      BY <1>2, <2>1 DEF m
  <1>8. Queue(p) \in Seq(Values) /\ Len(Queue(p)) = m - r
    BY <1>2, <1>3, <1>5, <1>7
  <1>9. Queue(p) # << >> /\ Head(Queue(p)) = w[p]
    BY <1>2, <1>3, <1>5, <1>8
  <1>10. Queue(p)' = Tail(Queue(p))
    <2>1. /\ Tail(Queue(p)) \in Seq(Values) /\ Len(Tail(Queue(p))) = (m - r) - 1
          /\ \A k \in 1 .. (m - r) - 1 : Tail(Queue(p))[k] = Queue(p)[k + 1]
      BY <1>8, <1>9, HeadTailProperties
    <2>2. (m - r) - 1 = m - (r + 1)
      BY <1>2
    <2>3. Tail(Queue(p)) = [k \in 1 .. m - (r + 1) |-> Tail(Queue(p))[k]]
      <3>1. PICK u : u = Tail(Queue(p))
        OBVIOUS
      <3>2. u \in Seq(Values)
        BY <2>1, <3>1
      <3> HIDE DEF m, r
      <3>3. u = [k \in 1 .. Len(u) |-> u[k]]
        BY <3>2
      <3>4. Len(u) = m - (r + 1)
        BY <2>1, <2>2, <3>1
      <3>5. QED
        BY <3>1, <3>3, <3>4
    <2>4. ASSUME NEW k \in 1 .. m - (r + 1) PROVE Tail(Queue(p))[k] = sent[p][(r + 1) + k]
      <3>1. k + 1 \in 1 .. m - r /\ r + (k + 1) = (r + 1) + k /\ k \in 1 .. (m - r) - 1
        BY <1>2
      <3>2. QED
        BY <1>5, <2>1, <3>1
    <2>5. QED
      BY <1>6, <2>3, <2>4
  <1>11. /\ Fifo(p, BUFF_MAX - 1)!Take /\ Fifo(p, LINEAR)!Take
    BY <1>4, <1>9, <1>10 DEF Fifo!Take
  <1>12. QED
    BY <1>11 DEF FifoStep, Fifo!Next

(* Every program that uses its buffers implements BoundedFifo with each of *)
(* them, whatever the other pairs do: a ring of BUFF_MAX slots with        *)
(* BUFF_MAX - 1 places, the arrays that are never wrapped with LINEAR; in  *)
(* ProducerConsumerNew.c as long as the consumer stays behind.             *)
THEOREM Refinement == Spec => PairsImplementFifo
  <1>1. Init => (S.items => \A p \in Pairs : Fifo(p, LINEAR)!Init)
    BY DEF Init, Fifo!Init, Queue, Inside
  <1>2. Init => Drawn
    <2> SUFFICES ASSUME Init PROVE Drawn
      OBVIOUS
    <2>1. prog \in Programs /\ \A t \in Threads : pc[t] = "unborn"
      BY DEF Init
    <2>2. QED
      BY <2>1, Numbering DEF Drawn
  <1>3. IInv /\ Drawn /\ QueueOK /\ QueueOK' /\ [Next]_vars =>
          [S.items /\ ~overtaken' => \A p \in Pairs : FifoStep(p)]_vars
    <2> SUFFICES ASSUME IInv, Drawn, QueueOK, QueueOK', [Next]_vars, S.items, ~overtaken',
                        NEW p \in Pairs
                 PROVE  FifoStep(p)
      OBVIOUS
    <2>1. prog' = prog /\ ~overtaken
      BY StepsOfRings
    <2>2. CASE Publish(p)
      BY <2>1, <2>2, PublishPuts
    <2>3. CASE Release(p)
      BY <2>1, <2>3, ReleaseTakes
    <2>4. CASE sent'[p] = sent[p] /\ received'[p] = received[p]
      <3>1. Queue(p) = [k \in 1 .. Inside(p) |-> sent[p][Len(received[p]) + k]]
        BY <2>1 DEF QueueOK
      <3>2. Queue(p)' = [k \in 1 .. Inside(p)' |-> sent'[p][Len(received'[p]) + k]]
        <4>1. Pairs' = Pairs /\ S'.items
          BY <2>1, SameProgram
        <4>2. QED
          BY <4>1 DEF QueueOK
      <3>3. Queue(p)' = Queue(p)
        BY <2>4, <3>1, <3>2 DEF Inside
      <3>4. QED
        BY <2>4, <3>3 DEF FifoStep, Fifo!vars
    <2>5. QED
      BY <2>2, <2>3, <2>4, StepsOfRings
  <1>4. Spec => []IInv
    BY PairsInvariance
  <1>5. IInv /\ Drawn /\ [Next]_vars => Drawn'
    BY DrawnStep
  <1>6. QED
    BY <1>1, <1>2, <1>3, <1>4, <1>5, SlotsHoldQueue, PTL DEF Spec, PairsImplementFifo
=============================================================================
