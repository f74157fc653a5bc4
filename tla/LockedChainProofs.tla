------------------------- MODULE LockedChainProofs -------------------------
(***************************************************************************)
(* Proofs about LockedChain, for every number of threads, cells, values    *)
(* and iterations: no value is lost on its way through the chain, and each *)
(* buffer implements BoundedFifo.                                          *)
(***************************************************************************)
EXTENDS LockedChain, SequenceTheorems, TLAPS

Values == Items \cup {Unwritten}
Points == {"unborn", "wait", "produce", "delete", "insert", "done"}

(* The types of the variables.                                             *)
TypesOK ==
  /\ front \in [Buffers -> Int] /\ rear \in [Buffers -> Int]
  /\ buffer \in [Buffers -> [Cells -> Values]]
  /\ inserted \in [Buffers -> Seq(Items)] /\ deleted \in [Buffers -> Seq(Items)]
  /\ pc \in [Threads -> Points] /\ val \in [Threads -> Values]

(* How many cells are occupied, and which is the k-th of them.             *)
Occ(f, r) == IF f = -1 /\ r = -1 THEN 0 ELSE IF r >= f THEN r - f + 1 ELSE r - f + 1 + MAX
At(f, k)  == IF f + k - 1 < MAX THEN f + k - 1 ELSE f + k - 1 - MAX

BothOrNone(f, r) == (f = -1 /\ r = -1) \/ (f \in Cells /\ r \in Cells)

(* A buffer's indices are both in the array or both -1, and what is        *)
(* between them are the values inserted and not deleted.                   *)
BufferOK(b) ==
  /\ BothOrNone(front[b], rear[b])
  /\ Contents(b) \in Seq(Items)
  /\ inserted[b] = deleted[b] \o Contents(b)

(* What the control points say: nothing is inserted before main starts the *)
(* threads, and in the single-threaded program by main alone.              *)
Control ==
  /\ created \in Nat
  /\ main = "create" => \A t \in Threads : pc[t] \in {"unborn", "wait"}
  /\ main = "loop" => prog = "circular"
  /\ \A t \in Threads : pc[t] = "insert" => val[t] \in Items
  /\ pc[0] # "delete" /\ \A t \in Threads \ {0} : pc[t] # "produce"

(* The value a thread holds is the last it deleted.                        *)
HandOver ==
  prog = "chain" => \A t \in Threads \ {0} :
    deleted[t-1] = IF pc[t] = "insert" THEN Append(inserted[t], val[t]) ELSE inserted[t]

(* The inductive invariant.                                                *)
IInv == TypesOK /\ Control /\ HandOver /\ \A b \in Buffers : BufferOK(b)

-----------------------------------------------------------------------------
(* Sequences and the places of a circular array. *)

(* The modulus by which Contents reads the array.                          *)
LEMMA CellValue ==
  ASSUME NEW f \in Cells, NEW k \in 1 .. MAX
  PROVE  (f + k - 1) % MAX = At(f, k) /\ At(f, k) \in Cells
  BY ChainAssumption DEF Cells, At

(* How full a buffer is.                                                   *)
LEMMA Sizes ==
  ASSUME NEW f, NEW r, BothOrNone(f, r)
  PROVE  /\ Occ(f, r) \in 0 .. MAX
         /\ Occ(f, r) = 0 <=> f = -1 /\ r = -1
         /\ Occ(f, r) = MAX <=> (r = MAX - 1 /\ f = 0) \/ r + 1 = f
  BY ChainAssumption DEF BothOrNone, Occ, Cells

(* A value goes to a free cell behind the last one.                        *)
LEMMA InsertPlaces ==
  ASSUME NEW f, NEW r, BothOrNone(f, r), ~(r = MAX - 1 /\ f = 0), r + 1 # f,
         NEW f2, f2 = IF f = -1 /\ r = -1 THEN 0 ELSE f,
         NEW r2, r2 = IF (f = -1 /\ r = -1) \/ r = MAX - 1 THEN 0 ELSE r + 1
  PROVE  /\ f2 \in Cells /\ r2 \in Cells
         /\ Occ(f2, r2) = Occ(f, r) + 1 /\ At(f2, Occ(f, r) + 1) = r2
         /\ \A k \in 1 .. Occ(f, r) : f2 = f /\ f \in Cells /\ At(f, k) # r2
  <1>1. CASE f = -1 /\ r = -1
    BY <1>1, ChainAssumption DEF Occ, At, Cells
  <1>2. CASE f \in Cells /\ r \in Cells
    <2>1. f2 = f /\ r2 \in Cells /\ Occ(f, r) \in Nat
      BY <1>2, ChainAssumption DEF Occ, Cells
    <2>2. Occ(f2, r2) = Occ(f, r) + 1
      BY <1>2, <2>1, ChainAssumption DEF Occ, Cells
    <2>3. At(f2, Occ(f, r) + 1) = r2
      BY <1>2, <2>1, ChainAssumption DEF Occ, At, Cells
    <2>4. \A k \in 1 .. Occ(f, r) : At(f, k) # r2
      BY <1>2, <2>1, ChainAssumption DEF Occ, At, Cells
    <2>5. QED
      BY <1>2, <2>1, <2>2, <2>3, <2>4
  <1>3. QED
    BY <1>1, <1>2 DEF BothOrNone

(* The first value is taken and the others keep their cells.               *)
LEMMA DeletePlaces ==
  ASSUME NEW f \in Cells, NEW r \in Cells,
         NEW f2, f2 = IF f = r THEN -1 ELSE IF f = MAX - 1 THEN 0 ELSE f + 1,
         NEW r2, r2 = IF f = r THEN -1 ELSE r
  PROVE  /\ BothOrNone(f2, r2) /\ Occ(f2, r2) = Occ(f, r) - 1 /\ Occ(f, r) \in 1 .. MAX
         /\ At(f, 1) = f
         /\ \A k \in 1 .. Occ(f, r) - 1 : f2 \in Cells /\ At(f2, k) = At(f, k + 1)
  BY ChainAssumption DEF BothOrNone, Occ, At, Cells

(* Appending to the second of two concatenated sequences.                  *)
LEMMA Appended ==
  ASSUME NEW S, NEW s \in Seq(S), NEW t \in Seq(S), NEW e \in S
  PROVE  Append(s \o t, e) = s \o Append(t, e)
  <1>1. <<e>> \in Seq(S) /\ s \o t \in Seq(S)
    BY ConcatProperties
  <1>2. Append(s \o t, e) = (s \o t) \o <<e>> /\ Append(t, e) = t \o <<e>>
    BY <1>1, AppendIsConcat
  <1>3. (s \o t) \o <<e>> = s \o (t \o <<e>>)
    BY <1>1, ConcatAssociative
  <1>4. QED
    BY <1>2, <1>3

(* Moving the head of the second sequence to the end of the first.         *)
LEMMA Moved ==
  ASSUME NEW S, NEW s \in Seq(S), NEW t \in Seq(S), t # << >>
  PROVE  s \o t = Append(s, Head(t)) \o Tail(t)
  <1>1. Head(t) \in S /\ Tail(t) \in Seq(S) /\ t = <<Head(t)>> \o Tail(t)
    BY HeadTailProperties, HeadTailAppend
  <1>2. Append(s, Head(t)) = s \o <<Head(t)>>
    BY <1>1, AppendIsConcat
  <1>3. <<Head(t)>> \in Seq(S)
    BY <1>1
  <1>4. QED
    BY <1>1, <1>2, <1>3, ConcatAssociative

(* What Occupancy, Empty, Full and Contents say of a buffer in order.      *)
LEMMA SizeOf ==
  ASSUME NEW b \in Buffers, BufferOK(b)
  PROVE  /\ Occupancy(b) = Occ(front[b], rear[b]) /\ Occupancy(b) \in 0 .. MAX
         /\ Len(Contents(b)) = Occupancy(b)
         /\ Empty(b) <=> Occupancy(b) = 0
         /\ Full(b) <=> Occupancy(b) = MAX
         /\ \A k \in 1 .. Occupancy(b) : /\ front[b] \in Cells
                                         /\ Contents(b)[k] = buffer[b][At(front[b], k)]
                                         /\ At(front[b], k) \in Cells
  <1>1. Occupancy(b) = Occ(front[b], rear[b]) /\ BothOrNone(front[b], rear[b])
    BY DEF BufferOK, Occupancy, Empty, Occ
  <1>2. /\ Occupancy(b) \in 0 .. MAX
        /\ Empty(b) <=> Occupancy(b) = 0
        /\ Full(b) <=> Occupancy(b) = MAX
    BY <1>1, Sizes DEF Empty, Full
  <1>3. /\ Len(Contents(b)) = Occupancy(b)
        /\ \A k \in 1 .. Occupancy(b) : Contents(b)[k] = buffer[b][(front[b] + k - 1) % MAX]
    BY <1>2 DEF Contents
  <1>4. ASSUME NEW k \in 1 .. Occupancy(b) PROVE k \in 1 .. MAX /\ front[b] \in Cells
    <2>1. Occupancy(b) # 0 /\ k \in 1 .. MAX
      BY <1>2, ChainAssumption
    <2>2. QED
      BY <2>1, <1>1, <1>2 DEF BothOrNone, Empty
  <1>5. QED
    BY <1>1, <1>2, <1>3, <1>4, CellValue

(* A buffer that is left alone is as good as before.                       *)
LEMMA SameBuffer ==
  ASSUME NEW b \in Buffers, BufferOK(b),
         front'[b] = front[b], rear'[b] = rear[b], buffer'[b] = buffer[b],
         inserted'[b] = inserted[b], deleted'[b] = deleted[b]
  PROVE  BufferOK(b)' /\ Contents(b)' = Contents(b)
  BY DEF BufferOK, Contents, Occupancy, Empty

-----------------------------------------------------------------------------
(* The two functions of the buffer. *)

(* insert_into_buffer appends the value to the buffer's queue, which is    *)
(* not full.                                                               *)
LEMMA InsertIsPut ==
  ASSUME TypesOK, NEW b \in Buffers, BufferOK(b), NEW x \in Items, InsertInto(b, x)
  PROVE  /\ Contents(b)' = Append(Contents(b), x)
         /\ Len(Contents(b)) < MAX
         /\ BufferOK(b)'
  <1> DEFINE f == front[b]
             n == Occupancy(b)
             r == rear'[b]
  <1>1. /\ front'[b] = (IF f = -1 /\ rear[b] = -1 THEN 0 ELSE f)
        /\ r = (IF (f = -1 /\ rear[b] = -1) \/ rear[b] = MAX - 1 THEN 0 ELSE rear[b] + 1)
        /\ buffer'[b] = [buffer[b] EXCEPT ![r] = x]
        /\ inserted'[b] = Append(inserted[b], x) /\ deleted'[b] = deleted[b]
    BY DEF TypesOK, InsertInto, RearAfterInsert, Empty
  <1>2. n \in 0 .. MAX - 1 /\ Len(Contents(b)) = n /\ n = Occ(f, rear[b])
    BY SizeOf, ChainAssumption DEF InsertInto
  <1>3. /\ r \in Cells /\ front'[b] \in Cells
        /\ Occ(front'[b], r) = n + 1 /\ At(front'[b], n + 1) = r
        /\ \A k \in 1 .. n : front'[b] = f /\ At(f, k) # r
    <2>1. BothOrNone(f, rear[b]) /\ ~(rear[b] = MAX - 1 /\ f = 0) /\ rear[b] + 1 # f
      BY DEF BufferOK, InsertInto, Full
    <2> HIDE DEF f, n, r
    <2>2. QED
      BY <1>1, <1>2, <2>1, InsertPlaces
  <1>4. Occupancy(b)' = n + 1
    BY <1>3 DEF Occupancy, Empty, Occ
  <1>5. \A k \in 1 .. n + 1 : (front'[b] + k - 1) % MAX = At(front'[b], k)
    <2>1. \A k \in 1 .. n + 1 : k \in 1 .. MAX
      BY <1>2, ChainAssumption
    <2>2. QED
      BY <1>3, <2>1, CellValue
  <1>6. Contents(b)' = [k \in 1 .. n + 1 |-> buffer'[b][(front'[b] + k - 1) % MAX]]
    BY <1>4 DEF Contents
  <1>7. buffer[b] \in [Cells -> Values]
    BY DEF TypesOK
  <1> HIDE DEF f, n, r
  <1>8. ASSUME NEW k \in 1 .. n + 1
        PROVE  Contents(b)'[k] = IF k = n + 1 THEN x ELSE Contents(b)[k]
    <2>1. CASE k = n + 1
      BY <2>1, <1>1, <1>3, <1>5, <1>6, <1>7
    <2>2. CASE k \in 1 .. n
      <3>1. Contents(b)[k] = buffer[b][At(f, k)] /\ At(f, k) \in Cells
        BY <2>2, SizeOf DEF f, n
      <3>2. buffer'[b][At(f, k)] = buffer[b][At(f, k)]
        BY <2>2, <3>1, <1>1, <1>3, <1>7
      <3>3. QED
        BY <2>2, <3>1, <3>2, <1>2, <1>3, <1>5, <1>6
    <2>3. QED
      BY <2>1, <2>2, <1>2
  <1>9. Contents(b) \in Seq(Items) /\ inserted[b] = deleted[b] \o Contents(b)
        /\ deleted[b] \in Seq(Items)
    BY DEF BufferOK, TypesOK
  <1>10. Contents(b)' \in Seq(Items) /\ Len(Contents(b)') = n + 1
    <2>1. \A k \in 1 .. n + 1 : Contents(b)'[k] \in Items
      <3>1. \A k \in 1 .. n : Contents(b)[k] \in Items
        BY <1>2, <1>9, ElementOfSeq
      <3>2. QED
        BY <3>1, <1>2, <1>8
    <2>2. Contents(b)' \in [1 .. n + 1 -> Items]
      BY <1>6, <2>1
    <2>3. QED
      BY <1>2, <2>2
  <1>11. Contents(b)' = Append(Contents(b), x)
    <2>1. /\ Append(Contents(b), x) \in Seq(Items) /\ Len(Append(Contents(b), x)) = n + 1
          /\ \A k \in 1 .. n + 1 : Append(Contents(b), x)[k] =
               IF k = n + 1 THEN x ELSE Contents(b)[k]
      BY <1>2, <1>9, AppendProperties
    <2>2. QED
      BY <2>1, <1>8, <1>10, SeqEqual
  <1>12. inserted'[b] = deleted'[b] \o Contents(b)'
    <2>1. Append(deleted[b] \o Contents(b), x) = deleted[b] \o Append(Contents(b), x)
      <3>1. \A s, t \in Seq(Items), e \in Items : Append(s \o t, e) = s \o Append(t, e)
        BY Appended, SMTT(30)
      <3>2. deleted[b] \in Seq(Items) /\ Contents(b) \in Seq(Items)
        BY <1>9
      <3>3. QED
        BY <3>1, <3>2
    <2>2. QED
      BY <1>1, <1>9, <1>11, <2>1
  <1>13. BothOrNone(front'[b], rear'[b])
    BY <1>3 DEF BothOrNone, r
  <1>14. QED
    BY <1>2, <1>10, <1>11, <1>12, <1>13, ChainAssumption DEF BufferOK

(* delete_from_buffer takes the head of the buffer's queue.                *)
LEMMA DeleteIsTake ==
  ASSUME TypesOK, NEW b \in Buffers, BufferOK(b), DeleteFrom(b)
  PROVE  /\ Contents(b) # << >> /\ Contents(b)' = Tail(Contents(b))
         /\ buffer[b][front[b]] = Head(Contents(b)) /\ buffer[b][front[b]] \in Items
         /\ BufferOK(b)'
  <1> DEFINE f == front[b]
             n == Occupancy(b)
  <1>1. /\ front'[b] = (IF f = rear[b] THEN -1 ELSE IF f = MAX - 1 THEN 0 ELSE f + 1)
        /\ rear'[b] = (IF f = rear[b] THEN -1 ELSE rear[b])
        /\ buffer'[b] = buffer[b] /\ inserted'[b] = inserted[b]
        /\ deleted'[b] = Append(deleted[b], buffer[b][f])
    BY DEF TypesOK, DeleteFrom, FrontAfterDelete
  <1>2. Len(Contents(b)) = n /\ f \in Cells /\ rear[b] \in Cells /\ n = Occ(f, rear[b])
    BY SizeOf DEF DeleteFrom, BufferOK, BothOrNone, Empty
  <1>3. /\ BothOrNone(front'[b], rear'[b]) /\ Occ(front'[b], rear'[b]) = n - 1
        /\ n \in 1 .. MAX /\ At(f, 1) = f
        /\ \A k \in 1 .. n - 1 : front'[b] \in Cells /\ At(front'[b], k) = At(f, k + 1)
    <2> HIDE DEF f, n
    <2>1. QED
      BY <1>1, <1>2, DeletePlaces
  <1>4. Occupancy(b)' = n - 1
    BY <1>3 DEF Occupancy, Empty, Occ
  <1>5. \A k \in 1 .. n - 1 : (front'[b] + k - 1) % MAX = At(f, k + 1)
    <2>1. \A k \in 1 .. n - 1 : k \in 1 .. MAX
      BY <1>3, ChainAssumption
    <2>2. QED
      BY <1>3, <2>1, CellValue
  <1>6. Contents(b)' = [k \in 1 .. n - 1 |-> buffer'[b][(front'[b] + k - 1) % MAX]]
    BY <1>4 DEF Contents
  <1>7. \A k \in 1 .. n : Contents(b)[k] = buffer[b][At(f, k)]
    BY SizeOf
  <1> HIDE DEF f, n
  <1>8. /\ Contents(b) \in Seq(Items) /\ inserted[b] = deleted[b] \o Contents(b)
        /\ deleted[b] \in Seq(Items) /\ Contents(b) # << >>
    BY <1>2, <1>3 DEF BufferOK, TypesOK
  <1>9. /\ Tail(Contents(b)) \in Seq(Items) /\ Len(Tail(Contents(b))) = n - 1
        /\ \A k \in 1 .. n - 1 : Tail(Contents(b))[k] = Contents(b)[k + 1]
    BY <1>2, <1>8, HeadTailProperties
  <1>10. Head(Contents(b)) = buffer[b][f] /\ Head(Contents(b)) \in Items
    <2>1. Head(Contents(b)) = Contents(b)[1] /\ 1 \in 1 .. n
      BY <1>2, <1>3, <1>8
    <2>2. QED
      BY <2>1, <1>3, <1>7, <1>8, HeadTailProperties
  <1>11. ASSUME NEW k \in 1 .. n - 1 PROVE Contents(b)'[k] = Tail(Contents(b))[k]
    <2>1. k + 1 \in 1 .. n
      BY <1>3
    <2>2. QED
      BY <2>1, <1>1, <1>6, <1>7, <1>5, <1>9
  <1>12. Contents(b)' \in Seq(Items) /\ Len(Contents(b)') = n - 1
    <2>1. \A k \in 1 .. n - 1 : Contents(b)'[k] \in Items
      BY <1>9, <1>11, ElementOfSeq
    <2>2. Contents(b)' \in [1 .. n - 1 -> Items]
      BY <1>6, <2>1
    <2>3. n - 1 \in Nat
      BY <1>3
    <2>4. QED
      BY <2>2, <2>3
  <1>13. Contents(b)' = Tail(Contents(b))
    BY <1>9, <1>11, <1>12, SeqEqual
  <1>14. inserted'[b] = deleted'[b] \o Contents(b)'
    <2>1. deleted[b] \o Contents(b)
            = Append(deleted[b], Head(Contents(b))) \o Tail(Contents(b))
      BY <1>8, Moved
    <2>2. QED
      BY <1>1, <1>8, <1>10, <1>13, <2>1
  <1>15. QED
    BY <1>3, <1>8, <1>10, <1>12, <1>13, <1>14 DEF BufferOK, f
(* The same for the variables of all buffers: those of another buffer than *)
(* b stay as they are.                                                     *)
LEMMA InsertStep ==
  ASSUME TypesOK, NEW b \in Buffers, NEW x \in Items, InsertInto(b, x)
  PROVE  /\ front' \in [Buffers -> Int] /\ rear' \in [Buffers -> Int]
         /\ buffer' \in [Buffers -> [Cells -> Values]]
         /\ inserted' \in [Buffers -> Seq(Items)] /\ deleted' = deleted
         /\ inserted'[b] = Append(inserted[b], x)
         /\ \A c \in Buffers \ {b} : /\ front'[c] = front[c] /\ rear'[c] = rear[c]
                                    /\ buffer'[c] = buffer[c] /\ inserted'[c] = inserted[c]
  <1> DEFINE r == RearAfterInsert(b)
  <1>1. r \in Int
    BY DEF RearAfterInsert, TypesOK
  <1>2. [buffer[b] EXCEPT ![r] = x] \in [Cells -> Values]
    BY DEF TypesOK, Values
  <1>3. Append(inserted[b], x) \in Seq(Items)
    BY DEF TypesOK
  <1>4. /\ front' = [front EXCEPT ![b] = IF Empty(b) THEN 0 ELSE front[b]]
        /\ rear' = [rear EXCEPT ![b] = r]
        /\ buffer' = [buffer EXCEPT ![b] = [buffer[b] EXCEPT ![r] = x]]
        /\ inserted' = [inserted EXCEPT ![b] = Append(inserted[b], x)]
        /\ deleted' = deleted
    BY DEF InsertInto
  <1> HIDE DEF r
  <1>5. QED
    BY <1>1, <1>2, <1>3, <1>4 DEF TypesOK

(* What a deletion does to its buffer, and that it leaves the others alone. *)
LEMMA DeleteStep ==
  ASSUME TypesOK, NEW b \in Buffers, DeleteFrom(b), buffer[b][front[b]] \in Items
  PROVE  /\ front' \in [Buffers -> Int] /\ rear' \in [Buffers -> Int]
         /\ deleted' \in [Buffers -> Seq(Items)]
         /\ UNCHANGED <<buffer, inserted>>
         /\ deleted'[b] = Append(deleted[b], buffer[b][front[b]])
         /\ \A c \in Buffers \ {b} : /\ front'[c] = front[c] /\ rear'[c] = rear[c]
                                    /\ deleted'[c] = deleted[c]
  <1> DEFINE x == buffer[b][front[b]]
             f == FrontAfterDelete(b)
  <1>1. f \in Int /\ (IF front[b] = rear[b] THEN -1 ELSE rear[b]) \in Int
    BY ChainAssumption DEF FrontAfterDelete, TypesOK
  <1>2. Append(deleted[b], x) \in Seq(Items)
    BY DEF TypesOK
  <1>3. /\ front' = [front EXCEPT ![b] = f]
        /\ rear' = [rear EXCEPT ![b] = IF front[b] = rear[b] THEN -1 ELSE rear[b]]
        /\ deleted' = [deleted EXCEPT ![b] = Append(deleted[b], x)]
        /\ UNCHANGED <<buffer, inserted>>
    BY DEF DeleteFrom
  <1> HIDE DEF x, f
  <1>4. QED
    BY <1>1, <1>2, <1>3 DEF TypesOK, x

-----------------------------------------------------------------------------
(* The steps of the programs. *)

(* Initially all buffers are empty and no thread was created.              *)
LEMMA InitIInv == Init => IInv
  <1> SUFFICES ASSUME Init PROVE IInv
    OBVIOUS
  <1> USE ChainAssumption DEF Init
  <1>1. TypesOK
    BY DEF TypesOK, Points, Values
  <1>2. Control
    BY DEF Control, Threads
  <1>3. HandOver
    BY DEF HandOver, Threads, Buffers
  <1>4. ASSUME NEW b \in Buffers PROVE BufferOK(b)
    <2>1. Contents(b) = << >> /\ BothOrNone(front[b], rear[b])
      BY DEF Contents, Occupancy, Empty, BothOrNone
    <2>2. << >> \o << >> = << >> /\ << >> \in Seq(Items)
      BY ConcatEmptySeq, EmptySeq
    <2>3. QED
      BY <2>1, <2>2 DEF BufferOK
  <1>5. QED
    BY <1>1, <1>2, <1>3, <1>4 DEF IInv

(* A step that calls neither function, after which the same threads hold   *)
(* the same values.                                                        *)
LEMMA QuietStep ==
  ASSUME IInv, UNCHANGED bufs, prog' = prog, Control',
         pc' \in [Threads -> Points], val' \in [Threads -> Values],
         \A t \in Threads \ {0} : val'[t] = val[t] /\ (pc'[t] = "insert" <=> pc[t] = "insert")
  PROVE  IInv'
  <1>1. UNCHANGED <<front, rear, buffer, inserted, deleted>>
    BY DEF bufs
  <1>2. TypesOK'
    BY <1>1 DEF IInv, TypesOK, Buffers, Cells, Values, Threads, Points
  <1>3. \A b \in Buffers : BufferOK(b)'
    BY <1>1, SameBuffer DEF IInv
  <1>4. HandOver'
    BY <1>1 DEF IInv, HandOver
  <1>5. QED
    BY <1>2, <1>3, <1>4 DEF IInv, Buffers

(* main creates and joins threads, or calls the functions itself.          *)
LEMMA MainStep == IInv /\ Main => IInv'
  <1> SUFFICES ASSUME IInv, Main PROVE IInv'
    OBVIOUS
  <1>1. CASE CreateThread
    <2> USE <1>1 DEF CreateThread
    <2>1. created \in Threads /\ main = "create"
      BY ChainAssumption DEF IInv, Control, Threads
    <2>2. UNCHANGED bufs /\ prog' = prog /\ val' = val
      OBVIOUS
    <2>3. /\ pc' \in [Threads -> Points]
          /\ \A t \in Threads : pc'[t] \in {"unborn", "wait"}
      BY <2>1 DEF IInv, TypesOK, Control, Points
    <2>4. Control'
      BY <2>1, <2>3, ChainAssumption DEF IInv, Control, Threads
    <2>5. \A t \in Threads : pc[t] # "insert" /\ pc'[t] # "insert"
      BY <2>1, <2>3 DEF IInv, Control
    <2>6. QED
      BY <2>2, <2>3, <2>4, <2>5, QuietStep DEF IInv, TypesOK
  <1>2. CASE Start \/ JoinAll \/ EndOfRounds
    <2> USE <1>2 DEF Start, JoinAll, EndOfRounds
    <2>1. UNCHANGED bufs /\ UNCHANGED <<prog, created, pc, val>>
      OBVIOUS
    <2>2. Control'
      BY <2>1 DEF IInv, Control
    <2>3. QED
      BY <2>1, <2>2, QuietStep DEF IInv, TypesOK
  <1>3. CASE Round
    <2> USE <1>3 DEF Round
    <2>1. 0 \in Buffers /\ prog = "circular" /\ UNCHANGED <<prog, main, pc, val>>
      BY ChainAssumption DEF IInv, Control, Buffers
    <2>2. Control' /\ HandOver'
      BY <2>1 DEF IInv, Control, HandOver
    <2>3. pc' \in [Threads -> Points] /\ val' \in [Threads -> Values]
      BY <2>1 DEF IInv, TypesOK
    <2>4. TypesOK /\ \A b \in Buffers : BufferOK(b)
      BY DEF IInv
    <2>5. CASE \E item \in Items : InsertInto(0, item)
      <3>1. PICK item \in Items : InsertInto(0, item)
        BY <2>5
      <3>2. TypesOK' /\ \A b \in Buffers \ {0} : BufferOK(b)'
        BY <2>1, <2>3, <2>4, <3>1, InsertStep, SameBuffer DEF TypesOK
      <3>3. BufferOK(0)'
        BY <2>1, <2>4, <3>1, InsertIsPut
      <3>4. QED
        BY <2>2, <3>2, <3>3 DEF IInv
    <2>6. CASE DeleteFrom(0)
      <3>1. BufferOK(0)' /\ buffer[0][front[0]] \in Items
        BY <2>1, <2>4, <2>6, DeleteIsTake
      <3>2. TypesOK' /\ \A b \in Buffers \ {0} : BufferOK(b)'
        BY <2>1, <2>3, <2>4, <2>6, <3>1, DeleteStep, SameBuffer DEF TypesOK
      <3>3. QED
        BY <2>2, <3>1, <3>2 DEF IInv
    <2>7. CASE UNCHANGED bufs
      BY <2>1, <2>2, <2>3, <2>7, QuietStep
    <2>8. QED
      BY <2>5, <2>6, <2>7
  <1>4. QED
    BY <1>1, <1>2, <1>3 DEF Main

(* A thread inserts the value it holds, or deletes one from the buffer     *)
(* before its own.                                                         *)
LEMMA ThreadStep == ASSUME IInv, NEW t \in Threads, ProducerConsumer(t) PROVE IInv'
  <1> USE DEF Goto
  <1>1. CASE SeeStart(t) \/ Produce(t) \/ Returns(t)
    <2> USE <1>1 DEF SeeStart, Produce, Returns
    <2>1. UNCHANGED bufs /\ UNCHANGED <<prog, main, created>>
      BY DEF locals
    <2>2. pc' \in [Threads -> Points] /\ val' \in [Threads -> Values]
      BY DEF IInv, TypesOK, Points, Values, First
    <2>3. Control'
      BY <2>1, ChainAssumption DEF IInv, TypesOK, Control, First, Threads
    <2>4. \A u \in Threads \ {0} : val'[u] = val[u] /\ (pc'[u] = "insert" <=> pc[u] = "insert")
      BY DEF IInv, TypesOK, Control, First, Threads
    <2>5. QED
      BY <2>1, <2>2, <2>3, <2>4, QuietStep
  <1>2. CASE Insert(t)
    <2> USE <1>2 DEF Insert
    <2>1. /\ UNCHANGED <<prog, main, created, val>> /\ t \in Buffers
          /\ pc[t] = "insert" /\ val[t] \in Items /\ InsertInto(t, val[t])
      BY DEF locals, IInv, Control, Threads, Buffers
    <2>2. /\ pc' \in [Threads -> Points]
          /\ \A u \in Threads : pc'[u] = IF u = t THEN First(t) ELSE pc[u]
      BY DEF IInv, TypesOK, Points, First
    <2>3. Control'
      BY <2>1, <2>2 DEF IInv, Control, First, Threads
    <2>4. TypesOK /\ \A b \in Buffers : BufferOK(b)
      BY DEF IInv
    <2>5. TypesOK' /\ \A b \in Buffers \ {t} : BufferOK(b)'
      BY <2>1, <2>2, <2>4, InsertStep, SameBuffer DEF TypesOK
    <2>6. BufferOK(t)'
      BY <2>1, <2>4, InsertIsPut
    <2>7. HandOver'
      <3>1. /\ deleted' = deleted /\ inserted'[t] = Append(inserted[t], val[t])
            /\ \A u \in Threads \ {t} : inserted'[u] = inserted[u]
        BY <2>1, <2>4, InsertStep DEF Threads, Buffers
      <3>2. QED
        BY <2>1, <2>2, <3>1 DEF IInv, HandOver, First
    <2>8. QED
      BY <2>3, <2>5, <2>6, <2>7 DEF IInv
  <1>3. CASE Delete(t)
    <2> USE <1>3 DEF Delete
    <2> DEFINE x == buffer[t-1][front[t-1]]
    <2>1. /\ UNCHANGED <<prog, main, created>> /\ t \in Threads \ {0} /\ t - 1 \in Buffers
          /\ pc[t] = "delete" /\ DeleteFrom(t - 1)
      <3>1. t # 0
        BY DEF IInv, Control
      <3>2. t - 1 \in Buffers
        BY <3>1, ChainAssumption DEF Threads, Buffers
      <3>3. QED
        BY <3>1, <3>2 DEF locals
    <2>2. TypesOK /\ \A b \in Buffers : BufferOK(b)
      BY DEF IInv
    <2>3. BufferOK(t - 1)' /\ x \in Items
      BY <2>1, <2>2, DeleteIsTake
    <2>4. /\ pc' \in [Threads -> Points] /\ val' \in [Threads -> Values]
          /\ \A u \in Threads : pc'[u] = IF u = t THEN "insert" ELSE pc[u]
          /\ \A u \in Threads : val'[u] = IF u = t THEN x ELSE val[u]
      BY <2>3 DEF IInv, TypesOK, Points, Values
    <2>5. Control'
      BY <2>1, <2>3, <2>4 DEF IInv, Control, Threads
    <2>6. TypesOK' /\ \A b \in Buffers \ {t - 1} : BufferOK(b)'
      BY <2>1, <2>2, <2>3, <2>4, DeleteStep, SameBuffer DEF TypesOK
    <2>7. HandOver'
      <3>1. /\ inserted' = inserted /\ deleted'[t-1] = Append(deleted[t-1], x)
            /\ \A b \in Buffers \ {t - 1} : deleted'[b] = deleted[b]
        BY <2>1, <2>2, <2>3, DeleteStep
      <3>2. ASSUME NEW u \in Threads \ {0}, u # t
            PROVE  u - 1 \in Buffers \ {t - 1}
        BY <3>2, <2>1, ChainAssumption DEF Threads, Buffers
      <3>3. QED
        BY <2>1, <2>4, <3>1, <3>2 DEF IInv, HandOver
    <2>8. QED
      BY <2>3, <2>5, <2>6, <2>7 DEF IInv
  <1>4. QED
    BY <1>1, <1>2, <1>3 DEF ProducerConsumer

(* IInv holds in every reachable state.                                    *)
THEOREM ChainInvariance == Spec => []IInv
  <1>1. IInv /\ [Next]_vars => IInv'
    <2> SUFFICES ASSUME IInv, [Next]_vars PROVE IInv'
      OBVIOUS
    <2>1. CASE UNCHANGED vars
      <3>1. UNCHANGED bufs /\ UNCHANGED <<prog, main, created, pc, val>>
        BY <2>1 DEF vars, locals
      <3>2. Control'
        BY <3>1 DEF IInv, Control
      <3>3. QED
        BY <3>1, <3>2, QuietStep DEF IInv, TypesOK
    <2>2. QED
      BY <2>1, MainStep, ThreadStep DEF Next
  <1>2. QED
    BY <1>1, InitIInv, PTL DEF Spec

(* Whatever the number of threads, cells and iterations: what a buffer     *)
(* holds was inserted and not deleted, and a value is in a buffer or in    *)
(* the hand of one thread, in order (insert_into_buffer,                   *)
(* delete_from_buffer and the loop of ProducerConsumer).                   *)
THEOREM NoValueLost == Spec => []NothingLost
  <1>1. IInv => NothingLost
    BY DEF IInv, NothingLost, HandOver, BufferOK
  <1>2. QED
    BY <1>1, ChainInvariance, PTL

-----------------------------------------------------------------------------
(* Refinement: every buffer implements BoundedFifo with capacity MAX. *)

(* Every buffer is initially the empty queue.                              *)
LEMMA InitFifo == ASSUME Init, NEW b \in Buffers PROVE Fifo(b)!Init
  BY DEF Init, Fifo!Init, Contents, Occupancy, Empty

(* Inserting is Put, deleting is Take, and neither touches another buffer. *)
LEMMA InsertRefines ==
  ASSUME IInv, NEW b \in Buffers, NEW x \in Items, InsertInto(b, x), NEW c \in Buffers
  PROVE  Fifo(c)!Next \/ UNCHANGED Fifo(c)!vars
  <1>1. TypesOK /\ BufferOK(b) /\ BufferOK(c)
    BY DEF IInv
  <1>2. CASE c = b
    <2>1. Contents(c)' = Append(Contents(c), x) /\ Len(Contents(c)) < MAX
      BY <1>1, <1>2, InsertIsPut
    <2>2. deleted'[c] = deleted[c]
      BY <1>1, InsertStep
    <2>3. Fifo(c)!Put(x)
      BY <2>1, <2>2 DEF Fifo!Put
    <2>4. QED
      BY <2>3 DEF Fifo!Next
  <1>3. CASE c # b
    <2>1. Contents(c)' = Contents(c) /\ deleted'[c] = deleted[c]
      BY <1>1, <1>3, InsertStep, SameBuffer
    <2>2. QED
      BY <2>1 DEF Fifo!vars
  <1>4. QED
    BY <1>2, <1>3

(* The same for deleting.                                                  *)
LEMMA DeleteRefines ==
  ASSUME IInv, NEW b \in Buffers, DeleteFrom(b), NEW c \in Buffers
  PROVE  Fifo(c)!Next \/ UNCHANGED Fifo(c)!vars
  <1>1. TypesOK /\ BufferOK(b) /\ BufferOK(c)
    BY DEF IInv
  <1>2. /\ Contents(b) # << >> /\ Contents(b)' = Tail(Contents(b))
        /\ buffer[b][front[b]] = Head(Contents(b)) /\ buffer[b][front[b]] \in Items
    BY <1>1, DeleteIsTake
  <1>3. CASE c = b
    <2>1. deleted'[b] = Append(deleted[b], Head(Contents(b)))
      BY <1>1, <1>2, DeleteStep
    <2>2. Fifo(c)!Take
      BY <1>2, <1>3, <2>1 DEF Fifo!Take
    <2>3. QED
      BY <2>2 DEF Fifo!Next
  <1>4. CASE c # b
    <2>1. Contents(c)' = Contents(c) /\ deleted'[c] = deleted[c]
      BY <1>1, <1>2, <1>4, DeleteStep, SameBuffer
    <2>2. QED
      BY <2>1 DEF Fifo!vars
  <1>5. QED
    BY <1>3, <1>4

(* Every step is a call of one function on one buffer, or calls none.      *)
LEMMA StepRefines ==
  ASSUME IInv, [Next]_vars, NEW c \in Buffers
  PROVE  Fifo(c)!Next \/ UNCHANGED Fifo(c)!vars
  <1>1. \/ UNCHANGED bufs
        \/ \E b \in Buffers, x \in Items : InsertInto(b, x)
        \/ \E b \in Buffers : DeleteFrom(b)
    <2>1. CASE UNCHANGED vars \/ CreateThread \/ Start \/ JoinAll \/ EndOfRounds
      BY <2>1 DEF vars, CreateThread, Start, JoinAll, EndOfRounds
    <2>2. CASE Round
      <3>1. 0 \in Buffers
        BY ChainAssumption DEF Buffers
      <3>2. QED
        BY <2>2, <3>1 DEF Round
    <2>3. ASSUME NEW t \in Threads, SeeStart(t) \/ Produce(t) \/ Returns(t) PROVE UNCHANGED bufs
      BY <2>3 DEF SeeStart, Produce, Returns
    <2>4. ASSUME NEW t \in Threads, Insert(t)
          PROVE  \E b \in Buffers, x \in Items : InsertInto(b, x)
      <3>1. t \in Buffers /\ val[t] \in Items /\ InsertInto(t, val[t])
        BY <2>4 DEF IInv, Control, Insert, Goto, Threads, Buffers
      <3>2. QED
        BY <3>1
    <2>5. ASSUME NEW t \in Threads, Delete(t) PROVE \E b \in Buffers : DeleteFrom(b)
      <3>1. t # 0 /\ DeleteFrom(t - 1)
        BY <2>5 DEF IInv, Control, Delete, Goto
      <3>2. t - 1 \in Buffers
        BY <3>1, ChainAssumption DEF Threads, Buffers
      <3>3. QED
        BY <3>1, <3>2
    <2>6. QED
      BY <2>1, <2>2, <2>3, <2>4, <2>5 DEF Next, Main, ProducerConsumer
  <1>2. CASE UNCHANGED bufs
    <2>1. BufferOK(c) /\ UNCHANGED <<front, rear, buffer, inserted, deleted>>
      BY <1>2 DEF IInv, bufs
    <2>2. Contents(c)' = Contents(c) /\ deleted'[c] = deleted[c]
      BY <2>1, SameBuffer
    <2>3. QED
      BY <2>2 DEF Fifo!vars
  <1>3. QED
    BY <1>1, <1>2, InsertRefines, DeleteRefines

(* Every buffer is a FIFO queue of capacity MAX, in the chain and in the   *)
(* single-threaded program: rear and front, the tests for full and empty   *)
(* and the wraps implement BoundedFifo.                                    *)
THEOREM Refinement == Spec => ImplementsFifo
  <1>1. Init => \A b \in Buffers : Fifo(b)!Init
    BY InitFifo
  <1>2. IInv /\ [Next]_vars => [\A b \in Buffers : Fifo(b)!Next \/ UNCHANGED Fifo(b)!vars]_bufs
    BY StepRefines
  <1>3. QED
    BY <1>1, <1>2, ChainInvariance, PTL DEF Spec, ImplementsFifo

=============================================================================
