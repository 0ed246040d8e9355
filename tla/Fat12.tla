------------------------------- MODULE Fat12 --------------------------------
(***************************************************************************)
(* The file allocation table of kernel/fs/hd.c: the buffer hd_fat_buffer   *)
(* byte by byte, with the 12-bit entries packed in it as the code packs    *)
(* and unpacks them, and the loops that follow, free and allocate chains   *)
(* of clusters.  A table here is a value; the copy in memory and the copy  *)
(* on the disk are variables of the modules that use this one.             *)
(*                                                                         *)
(* Only the first Entries entries are modelled.  The other ones of the     *)
(* FatSize entries the buffer holds are free, and stay so as long as       *)
(* apply_fat finds enough clusters among the first.                        *)
(***************************************************************************)
EXTENDS Integers, Sequences, FiniteSets

CONSTANT Entries

FatSize == 3072   \* 9 sectors of 512 bytes

ASSUME Fat12Assumption ==
    Entries \in Nat /\ Entries > 3 /\ Entries % 2 = 0 /\ Entries <= FatSize

EndMark == 4088   \* 0xff8: this value and the greater ones end a chain
EndOfChain == 4095   \* 0xfff, what apply_fat ends a chain with

Byte  == 0 .. 255
Table == [0 .. 3 * (Entries \div 2) - 1 -> Byte]

Offset(c) == c + c \div 2
Word(b, c) == b[Offset(c)] + 256 * b[Offset(c) + 1]

get_next_cluster(b, c) ==
    IF c >= Entries THEN 0
    ELSE IF c % 2 = 1 THEN Word(b, c) \div 16 ELSE Word(b, c) % 4096

PutWord(b, c, w) ==
    [b EXCEPT ![Offset(c)] = w % 256, ![Offset(c) + 1] = w \div 256]

(* x | y for a word x that is a multiple of 4 and a nibble y. *)
OrNibble(x, y) ==
    LET p == (x % 16) \div 4
        q == y \div 4
        both == IF q = 0 \/ p = q THEN p ELSE IF p = 0 THEN q ELSE 3
    IN  (x - (x % 16)) + 4 * both + (y % 4)

FaultyStore(b, c, data) ==  \* forgets to keep the nibble of the odd neighbour
    IF c >= Entries THEN b
    ELSE IF c % 2 = 1
    THEN PutWord(b, c, OrNibble(data * 4, Word(b, c) % 16))
    ELSE PutWord(b, c, data)

(* An odd entry gets data shifted by two bits; its lowest nibble is or-ed into
   the even entry before it. *)
set_fat(b, c, data) ==
    IF c >= Entries THEN b
    ELSE IF c % 2 = 1
    THEN PutWord(b, c, OrNibble(data * 4, Word(b, c) % 16))
    ELSE PutWord(b, c, (Word(b, c) - (Word(b, c) % 4096)) + data)

-----------------------------------------------------------------------------
(* Following a chain.  The loops go on until an end mark; a cluster number
   past the table makes them read what follows it in the heap.  A chain that
   ends does so within Steps: it comes to no entry twice, and from a cluster
   behind the first Entries ones only to entry 0. *)
Steps == Entries + 4
Stops(c) == c >= FatSize

(* The clusters read_hd_fat and write_hd_fat come to, and what stopped them. *)
Trail(b, c) ==
    LET trail[n \in 0 .. Steps] ==
          IF n = 0 THEN <<c>>
          ELSE LET t == trail[n - 1]
                   at == t[Len(t)]
               IN  IF Stops(at) THEN t ELSE Append(t, get_next_cluster(b, at))
    IN  trail[Steps]

Ends(b, c) == LET t == Trail(b, c) IN t[Len(t)] >= EndMark
Chain(b, c) == LET t == Trail(b, c) IN SubSeq(t, 1, Len(t) - 1)

(* The table after each round of release_fat, and the next cluster. *)
Released(b, c) ==
    LET round[n \in 0 .. Steps] ==
          IF n = 0 THEN [table |-> b, cluster |-> c]
          ELSE LET at == round[n - 1]
               IN  IF Stops(at.cluster) THEN at
                   ELSE [table   |-> set_fat(at.table, at.cluster, 0),
                         cluster |-> get_next_cluster(at.table, at.cluster)]
    IN  round[Steps]

release_fat(b, c) == Released(b, c).table
ReleaseEnds(b, c) == Released(b, c).cluster >= EndMark

-----------------------------------------------------------------------------
(* Allocation: the lowest free clusters from 3 on. *)
Free(b) == {c \in 3 .. Entries - 1 : get_next_cluster(b, c) = 0}

Chosen(b, k) ==
    CHOOSE c \in Free(b) : Cardinality({d \in Free(b) : d < c}) = k - 1

FaultyApply(b, count) ==  \* does not end the chain
    LET linked[k \in 1 .. count] ==
          IF k = 1 THEN b
          ELSE set_fat(linked[k - 1], Chosen(b, k - 1), Chosen(b, k))
    IN  linked[count]

(* Each cluster is linked to the next one as soon as that is found. *)
apply_fat(b, count) ==
    LET linked[k \in 1 .. count] ==
          IF k = 1 THEN b
          ELSE set_fat(linked[k - 1], Chosen(b, k - 1), Chosen(b, k))
    IN  set_fat(linked[count], Chosen(b, count), EndOfChain)
=============================================================================
