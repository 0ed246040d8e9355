---------------------------- MODULE Fat12Proofs -----------------------------
(***************************************************************************)
(* What the operations of Fat12 do to every table of bytes.                *)
(*                                                                         *)
(* Entries: even ones read back as written and odd ones lose two bits, and *)
(* no entry but a neighbour in the same three bytes is touched.            *)
(*                                                                         *)
(* Chains: following one that lies in a row comes to its clusters and      *)
(* ends, releasing it changes no other one, and allocating keeps every one *)
(* and gives the clusters it took, if they are even.  A loop of the model  *)
(* is a function defined by recursion over its rounds; Loop says that such *)
(* a function exists, and Rounds is the induction over the rounds.         *)
(***************************************************************************)
EXTENDS Fat12, TLAPS, FiniteSetTheorems, WellFoundedInduction

(* Numbers of 12 and 16 bits.  (Inequalities suit the provers better than long
   intervals.) *)
Is12Bit(w) == w \in Nat /\ w < 4096
Is16Bit(w) == w \in Nat /\ w < 65536

(* A 16-bit word is its low byte and its high byte. *)
LEMMA BytesOfWord ==
    ASSUME NEW w \in Nat, w < 65536
    PROVE  /\ w % 256 \in 0 .. 255 /\ w \div 256 \in 0 .. 255
           /\ (w % 256) + 256 * (w \div 256) = w
  <1>1. w % 256 \in 0 .. 255 /\ (w % 256) + 256 * (w \div 256) = w
    BY SMT
  <1>2. w \div 256 \in Int /\ w \div 256 >= 0
    BY SMT
  <1>3. w \div 256 <= 255
    BY SMT
  <1> QED BY <1>1, <1>2, <1>3, SMT

(* The high nibble of two bytes, and all of them but the low nibble. *)
LEMMA NibblesOfBytes ==
    ASSUME NEW x \in 0 .. 255, NEW y \in 0 .. 255
    PROVE  /\ (x + 256 * y) \div 4096 = y \div 16
           /\ (x + 256 * y) \div 16 = (x \div 16) + 16 * y
  BY SMT

(* Two bytes make a 16-bit word. *)
LEMMA WordOfBytes ==
    ASSUME NEW x \in 0 .. 255, NEW y \in 0 .. 255
    PROVE  Is16Bit(x + 256 * y)
  BY SMT DEF Is16Bit

(* Where the two bytes of an entry lie. *)
LEMMA OffsetRange ==
    ASSUME NEW c \in 0 .. Entries - 1
    PROVE  /\ Offset(c) \in 0 .. 3 * (Entries \div 2) - 2
           /\ c % 2 \in {0, 1}
           /\ c % 2 = 0 => Offset(c) = 3 * (c \div 2)
           /\ c % 2 = 1 => Offset(c) = 3 * (c \div 2) + 1
  <1>1. c + c \div 2 \in 0 .. 3 * (Entries \div 2) - 2
    BY Fat12Assumption, SMT
  <1>2. c % 2 \in {0, 1}
    BY Fat12Assumption, SMT
  <1>3. /\ c % 2 = 0 => c + c \div 2 = 3 * (c \div 2)
        /\ c % 2 = 1 => c + c \div 2 = 3 * (c \div 2) + 1
    BY Fat12Assumption, SMT
  <1> QED BY <1>1, <1>2, <1>3 DEF Offset

(* Both bytes of an entry are in the table. *)
LEMMA OffsetInTable ==
    ASSUME NEW b \in Table, NEW c \in 0 .. Entries - 1
    PROVE  /\ DOMAIN b = 0 .. 3 * (Entries \div 2) - 1
           /\ Offset(c) \in DOMAIN b /\ Offset(c) + 1 \in DOMAIN b
           /\ Offset(c) \in Int
           /\ b[Offset(c)] \in 0 .. 255 /\ b[Offset(c) + 1] \in 0 .. 255
  <1>1. DOMAIN b = 0 .. 3 * (Entries \div 2) - 1
    BY DEF Table
  <1>2. \A x \in 0 .. 3 * (Entries \div 2) - 2 : x \in Int /\
           {x, x + 1} \subseteq 0 .. 3 * (Entries \div 2) - 1
    BY Fat12Assumption, SMT
  <1> QED BY <1>1, <1>2, OffsetRange DEF Table, Byte

(* The sixteen bits read for an entry. *)
LEMMA WordRange ==
    ASSUME NEW b \in Table, NEW c \in 0 .. Entries - 1
    PROVE  Is16Bit(Word(b, c))
  BY OffsetInTable, WordOfBytes DEF Word

(* An even entry and the odd one behind it share the three bytes from o on. *)
LEMMA ThreeBytes ==
    ASSUME NEW b \in Table, NEW c \in 0 .. Entries - 1, c + 1 \in 0 .. Entries - 1,
           NEW o, o = Offset(c), Offset(c + 1) = o + 1
    PROVE  /\ o \in Int /\ (o + 1) + 1 = o + 2 /\ o # o + 1 /\ o # o + 2 /\ o + 1 # o + 2
           /\ o \in DOMAIN b /\ o + 1 \in DOMAIN b /\ o + 2 \in DOMAIN b
           /\ b[o] \in 0 .. 255 /\ b[o + 1] \in 0 .. 255 /\ b[o + 2] \in 0 .. 255
           /\ Word(b, c) = b[o] + 256 * b[o + 1]
           /\ Word(b, c + 1) = b[o + 1] + 256 * b[o + 2]
<1>1. PICK d : d = c + 1
  OBVIOUS
<1>4. /\ o \in DOMAIN b /\ o + 1 \in DOMAIN b /\ o \in Int
      /\ b[o] \in 0 .. 255 /\ b[o + 1] \in 0 .. 255
  BY OffsetInTable
<1>5. /\ Offset(d) + 1 \in DOMAIN b /\ b[Offset(d) + 1] \in 0 .. 255
  BY <1>1, OffsetInTable
<1>6. (o + 1) + 1 = o + 2 /\ o # o + 1 /\ o # o + 2 /\ o + 1 # o + 2
  BY <1>4, SMT
<1>7. /\ Word(b, c) = b[o] + 256 * b[o + 1]
      /\ Word(b, d) = b[o + 1] + 256 * b[o + 2]
  BY <1>1, <1>6 DEF Word
<1> QED
  BY <1>1, <1>4, <1>5, <1>6, <1>7

(* Storing sixteen bits gives a table in which they are read back. *)
LEMMA PutWordRead ==
    ASSUME NEW b \in Table, NEW c \in 0 .. Entries - 1, NEW w, Is16Bit(w)
    PROVE  /\ PutWord(b, c, w) \in Table
           /\ Word(PutWord(b, c, w), c) = w
           /\ \A at \in DOMAIN b : at \notin {Offset(c), Offset(c) + 1} =>
                  PutWord(b, c, w)[at] = b[at]
  <1> DEFINE o == Offset(c)
             lo == w % 256
             hi == w \div 256
             p == PutWord(b, c, w)
  <1>1. lo \in Byte /\ hi \in Byte /\ lo + 256 * hi = w
    BY BytesOfWord DEF Byte, Is16Bit
  <1>2. o \in DOMAIN b /\ o + 1 \in DOMAIN b /\ o \in Int
    BY OffsetInTable
  <1>3. p = [b EXCEPT ![o] = lo, ![o + 1] = hi]
    BY DEF PutWord
  <1>4. b \in [DOMAIN b -> Byte] /\ Table = [DOMAIN b -> Byte]
    BY DEF Table
  <1>5. Word(p, c) = p[o] + 256 * p[o + 1]
    BY DEF Word
  <1> HIDE DEF o, lo, hi, p
  <1>6. o # o + 1
    BY <1>2, SMT
  <1>7. p[o] = lo /\ p[o + 1] = hi
    BY <1>2, <1>3, <1>6
  <1>8. \A at \in DOMAIN b : at \notin {o, o + 1} => p[at] = b[at]
    BY <1>2, <1>3
  <1>9. p \in Table
    BY <1>1, <1>2, <1>3, <1>4
  <1> QED BY <1>1, <1>5, <1>7, <1>8, <1>9 DEF o, p

(* A number is its low nibble and the rest. *)
LEMMA Nibbles ==
    ASSUME NEW x \in Nat
    PROVE  x % 16 \in 0 .. 15 /\ x \div 16 \in Nat /\ x = 16 * (x \div 16) + (x % 16)
  <1>1. x % 16 \in 0 .. 15
    BY SMT
  <1>2. x \div 16 \in Int /\ x \div 16 >= 0
    BY SMT
  <1>3. x = 16 * (x \div 16) + (x % 16)
    BY SMT
  <1> QED BY <1>1, <1>2, <1>3, SMT

(* The word set_fat stores for an odd entry: data shifted by two bits, with the
   lower two bits of the old nibble. *)
LEMMA OrNibbleRange ==
    ASSUME NEW data, Is12Bit(data), NEW y \in 0 .. 15
    PROVE  /\ Is16Bit(OrNibble(data * 4, y))
           /\ OrNibble(data * 4, y) \div 16 = data \div 4
  <1> DEFINE x == data * 4
  <1>1. x \in Nat /\ x < 16384
    BY SMT DEF Is12Bit
  <1>2. x \div 16 = data \div 4
    BY SMT DEF Is12Bit
  <1>3. OrNibble(data * 4, y) = OrNibble(x, y)
    OBVIOUS
  <1> HIDE DEF x
  <1> DEFINE r == x % 16
             p == r \div 4
             q == y \div 4
             both == IF q = 0 \/ p = q THEN p ELSE IF p = 0 THEN q ELSE 3
  <1>4. r \in 0 .. 15 /\ x = 16 * (x \div 16) + r /\ x \div 16 \in Nat
    BY <1>1, Nibbles
  <1>5. p \in 0 .. 3 /\ q \in 0 .. 3 /\ y % 4 \in 0 .. 3
    BY <1>4, SMT
  <1>6. both \in 0 .. 3
    BY <1>5, SMT
  <1>7. OrNibble(data * 4, y) = (x - r) + 4 * both + (y % 4)
    BY <1>3 DEF OrNibble
  <1> DEFINE h == x \div 16
             n == y % 4
  <1>8. h \in Nat /\ h < 1024
    BY <1>1, <1>4, SMT
  <1> SUFFICES /\ Is16Bit((x - r) + 4 * both + n)
               /\ ((x - r) + 4 * both + n) \div 16 = h
    BY <1>2, <1>7
  <1>9. x - r = 16 * h
    BY <1>1, <1>4, SMT
  <1> HIDE DEF r, p, q, both, h, n
  <1>10. n \in 0 .. 3 /\ both \in 0 .. 3
    BY <1>5, <1>6 DEF n
  <1>11. /\ 16 * h + 4 * both + n \in Nat
         /\ 16 * h + 4 * both + n < 65536
         /\ (16 * h + 4 * both + n) \div 16 = h
    BY <1>8, <1>10, SMT
  <1> QED BY <1>9, <1>11 DEF Is16Bit

(* The word set_fat stores for an even entry: data below the old high nibble. *)
LEMMA EvenWordRange ==
    ASSUME NEW data, Is12Bit(data), NEW w, Is16Bit(w)
    PROVE  /\ Is16Bit((w - (w % 4096)) + data)
           /\ ((w - (w % 4096)) + data) % 4096 = data
           /\ ((w - (w % 4096)) + data) \div 4096 = w \div 4096
  <1> DEFINE h == w \div 4096
  <1>1. w - (w % 4096) = 4096 * h
    BY SMT DEF Is16Bit
  <1>2. h \in Int /\ h >= 0 /\ h <= 15
    BY SMT DEF Is16Bit
  <1> HIDE DEF h
  <1>3. /\ 4096 * h + data \in Int /\ 4096 * h + data >= 0 /\ 4096 * h + data < 65536
        /\ (4096 * h + data) % 4096 = data
        /\ (4096 * h + data) \div 4096 = h
    BY <1>2, SMT DEF Is12Bit
  <1>4. Is16Bit(4096 * h + data)
    BY <1>3, SMT DEF Is16Bit
  <1> QED BY <1>1, <1>3, <1>4 DEF h

(* The word set_fat stores, and that it stores nothing else. *)
LEMMA SetFatStores ==
    ASSUME NEW b \in Table, NEW c \in 0 .. Entries - 1, NEW data, Is12Bit(data)
    PROVE  \E w : /\ Is16Bit(w)
                  /\ set_fat(b, c, data) = PutWord(b, c, w)
                  /\ c % 2 = 0 => w % 4096 = data /\ w \div 4096 = Word(b, c) \div 4096
                  /\ c % 2 = 1 => w \div 16 = data \div 4
  <1>1. ~ (c >= Entries) /\ c % 2 \in {0, 1} /\ Is16Bit(Word(b, c))
    BY OffsetRange, WordRange, Fat12Assumption, SMT
  <1>2. CASE c % 2 = 0
    <2> WITNESS (Word(b, c) - (Word(b, c) % 4096)) + data
    <2> QED BY <1>1, <1>2, EvenWordRange DEF set_fat
  <1>3. CASE c % 2 = 1
    <2>1. Word(b, c) % 16 \in 0 .. 15
      BY <1>1, Nibbles DEF Is16Bit
    <2> WITNESS OrNibble(data * 4, Word(b, c) % 16)
    <2> QED BY <1>1, <1>3, <2>1, OrNibbleRange DEF set_fat
  <1> QED BY <1>1, <1>2, <1>3

(* set_fat keeps a table of bytes, for every cluster number. *)
THEOREM SetFatTable ==
    ASSUME NEW b \in Table, NEW c \in Nat, NEW data, Is12Bit(data)
    PROVE  set_fat(b, c, data) \in Table
  <1>1. CASE c >= Entries
    BY <1>1 DEF set_fat
  <1>2. CASE c \in 0 .. Entries - 1
    BY <1>2, SetFatStores, PutWordRead
  <1> QED BY <1>1, <1>2, Fat12Assumption, SMT

(* An even entry reads back as it was written (hd.c:34-35 against 91-92). *)
THEOREM EvenEntryReadsBack ==
    ASSUME NEW b \in Table, NEW c \in 0 .. Entries - 1, c % 2 = 0,
           NEW data, Is12Bit(data)
    PROVE  get_next_cluster(set_fat(b, c, data), c) = data
  <1>1. ~ (c >= Entries) /\ c % 2 # 1
    BY Fat12Assumption, SMT
  <1> QED BY <1>1, SetFatStores, PutWordRead DEF get_next_cluster

(* An odd entry reads back without its two low bits and two bits too low: it is
   stored times 4 and read divided by 16 (hd.c:32-33 against 89-90). *)
THEOREM OddEntryLosesBits ==
    ASSUME NEW b \in Table, NEW c \in 0 .. Entries - 1, c % 2 = 1,
           NEW data, Is12Bit(data)
    PROVE  get_next_cluster(set_fat(b, c, data), c) = data \div 4
  <1>1. ~ (c >= Entries)
    BY Fat12Assumption, SMT
  <1> QED BY <1>1, SetFatStores, PutWordRead DEF get_next_cluster

(* Writing an entry changes no entry outside its three bytes. *)
THEOREM OtherEntriesStay ==
    ASSUME NEW b \in Table, NEW c \in 0 .. Entries - 1, NEW d \in 0 .. Entries - 1,
           c \div 2 # d \div 2, NEW data, Is12Bit(data)
    PROVE  get_next_cluster(set_fat(b, c, data), d) = get_next_cluster(b, d)
  <1>1. PICK w : Is16Bit(w) /\ set_fat(b, c, data) = PutWord(b, c, w)
    BY SetFatStores
  <1>2. /\ Offset(d) \notin {Offset(c), Offset(c) + 1}
        /\ Offset(d) + 1 \notin {Offset(c), Offset(c) + 1}
    BY OffsetRange, Fat12Assumption, SMT
  <1>3. Offset(d) \in DOMAIN b /\ Offset(d) + 1 \in DOMAIN b
    BY OffsetInTable
  <1>4. Word(PutWord(b, c, w), d) = Word(b, d)
    BY <1>1, <1>2, <1>3, PutWordRead DEF Word
  <1> QED BY <1>1, <1>4 DEF get_next_cluster

(* Writing an even entry keeps the odd one that shares its middle byte. *)
THEOREM OddNeighbourStays ==
    ASSUME NEW b \in Table, NEW c \in 0 .. Entries - 2, c % 2 = 0,
           NEW data, Is12Bit(data)
    PROVE  get_next_cluster(set_fat(b, c, data), c + 1) = get_next_cluster(b, c + 1)
  <1>1. /\ c \in 0 .. Entries - 1 /\ c + 1 \in 0 .. Entries - 1
        /\ (c + 1) % 2 = 1 /\ ~ (c + 1 >= Entries) /\ Offset(c + 1) = Offset(c) + 1
    BY Fat12Assumption, SMT DEF Offset
  <1>2. PICK w : /\ Is16Bit(w) /\ set_fat(b, c, data) = PutWord(b, c, w)
                 /\ w \div 4096 = Word(b, c) \div 4096
    BY <1>1, SetFatStores
  <1> DEFINE p == PutWord(b, c, w)
             o == Offset(c)
  <1>3. p \in Table /\ Word(p, c) = w
    BY <1>1, <1>2, PutWordRead
  <1>4. /\ o \in Int /\ o + 2 \in DOMAIN b /\ o + 2 \notin {o, o + 1}
        /\ b[o] \in 0 .. 255 /\ b[o + 1] \in 0 .. 255 /\ b[o + 2] \in 0 .. 255
        /\ Word(b, c) = b[o] + 256 * b[o + 1] /\ Word(b, c + 1) = b[o + 1] + 256 * b[o + 2]
    <2>1. /\ o \in Int /\ o + 2 \in DOMAIN b
          /\ b[o] \in 0 .. 255 /\ b[o + 1] \in 0 .. 255 /\ b[o + 2] \in 0 .. 255
          /\ Word(b, c) = b[o] + 256 * b[o + 1] /\ Word(b, c + 1) = b[o + 1] + 256 * b[o + 2]
      BY <1>1, ThreeBytes
    <2> QED BY <2>1, SMT
  <1>10. p[o] \in 0 .. 255 /\ p[o + 1] \in 0 .. 255
         /\ Word(p, c) = p[o] + 256 * p[o + 1] /\ Word(p, c + 1) = p[o + 1] + 256 * p[o + 2]
    <2>1. p \in Table
      BY <1>3
    <2>2. /\ c \in 0 .. Entries - 1 /\ c + 1 \in 0 .. Entries - 1
          /\ Offset(c + 1) = o + 1 /\ o = Offset(c)
      BY <1>1
    <2> HIDE DEF p, o
    <2> QED BY <2>1, <2>2, ThreeBytes
  <1>5. p[o + 2] = b[o + 2]
    BY <1>1, <1>2, <1>4, PutWordRead
  <1>6. (p[o] + 256 * p[o + 1]) \div 4096 = (b[o] + 256 * b[o + 1]) \div 4096
    BY <1>2, <1>3, <1>4, <1>10
  <1>7. /\ Word(p, c + 1) = p[o + 1] + 256 * p[o + 2]
        /\ Word(b, c + 1) = b[o + 1] + 256 * b[o + 2]
    BY <1>4, <1>10
  <1> HIDE DEF p, o
  <1> DEFINE x == p[o]
             y == p[o + 1]
             u == b[o]
             v == b[o + 1]
             z == b[o + 2]
  <1>8. x \in 0 .. 255 /\ y \in 0 .. 255 /\ u \in 0 .. 255 /\ v \in 0 .. 255 /\ z \in 0 .. 255
    BY <1>4, <1>10
  <1>9. (x + 256 * y) \div 4096 = (u + 256 * v) \div 4096
    BY <1>6
  <1>12. Word(p, c + 1) = y + 256 * z /\ Word(b, c + 1) = v + 256 * z
    BY <1>5, <1>7
  <1> HIDE DEF x, y, u, v, z
  <1>11. y \div 16 = v \div 16
    <2>1. (x + 256 * y) \div 4096 = y \div 16
      BY <1>8, NibblesOfBytes
    <2>2. (u + 256 * v) \div 4096 = v \div 16
      BY <1>8, NibblesOfBytes
    <2> QED BY <1>9, <2>1, <2>2
  <1>13. (y + 256 * z) \div 16 = (v + 256 * z) \div 16
    BY <1>8, <1>11, NibblesOfBytes
  <1> QED BY <1>1, <1>2, <1>12, <1>13 DEF get_next_cluster, p

-----------------------------------------------------------------------------
(* Every entry is a number of 12 bits. *)
LEMMA NextRange ==
    ASSUME NEW b \in Table, NEW c \in Nat
    PROVE  Is12Bit(get_next_cluster(b, c))
<1>1. CASE c >= Entries
  BY <1>1 DEF get_next_cluster, Is12Bit
<1>2. CASE ~ (c >= Entries)
  <2>1. c \in 0 .. Entries - 1
    BY <1>2, Fat12Assumption
  <2>2. Word(b, c) \in Nat /\ Word(b, c) < 65536
    BY <2>1, WordRange DEF Is16Bit
  <2>3. ASSUME NEW w \in Nat, w < 65536, w = Word(b, c)
        PROVE  Is12Bit(get_next_cluster(b, c))
    <3>1. w % 4096 \in Nat /\ w % 4096 < 4096
      OBVIOUS
    <3>2. w \div 16 \in Nat /\ w \div 16 < 4096
      <4>1. w \div 16 \in Int /\ w \div 16 >= 0
        OBVIOUS
      <4>2. w \div 16 <= 4095
        BY <2>3
      <4> QED
        BY <4>1, <4>2
    <3> QED
      BY <1>2, <2>3, <3>1, <3>2 DEF get_next_cluster, Is12Bit
  <2> QED
    BY <2>2, <2>3
<1> QED
  BY <1>1, <1>2

(* The nibble an odd entry leaves its even neighbour: all ones stay all ones,
   and writing 0 changes nothing. *)
LEMMA OrNibbleLow ==
    ASSUME NEW data, Is12Bit(data), NEW y \in 0 .. 15
    PROVE  /\ y = 15 => OrNibble(data * 4, y) % 16 = 15
           /\ data = 0 => OrNibble(data * 4, y) % 16 = y
<1>1. PICK x : x = data * 4 /\ x \in Nat
  BY DEF Is12Bit
<1>2. PICK r, h : r = x % 16 /\ h = x \div 16
  OBVIOUS
<1>3. r \in 0 .. 15 /\ h \in Nat /\ x = 16 * h + r
  BY <1>1, <1>2, Nibbles
<1>4. PICK p, q, n : p = r \div 4 /\ q = y \div 4 /\ n = y % 4
  OBVIOUS
<1>5. p \in 0 .. 3 /\ q \in 0 .. 3 /\ n \in 0 .. 3 /\ y = 4 * q + n
  BY <1>3, <1>4
<1>6. PICK both : both = IF q = 0 \/ p = q THEN p ELSE IF p = 0 THEN q ELSE 3
  OBVIOUS
<1>7. OrNibble(x, y) = (x - r) + 4 * both + n
  BY <1>2, <1>4, <1>6 DEF OrNibble
<1>8. both \in 0 .. 3
  BY <1>5, <1>6
<1>9. OrNibble(x, y) = 16 * h + 4 * both + n
  BY <1>3, <1>7, <1>8, <1>5
<1>10. OrNibble(x, y) % 16 = 4 * both + n
  BY <1>3, <1>5, <1>8, <1>9
<1>11. ASSUME y = 15 PROVE OrNibble(x, y) % 16 = 15
  <2>1. q = 3 /\ n = 3
    BY <1>5, <1>11
  <2>2. both = 3
    BY <1>5, <1>6, <2>1
  <2> QED
    BY <1>10, <2>1, <2>2
<1>12. ASSUME data = 0 PROVE OrNibble(x, y) % 16 = y
  <2>1. r = 0
    BY <1>1, <1>3, <1>12
  <2>2. p = 0
    BY <1>4, <2>1
  <2>3. both = q
    BY <1>5, <1>6, <2>2
  <2> QED
    BY <1>5, <1>10, <2>3
<1> QED
  BY <1>1, <1>11, <1>12

(* An even entry is its low byte and the low nibble of the middle byte. *)
LEMMA EvenBytes ==
    ASSUME NEW x \in 0 .. 255, NEW y \in 0 .. 255
    PROVE  /\ y % 16 \in 0 .. 15
           /\ (x + 256 * y) % 4096 = x + 256 * (y % 16)
<1>1. PICK h, n : h = y \div 16 /\ n = y % 16
  OBVIOUS
<1>2. n \in 0 .. 15 /\ h \in Nat /\ y = 16 * h + n
  BY <1>1, Nibbles
<1>3. x + 256 * y = 4096 * h + (x + 256 * n) /\ x + 256 * n \in 0 .. 4095
  BY <1>2
<1>4. PICK k : k = x + 256 * n
  OBVIOUS
<1>5. (4096 * h + k) % 4096 = k
  BY <1>2, <1>3, <1>4
<1> QED
  BY <1>1, <1>2, <1>3, <1>4, <1>5

(* The even entry in front of an odd one that is written: an end of chain stays
   one, and writing 0 keeps it whatever it is.  (Else the lowest two bits of the
   odd entry are or-ed into its upper bits.) *)
THEOREM EvenNeighbourStays ==
    ASSUME NEW b \in Table, NEW c \in 0 .. Entries - 2, c % 2 = 0,
           NEW data, Is12Bit(data),
           data = 0 \/ get_next_cluster(b, c) = EndOfChain
    PROVE  get_next_cluster(set_fat(b, c + 1, data), c) = get_next_cluster(b, c)
<1>1. /\ c \in 0 .. Entries - 1 /\ c + 1 \in 0 .. Entries - 1
      /\ (c + 1) % 2 = 1 /\ ~ (c + 1 >= Entries) /\ ~ (c >= Entries) /\ c % 2 # 1
  BY Fat12Assumption, SMT
<1>0. PICK o : /\ o = Offset(c) /\ Offset(c + 1) = o + 1
               /\ c \in 0 .. Entries - 1 /\ c + 1 \in 0 .. Entries - 1
  <2>1. Offset(c + 1) = Offset(c) + 1
    BY <1>1, SMT DEF Offset
  <2> QED
    BY <1>1, <2>1
<1>2. PICK w, p : /\ w = OrNibble(data * 4, Word(b, c + 1) % 16)
                  /\ p = PutWord(b, c + 1, w)
  OBVIOUS
<1>3. set_fat(b, c + 1, data) = p
  BY <1>1, <1>2 DEF set_fat
<1>4. PICK x, y, z : x = b[o] /\ y = b[o + 1] /\ z = b[o + 2]
  OBVIOUS
<1>5. /\ o \in Int /\ Offset(c + 1) = o + 1 /\ o \in DOMAIN b /\ (o + 1) + 1 = o + 2
      /\ o # o + 1 /\ o # o + 2
      /\ x \in 0 .. 255 /\ y \in 0 .. 255 /\ z \in 0 .. 255
      /\ Word(b, c) = x + 256 * y /\ Word(b, c + 1) = y + 256 * z
  <2>1. /\ o \in Int /\ o \in DOMAIN b /\ (o + 1) + 1 = o + 2 /\ o # o + 1 /\ o # o + 2
        /\ b[o] \in 0 .. 255 /\ b[o + 1] \in 0 .. 255 /\ b[o + 2] \in 0 .. 255
        /\ Word(b, c) = b[o] + 256 * b[o + 1] /\ Word(b, c + 1) = b[o + 1] + 256 * b[o + 2]
    BY <1>0, ThreeBytes
  <2> QED
    BY <1>0, <1>4, <2>1
<1>6. Word(b, c + 1) % 16 = y % 16 /\ y % 16 \in 0 .. 15
  <2>1. y % 16 \in 0 .. 15 /\ (y + 256 * z) % 16 = y % 16
    BY <1>5
  <2> QED
    BY <1>5, <2>1
<1>7. Is16Bit(w)
  BY <1>2, <1>6, OrNibbleRange
<1>8. p \in Table /\ Word(p, c + 1) = w /\ p[o] = x
  <2>1. /\ p \in Table /\ Word(p, c + 1) = w
        /\ \A at \in DOMAIN b : at \notin {Offset(c + 1), Offset(c + 1) + 1} => p[at] = b[at]
    BY <1>0, <1>2, <1>7, PutWordRead
  <2>2. o \in DOMAIN b /\ o \notin {Offset(c + 1), Offset(c + 1) + 1}
    BY <1>5
  <2> QED
    BY <1>4, <2>1, <2>2, Zenon
<1>9. PICK u, v : u = p[o + 1] /\ v = p[o + 2]
  OBVIOUS
<1>10. /\ u \in 0 .. 255 /\ v \in 0 .. 255
       /\ Word(p, c) = x + 256 * u /\ w = u + 256 * v
  <2>0. ASSUME NEW t \in Table
        PROVE  /\ t[o] \in 0 .. 255 /\ t[o + 1] \in 0 .. 255 /\ t[o + 2] \in 0 .. 255
               /\ Word(t, c) = t[o] + 256 * t[o + 1]
               /\ Word(t, c + 1) = t[o + 1] + 256 * t[o + 2]
    BY <1>0, ThreeBytes, SMTT(30)
  <2>1. /\ p[o] \in 0 .. 255 /\ p[o + 1] \in 0 .. 255 /\ p[o + 2] \in 0 .. 255
        /\ Word(p, c) = p[o] + 256 * p[o + 1] /\ Word(p, c + 1) = p[o + 1] + 256 * p[o + 2]
    BY <1>8, <2>0
  <2> QED
    BY <1>8, <1>9, <2>1
<1>11. w % 16 = u % 16
  BY <1>10
<1>12. w % 16 = y % 16
  <2>1. CASE data = 0
    BY <1>2, <1>6, <2>1, OrNibbleLow
  <2>2. CASE get_next_cluster(b, c) = EndOfChain
    <3>1. x + 256 * (y % 16) = 4095
      <4>1. Word(b, c) % 4096 = 4095
        BY <1>1, <2>2 DEF get_next_cluster, EndOfChain
      <4>2. (x + 256 * y) % 4096 = x + 256 * (y % 16)
        BY <1>5, EvenBytes
      <4> QED
        BY <1>5, <4>1, <4>2
    <3>2. y % 16 = 15
      BY <1>5, <1>6, <3>1
    <3> QED
      BY <1>2, <1>6, <3>2, OrNibbleLow
  <2> QED
    BY <2>1, <2>2
<1>13. Word(p, c) % 4096 = Word(b, c) % 4096
  BY <1>5, <1>10, <1>11, <1>12, EvenBytes
<1> QED
  BY <1>1, <1>3, <1>13 DEF get_next_cluster

(* Writing an entry keeps every other one, except that an odd entry with
   something in it may garble the even one before it. *)
Even(c) == c % 2 = 0

LEMMA WriteKeeps ==
    ASSUME NEW b \in Table, NEW c \in 0 .. Entries - 1, NEW d \in 0 .. Entries - 1, d # c,
           NEW data, Is12Bit(data),
           Even(c) \/ c # d + 1 \/ data = 0 \/ get_next_cluster(b, d) = EndOfChain
    PROVE  get_next_cluster(set_fat(b, c, data), d) = get_next_cluster(b, d)
<1>1. CASE c \div 2 # d \div 2
  BY <1>1, OtherEntriesStay
<1>2. CASE c \div 2 = d \div 2
  <2>1. \/ d = c + 1 /\ c % 2 = 0
        \/ c = d + 1 /\ d % 2 = 0 /\ c % 2 # 0
    BY <1>2, Fat12Assumption
  <2>2. CASE d = c + 1 /\ c % 2 = 0
    <3>1. c \in 0 .. Entries - 2
      BY <2>2, Fat12Assumption
    <3> QED
      BY <2>2, <3>1, OddNeighbourStays
  <2>3. CASE c = d + 1 /\ d % 2 = 0 /\ c % 2 # 0
    <3>1. d \in 0 .. Entries - 2
      BY <2>3, Fat12Assumption
    <3> QED
      BY <2>3, <3>1, EvenNeighbourStays DEF Even
  <2> QED
    BY <2>1, <2>2, <2>3
<1> QED
  BY <1>1, <1>2

-----------------------------------------------------------------------------
(* Induction over the rounds of a loop, with sets for predicates. *)
LEMMA LeastNumber ==
    ASSUME NEW S \in SUBSET Nat, S # {}
    PROVE  \E m \in S : \A k \in S : m <= k
<1>1. PICK m \in S : \A k \in S : ~ (<<k, m>> \in OpToRel(<, Nat))
  BY NatLessThanWellFounded, WFMin, Zenon
<1>2. \A k \in S : ~ (k < m)
  BY <1>1 DEF OpToRel
<1> QED
  BY <1>2

LEMMA Rounds ==
    ASSUME NEW N \in Nat, NEW S, 0 \in S, \A n \in 0 .. N - 1 : n \in S => n + 1 \in S
    PROVE  \A n \in 0 .. N : n \in S
<1> DEFINE Out == {n \in 0 .. N : n \notin S}
<1>1. ASSUME Out # {} PROVE FALSE
  <2>1. PICK m \in Out : \A k \in Out : m <= k
    <3>1. Out \in SUBSET Nat
      OBVIOUS
    <3> QED
      BY <1>1, <3>1, LeastNumber
  <2>2. m \in 0 .. N /\ m # 0 /\ m \notin S
    OBVIOUS
  <2>3. m - 1 \in 0 .. N - 1 /\ m - 1 \notin Out /\ (m - 1) + 1 = m
    BY <2>1, <2>2
  <2> QED
    BY <2>2, <2>3
<1> QED
  BY <1>1

(* A loop of N rounds runs through some values: G[n] is what round n does. *)
LoopOf(N, D, x, G, f) ==
    /\ f \in [0 .. N -> D] /\ f[0] = x
    /\ \A n \in 1 .. N : f[n] = G[n][f[n - 1]]

LEMMA Loop ==
    ASSUME NEW N \in Nat, NEW D, NEW x \in D, NEW G \in [1 .. N -> [D -> D]]
    PROVE  \E f : LoopOf(N, D, x, G, f)
<1> DEFINE Run(m) == {f \in [0 .. m -> D] :
                        f[0] = x /\ \A n \in 1 .. m : f[n] = G[n][f[n - 1]]}
           S == {m \in 0 .. N : Run(m) # {}}
<1>1. 0 \in S
  <2>1. [n \in 0 .. 0 |-> x] \in Run(0)
    OBVIOUS
  <2> QED
    BY <2>1
<1>2. ASSUME NEW m \in 0 .. N - 1, m \in S PROVE m + 1 \in S
  <2>1. PICK f : f \in Run(m)
    BY <1>2
  <2>2. /\ f \in [0 .. m -> D] /\ f[0] = x /\ \A n \in 1 .. m : f[n] = G[n][f[n - 1]]
        /\ m \in Nat /\ m + 1 \in 1 .. N
    BY <2>1
  <2>3. PICK y : y = G[m + 1][f[m]] /\ y \in D
    BY <2>2
  <2>4. PICK g : g = [n \in 0 .. m + 1 |-> IF n = m + 1 THEN y ELSE f[n]]
    OBVIOUS
  <2>5. g \in [0 .. m + 1 -> D] /\ g[0] = x
    BY <2>2, <2>3, <2>4
  <2>6. ASSUME NEW n \in 1 .. m + 1 PROVE g[n] = G[n][g[n - 1]]
    <3>1. g[n - 1] = f[n - 1]
      BY <2>2, <2>4
    <3>2. CASE n = m + 1
      BY <2>2, <2>3, <2>4, <3>1, <3>2
    <3>3. CASE n # m + 1
      <4>1. n \in 1 .. m
        BY <2>2, <3>3
      <4> QED
        BY <2>2, <2>4, <3>1, <4>1
    <3> QED
      BY <3>2, <3>3
  <2>7. g \in Run(m + 1)
    BY <2>5, <2>6
  <2> QED
    BY <2>2, <2>7
<1>3. N \in S
  <2> HIDE DEF S
  <2>1. \A n \in 0 .. N : n \in S
    BY <1>1, <1>2, Rounds
  <2> QED
    BY <2>1
<1>4. PICK f : f \in Run(N)
  BY <1>3
<1>5. LoopOf(N, D, x, G, f)
  BY <1>4 DEF LoopOf
<1> QED
  BY <1>5

-----------------------------------------------------------------------------
(* Trails.  From one cluster to the next as the table says, at most as far as
   the model follows; and one that is complete. *)
Leads(b, c, t) ==
    /\ t \in Seq(Nat) /\ Len(t) \in 1 .. Steps + 1
    /\ t[1] = c
    /\ \A k \in 1 .. Len(t) - 1 : ~ Stops(t[k]) /\ t[k + 1] = get_next_cluster(b, t[k])

Complete(b, c, t) == Leads(b, c, t) /\ (Stops(t[Len(t)]) \/ Len(t) = Steps + 1)

(* The loop of Trail, and one round of it. *)
Further(b, t) ==
    IF Stops(t[Len(t)]) THEN t ELSE Append(t, get_next_cluster(b, t[Len(t)]))
TrailLoop(b, c, f) ==
    f = [n \in 0 .. Steps |-> IF n = 0 THEN <<c>> ELSE Further(b, f[n - 1])]

LEMMA StepsNat == Steps \in Nat /\ Entries \in Nat /\ Steps > Entries + 1
  BY Fat12Assumption DEF Steps

LEMMA NextNat ==
    ASSUME NEW b \in Table, NEW c \in Nat PROVE get_next_cluster(b, c) \in Nat
  BY NextRange DEF Is12Bit

LEMMA TrailIsLoop ==
    ASSUME NEW b \in Table, NEW c \in Nat
    PROVE  \E f : TrailLoop(b, c, f) /\ Trail(b, c) = f[Steps]
<1> DEFINE D == Seq(Nat) \ {<<>>}
           G == [n \in 1 .. Steps |-> [t \in D |-> Further(b, t)]]
<1>1. \A t \in D : Further(b, t) \in D
  <2>1. SUFFICES ASSUME NEW t \in Seq(Nat), t # <<>> PROVE Further(b, t) \in D
    OBVIOUS
  <2>2. Len(t) \in Nat /\ Len(t) # 0 /\ t[Len(t)] \in Nat
    BY <2>1
  <2>3. PICK y : y = get_next_cluster(b, t[Len(t)]) /\ y \in Nat
    <3>1. PICK at : at = t[Len(t)] /\ at \in Nat
      BY <2>2
    <3>2. get_next_cluster(b, at) \in Nat
      BY <3>1, NextNat, Zenon
    <3> QED
      BY <3>1, <3>2
  <2>4. Append(t, y) \in Seq(Nat) /\ Len(Append(t, y)) = Len(t) + 1
    BY <2>1, <2>3
  <2>5. Append(t, y) # <<>>
    BY <2>2, <2>4
  <2> QED
    BY <2>1, <2>3, <2>4, <2>5 DEF Further
<1>2. <<c>> \in D
  OBVIOUS
<1>3. G \in [1 .. Steps -> [D -> D]]
  BY <1>1
<1>4. PICK f : LoopOf(Steps, D, <<c>>, G, f)
  <2> HIDE DEF D, G
  <2> QED
    BY <1>2, <1>3, StepsNat, Loop
<1>5. TrailLoop(b, c, f)
  <2>1. /\ f \in [0 .. Steps -> D] /\ f[0] = <<c>>
        /\ \A n \in 1 .. Steps : f[n] = G[n][f[n - 1]]
    <3> HIDE DEF D, G
    <3> QED
      BY <1>4 DEF LoopOf
  <2>2. ASSUME NEW n \in 1 .. Steps PROVE f[n] = Further(b, f[n - 1])
    <3>1. PICK t : t = f[n - 1] /\ t \in D
      <4>1. n - 1 \in 0 .. Steps
        BY StepsNat
      <4> QED
        BY <2>1, <4>1, Zenon
    <3>2. G[n][t] = Further(b, t)
      BY <3>1, Zenon
    <3>3. f[n] = G[n][f[n - 1]]
      BY <2>1, Zenon
    <3> HIDE DEF D, G
    <3> QED
      BY <3>1, <3>2, <3>3
  <2>3. ASSUME NEW n \in 0 .. Steps
        PROVE  f[n] = IF n = 0 THEN <<c>> ELSE Further(b, f[n - 1])
    <3> HIDE DEF D, G
    <3>1. n = 0 \/ n \in 1 .. Steps
      BY StepsNat
    <3> QED
      BY <2>1, <2>2, <3>1, Zenon
  <2> HIDE DEF D, G
  <2> QED
    BY <2>1, <2>3 DEF TrailLoop
<1>6. PICK g : g = CHOOSE h : TrailLoop(b, c, h)
  OBVIOUS
<1>7. TrailLoop(b, c, g)
  BY <1>5, <1>6
<1>8. Trail(b, c) = g[Steps]
  BY <1>6 DEF Trail, TrailLoop, Further
<1> QED
  BY <1>7, <1>8

LEMMA TrailComplete ==
    ASSUME NEW b \in Table, NEW c \in Nat
    PROVE  Complete(b, c, Trail(b, c))
<1>1. PICK f : TrailLoop(b, c, f) /\ Trail(b, c) = f[Steps]
  BY TrailIsLoop
<1>2. /\ f[0] = <<c>>
      /\ \A n \in 0 .. Steps - 1 : f[n + 1] = Further(b, f[n])
  <2>1. \A n \in 0 .. Steps : f[n] = IF n = 0 THEN <<c>> ELSE Further(b, f[n - 1])
    BY <1>1 DEF TrailLoop
  <2>2. ASSUME NEW n \in 0 .. Steps - 1 PROVE f[n + 1] = Further(b, f[n])
    <3>1. n + 1 \in 0 .. Steps /\ n + 1 # 0 /\ (n + 1) - 1 = n
      BY StepsNat
    <3> QED
      BY <2>1, <3>1
  <2> QED
    BY <2>1, <2>2, StepsNat
<1> DEFINE S == {n \in 0 .. Steps :
                   Leads(b, c, f[n]) /\ (Stops(f[n][Len(f[n])]) \/ Len(f[n]) = n + 1)}
<1>3. 0 \in S
  <2>1. PICK t : t = f[0]
    OBVIOUS
  <2>2. t \in Seq(Nat) /\ Len(t) = 1 /\ t[1] = c
    BY <1>2, <2>1
  <2>3. Leads(b, c, t) /\ Len(t) = 0 + 1
    BY <2>2, StepsNat DEF Leads
  <2> QED
    BY <2>1, <2>3, StepsNat
<1>4. ASSUME NEW n \in 0 .. Steps - 1, n \in S PROVE n + 1 \in S
  <2>1. PICK t, l, at : t = f[n] /\ l = Len(t) /\ at = t[l]
    OBVIOUS
  <2>2. Leads(b, c, t) /\ (Stops(at) \/ l = n + 1)
    BY <1>4, <2>1
  <2>3. f[n + 1] = Further(b, t) /\ n + 1 \in 0 .. Steps
    BY <1>2, <2>1, StepsNat
  <2>4. CASE Stops(at)
    <3>1. f[n + 1] = t
      BY <2>1, <2>3, <2>4 DEF Further
    <3> QED
      BY <2>1, <2>2, <2>3, <2>4, <3>1
  <2>5. CASE ~ Stops(at)
    <3>1. /\ l = n + 1 /\ t \in Seq(Nat) /\ t[1] = c /\ at \in Nat /\ l \in 1 .. Steps
          /\ \A k \in 1 .. l - 1 : ~ Stops(t[k]) /\ t[k + 1] = get_next_cluster(b, t[k])
      <4>1. l = n + 1
        BY <2>2, <2>5
      <4>2. l \in 1 .. Steps
        BY <4>1, StepsNat
      <4>3. /\ t \in Seq(Nat) /\ t[1] = c
            /\ \A k \in 1 .. l - 1 : ~ Stops(t[k]) /\ t[k + 1] = get_next_cluster(b, t[k])
        BY <2>1, <2>2 DEF Leads
      <4>4. at \in Nat
        BY <2>1, <4>2, <4>3
      <4> QED
        BY <4>1, <4>2, <4>3, <4>4
    <3>2. PICK y : y = get_next_cluster(b, at) /\ y \in Nat
      <4>1. get_next_cluster(b, at) \in Nat
        BY <3>1, NextNat, Zenon
      <4> QED
        BY <4>1
    <3>3. PICK u : u = Append(t, y)
      OBVIOUS
    <3>4. f[n + 1] = u
      BY <2>1, <2>3, <2>5, <3>2, <3>3 DEF Further
    <3>5. /\ u \in Seq(Nat) /\ Len(u) = l + 1 /\ u[l + 1] = y
          /\ \A k \in 1 .. l : u[k] = t[k]
      <4>1. t \in Seq(Nat) /\ l = Len(t) /\ y \in Nat
        BY <2>1, <3>1, <3>2
      <4> QED
        BY <3>3, <4>1
    <3>6. Len(u) \in 1 .. Steps + 1 /\ u[1] = c
      BY <3>1, <3>5, StepsNat
    <3>7. ASSUME NEW k \in 1 .. Len(u) - 1
          PROVE  ~ Stops(u[k]) /\ u[k + 1] = get_next_cluster(b, u[k])
      <4>1. k \in 1 .. l /\ u[k] = t[k]
        BY <3>1, <3>5
      <4>2. CASE k = l
        BY <2>1, <2>5, <3>2, <3>5, <4>1, <4>2
      <4>3. CASE k # l
        <5>1. k \in 1 .. l - 1 /\ k + 1 \in 1 .. l
          BY <3>1, <4>1, <4>3
        <5> QED
          BY <3>1, <3>5, <4>1, <5>1
      <4> QED
        BY <4>2, <4>3
    <3>8. Leads(b, c, u) /\ Len(u) = (n + 1) + 1
      BY <3>1, <3>5, <3>6, <3>7 DEF Leads
    <3> QED
      BY <2>3, <3>4, <3>8
  <2> QED
    BY <2>4, <2>5
<1>5. Steps \in S
  <2> HIDE DEF S
  <2>1. \A n \in 0 .. Steps : n \in S
    BY <1>3, <1>4, StepsNat, Rounds
  <2> QED
    BY <2>1, StepsNat
<1> QED
  BY <1>1, <1>5 DEF Complete

(* There is one complete trail from a cluster. *)
LEMMA OneTrail ==
    ASSUME NEW b, NEW c, NEW s, NEW t, Complete(b, c, s), Complete(b, c, t), Len(s) <= Len(t)
    PROVE  s = t
<1>1. PICK m, n : m = Len(s) /\ n = Len(t)
  OBVIOUS
<1>2. /\ s \in Seq(Nat) /\ t \in Seq(Nat) /\ m \in 1 .. Steps + 1 /\ n \in 1 .. Steps + 1
      /\ m <= n /\ s[1] = c /\ t[1] = c
      /\ \A k \in 1 .. m - 1 : s[k + 1] = get_next_cluster(b, s[k])
      /\ \A k \in 1 .. n - 1 : ~ Stops(t[k]) /\ t[k + 1] = get_next_cluster(b, t[k])
      /\ Stops(s[m]) \/ m = Steps + 1
  BY <1>1 DEF Complete, Leads
<1>3. m \in Nat /\ n \in Nat /\ Steps \in Nat
  BY <1>2, StepsNat
<1>4. \A k \in 1 .. m : s[k] = t[k]
  <2> DEFINE S == {k \in 0 .. m - 1 : s[k + 1] = t[k + 1]}
  <2>1. 0 \in S
    BY <1>2, <1>3
  <2>2. ASSUME NEW k \in 0 .. (m - 1) - 1, k \in S PROVE k + 1 \in S
    <3>1. k + 1 \in 1 .. m - 1 /\ k + 1 \in 1 .. n - 1 /\ k + 1 \in 0 .. m - 1
      BY <1>2, <1>3
    <3>2. s[k + 1] = t[k + 1]
      BY <2>2
    <3>3. s[(k + 1) + 1] = t[(k + 1) + 1]
      BY <1>2, <3>1, <3>2
    <3> QED
      BY <3>1, <3>3
  <2>3. \A k \in 0 .. m - 1 : k \in S
    <3>1. m - 1 \in Nat
      BY <1>2
    <3> HIDE DEF S
    <3> QED
      BY <2>1, <2>2, <3>1, Rounds
  <2>4. SUFFICES ASSUME NEW k \in 1 .. m PROVE s[k] = t[k]
    OBVIOUS
  <2>5. k - 1 \in 0 .. m - 1 /\ (k - 1) + 1 = k
    BY <1>3
  <2>6. k - 1 \in S
    BY <2>3, <2>5
  <2> QED
    BY <2>5, <2>6
<1>5. m = n
  <2>1. CASE m = Steps + 1
    BY <1>2, <1>3, <2>1
  <2>2. CASE Stops(s[m])
    <3>1. Stops(t[m])
      BY <1>2, <1>4, <2>2
    <3>2. m \notin 1 .. n - 1
      BY <1>2, <3>1
    <3> QED
      BY <1>2, <1>3, <3>2
  <2> QED
    BY <1>2, <2>1, <2>2
<1>6. s = [k \in 1 .. m |-> s[k]] /\ t = [k \in 1 .. m |-> t[k]]
  <2>1. s \in Seq(Nat) /\ t \in Seq(Nat) /\ m = Len(s) /\ m = Len(t)
    BY <1>1, <1>2, <1>5
  <2>2. \A u \in Seq(Nat) : u = [k \in 1 .. Len(u) |-> u[k]]
    OBVIOUS
  <2> QED
    BY <2>1, <2>2, Zenon
<1> QED
  BY <1>4, <1>6

(* The trail of a cluster is the complete one. *)
LEMMA TrailIs ==
    ASSUME NEW b \in Table, NEW c \in Nat, NEW s, Complete(b, c, s)
    PROVE  Trail(b, c) = s
<1>1. Complete(b, c, Trail(b, c))
  BY TrailComplete
<1>2. Len(s) \in Nat /\ Len(Trail(b, c)) \in Nat
  BY <1>1 DEF Complete, Leads
<1>3. CASE Len(s) <= Len(Trail(b, c))
  BY <1>1, <1>3, OneTrail
<1>4. CASE Len(Trail(b, c)) <= Len(s)
  BY <1>1, <1>4, OneTrail
<1> QED
  BY <1>2, <1>3, <1>4

(* A chain as files have it on the image: len clusters in a row. *)
Fits(first, len) ==
    /\ first \in 2 .. Entries - 1 /\ len \in 1 .. Entries
    /\ first + len <= Entries
Whole(b, first, len) ==
    \A c \in first .. first + len - 1 :
        get_next_cluster(b, c) = IF c = first + len - 1 THEN EndOfChain ELSE c + 1
Row(first, len) ==
    [k \in 1 .. len + 1 |-> IF k <= len THEN first + k - 1 ELSE EndOfChain]

LEMMA RowFacts ==
    ASSUME NEW first, NEW len, Fits(first, len), NEW t, t = Row(first, len)
    PROVE  /\ t \in Seq(Nat) /\ Len(t) = len + 1
           /\ \A k \in 1 .. len : t[k] = first + k - 1
           /\ t[len + 1] = EndOfChain
<1>1. /\ first \in Nat /\ len \in Nat /\ first >= 2 /\ len >= 1 /\ first + len <= Entries
      /\ Entries \in Nat
  BY StepsNat DEF Fits
<1>2. t = [k \in 1 .. len + 1 |-> IF k <= len THEN first + k - 1 ELSE EndOfChain]
  BY DEF Row
<1>3. \A k \in 1 .. len + 1 : (IF k <= len THEN first + k - 1 ELSE EndOfChain) \in Nat
  BY <1>1 DEF EndOfChain
<1> QED
  BY <1>1, <1>2, <1>3

(* Following such a chain comes to its clusters and ends. *)
LEMMA WholeTrail ==
    ASSUME NEW b \in Table, NEW first, NEW len, Fits(first, len), Whole(b, first, len)
    PROVE  Trail(b, first) = Row(first, len)
<1>1. PICK t : t = Row(first, len)
  OBVIOUS
<1>2. /\ t \in Seq(Nat) /\ Len(t) = len + 1
      /\ \A k \in 1 .. len : t[k] = first + k - 1
      /\ t[len + 1] = EndOfChain
  BY <1>1, RowFacts
<1>3. /\ first \in Nat /\ len \in Nat /\ first >= 2 /\ len >= 1 /\ first + len <= Entries
      /\ Entries \in Nat /\ Entries <= FatSize /\ Steps \in Nat /\ Steps > Entries + 1
  BY Fat12Assumption, StepsNat DEF Fits
<1>4. ASSUME NEW k \in 1 .. len
      PROVE  ~ Stops(t[k]) /\ t[k + 1] = get_next_cluster(b, t[k])
  <2>1. PICK c : c = first + k - 1
    OBVIOUS
  <2>2. t[k] = c /\ c \in first .. first + len - 1 /\ c < Entries /\ c \in Nat
    BY <1>2, <1>3, <2>1
  <2>3. get_next_cluster(b, c) = IF c = first + len - 1 THEN EndOfChain ELSE c + 1
    BY <2>2 DEF Whole
  <2>4. ~ Stops(c)
    BY <1>3, <2>2 DEF Stops, FatSize
  <2>5. t[k + 1] = IF c = first + len - 1 THEN EndOfChain ELSE c + 1
    <3>1. CASE k = len
      BY <1>2, <1>3, <2>1, <3>1
    <3>2. CASE k # len
      <4>1. k + 1 \in 1 .. len /\ c # first + len - 1 /\ first + (k + 1) - 1 = c + 1
        BY <1>3, <2>1, <3>2
      <4> QED
        BY <1>2, <4>1
    <3> QED
      BY <3>1, <3>2
  <2> QED
    BY <2>2, <2>3, <2>4, <2>5
<1>5. Stops(t[Len(t)])
  BY <1>2 DEF Stops, FatSize, EndOfChain
<1>6. Len(t) \in 1 .. Steps + 1 /\ t[1] = first
  BY <1>2, <1>3
<1>7. Complete(b, first, t)
  BY <1>2, <1>3, <1>4, <1>5, <1>6 DEF Complete, Leads
<1> QED
  BY <1>1, <1>3, <1>7, TrailIs

(* What programs see of such a chain: it ends, and has the clusters in a row. *)
LEMMA WholeChain ==
    ASSUME NEW b \in Table, NEW first, NEW len, Fits(first, len), Whole(b, first, len)
    PROVE  /\ Ends(b, first)
           /\ Chain(b, first) = [k \in 1 .. len |-> first + k - 1]
<1>1. PICK t : t = Row(first, len)
  OBVIOUS
<1>2. /\ t \in Seq(Nat) /\ Len(t) = len + 1
      /\ \A k \in 1 .. len : t[k] = first + k - 1
      /\ t[len + 1] = EndOfChain
  BY <1>1, RowFacts
<1>3. Trail(b, first) = t
  BY <1>1, WholeTrail
<1>4. len \in Nat
  BY DEF Fits
<1>5. Ends(b, first)
  BY <1>2, <1>3 DEF Ends, EndMark, EndOfChain
<1>6. Chain(b, first) = SubSeq(t, 1, len)
  BY <1>2, <1>3, <1>4 DEF Chain
<1>7. SubSeq(t, 1, len) = [k \in 1 .. len |-> t[k]]
  BY <1>2, <1>4
<1> QED
  BY <1>2, <1>5, <1>6, <1>7

-----------------------------------------------------------------------------
(* Releasing a chain. *)
NextRound(at) ==
    IF Stops(at.cluster) THEN at
    ELSE [table   |-> set_fat(at.table, at.cluster, 0),
          cluster |-> get_next_cluster(at.table, at.cluster)]
ReleaseLoop(b, c, f) ==
    f = [n \in 0 .. Steps |-> IF n = 0 THEN [table |-> b, cluster |-> c]
                              ELSE NextRound(f[n - 1])]
AtRound == [table : Table, cluster : Nat]

LEMMA RoundType ==
    ASSUME NEW at \in AtRound PROVE NextRound(at) \in AtRound
<1>1. PICK b, c : b = at.table /\ c = at.cluster
  OBVIOUS
<1>2. b \in Table /\ c \in Nat
  BY <1>1 DEF AtRound
<1>3. Is12Bit(0)
  BY DEF Is12Bit
<1>4. set_fat(b, c, 0) \in Table
  BY <1>2, <1>3, SetFatTable
<1>5. get_next_cluster(b, c) \in Nat
  BY <1>2, NextNat
<1>6. [table |-> set_fat(b, c, 0), cluster |-> get_next_cluster(b, c)] \in AtRound
  BY <1>4, <1>5 DEF AtRound
<1> QED
  BY <1>1, <1>6 DEF NextRound

LEMMA ReleasedIsLoop ==
    ASSUME NEW b \in Table, NEW c \in Nat
    PROVE  \E f : /\ f[0] = [table |-> b, cluster |-> c]
                  /\ \A n \in 0 .. Steps : f[n] \in AtRound
                  /\ \A n \in 0 .. Steps - 1 : f[n + 1] = NextRound(f[n])
                  /\ Released(b, c) = f[Steps]
<1>1. PICK x, G : /\ x = [table |-> b, cluster |-> c]
                  /\ G = [n \in 1 .. Steps |-> [at \in AtRound |-> NextRound(at)]]
  OBVIOUS
<1>2. x \in AtRound /\ G \in [1 .. Steps -> [AtRound -> AtRound]]
  <2>1. x \in AtRound
    BY <1>1 DEF AtRound
  <2>2. [at \in AtRound |-> NextRound(at)] \in [AtRound -> AtRound]
    BY RoundType
  <2> QED
    BY <1>1, <2>1, <2>2
<1>3. PICK f : LoopOf(Steps, AtRound, x, G, f)
  BY <1>2, StepsNat, Loop
<1>4. /\ f \in [0 .. Steps -> AtRound] /\ f[0] = x
      /\ \A n \in 1 .. Steps : f[n] = G[n][f[n - 1]]
  BY <1>3 DEF LoopOf
<1>5. ASSUME NEW n \in 1 .. Steps PROVE f[n] = NextRound(f[n - 1])
  <2>1. n - 1 \in 0 .. Steps
    BY StepsNat
  <2>2. PICK at : at = f[n - 1] /\ at \in AtRound
    BY <1>4, <2>1, Zenon
  <2>3. G[n][at] = NextRound(at)
    BY <1>1, <2>2
  <2>4. f[n] = G[n][f[n - 1]]
    BY <1>4
  <2> QED
    BY <2>2, <2>3, <2>4
<1>6. ReleaseLoop(b, c, f)
  <2>1. ASSUME NEW n \in 0 .. Steps
        PROVE  f[n] = IF n = 0 THEN [table |-> b, cluster |-> c] ELSE NextRound(f[n - 1])
    <3>1. n = 0 \/ n \in 1 .. Steps
      BY StepsNat
    <3> QED
      BY <1>1, <1>4, <1>5, <3>1, Zenon
  <2> QED
    BY <1>4, <2>1 DEF ReleaseLoop
<1>7. PICK g : g = CHOOSE h : ReleaseLoop(b, c, h)
  OBVIOUS
<1>8. ReleaseLoop(b, c, g)
  BY <1>6, <1>7
<1>9. Released(b, c) = g[Steps]
  BY <1>7 DEF Released, ReleaseLoop, NextRound
<1>10. g[0] = x /\ \A n \in 0 .. Steps - 1 : g[n + 1] = NextRound(g[n])
  <2>1. \A n \in 0 .. Steps :
          g[n] = IF n = 0 THEN [table |-> b, cluster |-> c] ELSE NextRound(g[n - 1])
    BY <1>8 DEF ReleaseLoop
  <2>2. g[0] = x
    BY <1>1, <2>1, StepsNat
  <2>3. ASSUME NEW n \in 0 .. Steps - 1 PROVE g[n + 1] = NextRound(g[n])
    <3>1. n + 1 \in 0 .. Steps /\ n + 1 # 0 /\ (n + 1) - 1 = n
      BY StepsNat
    <3> QED
      BY <2>1, <3>1
  <2> QED
    BY <2>2, <2>3
<1> DEFINE S == {n \in 0 .. Steps : g[n] \in AtRound}
<1>11. \A n \in 0 .. Steps : n \in S
  <2>1. 0 \in S
    BY <1>2, <1>10, StepsNat
  <2>2. ASSUME NEW n \in 0 .. Steps - 1, n \in S PROVE n + 1 \in S
    <3>1. n + 1 \in 0 .. Steps
      BY StepsNat
    <3> QED
      BY <1>10, <2>2, <3>1, RoundType
  <2> HIDE DEF S
  <2> QED
    BY <2>1, <2>2, StepsNat, Rounds
<1> QED
  BY <1>1, <1>9, <1>10, <1>11

(* What is left after releasing any chain is a table. *)
LEMMA ReleaseTable ==
    ASSUME NEW b \in Table, NEW c \in Nat PROVE release_fat(b, c) \in Table
<1>1. Released(b, c) \in AtRound
  <2>1. PICK f : /\ f[0] = [table |-> b, cluster |-> c]
                 /\ \A n \in 0 .. Steps : f[n] \in AtRound
                 /\ \A n \in 0 .. Steps - 1 : f[n + 1] = NextRound(f[n])
                 /\ Released(b, c) = f[Steps]
    BY ReleasedIsLoop
  <2> QED
    BY <2>1, StepsNat
<1> QED
  BY <1>1 DEF release_fat, AtRound

(* Releasing a whole chain comes to its end and changes no entry outside it
   (hd.c:95-102). *)
THEOREM ReleaseWhole ==
    ASSUME NEW b \in Table, NEW first, NEW len, Fits(first, len), Whole(b, first, len)
    PROVE  /\ ReleaseEnds(b, first)
           /\ \A d \in 0 .. Entries - 1 : d \notin first .. first + len - 1 =>
                get_next_cluster(release_fat(b, first), d) = get_next_cluster(b, d)
<1>1. /\ first \in Nat /\ len \in Nat /\ first >= 2 /\ len >= 1 /\ first + len <= Entries
      /\ Entries \in Nat /\ Entries <= FatSize /\ Steps \in Nat /\ Steps > Entries + 1
  BY Fat12Assumption, StepsNat DEF Fits
<1>2. PICK f : /\ f[0] = [table |-> b, cluster |-> first]
               /\ \A n \in 0 .. Steps : f[n] \in AtRound
               /\ \A n \in 0 .. Steps - 1 : f[n + 1] = NextRound(f[n])
               /\ Released(b, first) = f[Steps]
  BY <1>1, ReleasedIsLoop
<1> DEFINE Kept(n, d) == d < first \/ d >= first + n \/ d >= first + len
           At(n) == /\ f[n].cluster = IF n < len THEN first + n ELSE EndOfChain
                    /\ \A d \in 0 .. Entries - 1 : Kept(n, d) =>
                         get_next_cluster(f[n].table, d) = get_next_cluster(b, d)
           S == {n \in 0 .. Steps : At(n)}
<1>3. 0 \in S
  BY <1>1, <1>2
<1>4. ASSUME NEW n \in 0 .. Steps - 1, n \in S PROVE n + 1 \in S
  <2>1. /\ At(n) /\ n \in Nat /\ n \in 0 .. Steps /\ n + 1 \in 0 .. Steps
    BY <1>1, <1>4
  <2>2. f[n + 1] = NextRound(f[n]) /\ f[n] \in AtRound
    BY <1>2, <2>1
  <2>3. PICK t, c : t = f[n].table /\ c = f[n].cluster /\ t \in Table /\ c \in Nat
    BY <2>2 DEF AtRound
  <2>4. /\ c = IF n < len THEN first + n ELSE EndOfChain
        /\ \A d \in 0 .. Entries - 1 : Kept(n, d) =>
             get_next_cluster(t, d) = get_next_cluster(b, d)
    BY <2>1, <2>3
  <2>5. CASE n < len
    <3>1. c = first + n /\ c \in first .. first + len - 1 /\ c \in 0 .. Entries - 1
      BY <1>1, <2>1, <2>4, <2>5
    <3>2. ~ Stops(c)
      BY <1>1, <3>1 DEF Stops, FatSize
    <3>3. get_next_cluster(t, c) = IF c = first + len - 1 THEN EndOfChain ELSE c + 1
      <4>1. Kept(n, c)
        BY <1>1, <3>1
      <4>2. get_next_cluster(t, c) = get_next_cluster(b, c)
        BY <2>4, <3>1, <4>1
      <4> QED
        BY <3>1, <4>2 DEF Whole
    <3>4. PICK u : u = set_fat(t, c, 0)
      OBVIOUS
    <3>5. f[n + 1].table = u /\ f[n + 1].cluster = get_next_cluster(t, c)
      BY <2>2, <2>3, <3>2, <3>4 DEF NextRound
    <3>6. f[n + 1].cluster = IF n + 1 < len THEN first + (n + 1) ELSE EndOfChain
      BY <1>1, <2>1, <2>5, <3>1, <3>3, <3>5
    <3>7. ASSUME NEW d \in 0 .. Entries - 1, Kept(n + 1, d)
          PROVE  get_next_cluster(u, d) = get_next_cluster(b, d)
      <4>1. d # c /\ Kept(n, d)
        BY <1>1, <2>1, <2>5, <3>1, <3>7
      <4>2. get_next_cluster(t, d) = get_next_cluster(b, d)
        BY <2>4, <4>1
      <4>3. Is12Bit(0)
        BY DEF Is12Bit
      <4>4. get_next_cluster(u, d) = get_next_cluster(t, d)
        BY <2>3, <3>1, <3>4, <4>1, <4>3, WriteKeeps
      <4> QED
        BY <4>2, <4>4
    <3>8. At(n + 1)
      BY <3>5, <3>6, <3>7
    <3> QED
      BY <2>1, <3>8
  <2>6. CASE ~ (n < len)
    <3>1. c = EndOfChain
      BY <2>4, <2>6
    <3>2. f[n + 1] = f[n]
      BY <2>2, <2>3, <3>1 DEF NextRound, Stops, FatSize, EndOfChain
    <3>3. ~ (n + 1 < len)
      BY <1>1, <2>1, <2>6
    <3>4. \A d \in 0 .. Entries - 1 : Kept(n + 1, d) => Kept(n, d)
      BY <1>1, <2>1, <2>6
    <3>5. At(n + 1)
      BY <2>1, <2>6, <3>2, <3>3, <3>4
    <3> QED
      BY <2>1, <3>5
  <2> QED
    BY <2>5, <2>6
<1>5. At(Steps)
  <2>1. \A n \in 0 .. Steps : n \in S
    <3> HIDE DEF S
    <3> QED
      BY <1>1, <1>3, <1>4, Rounds
  <2> QED
    BY <1>1, <2>1
<1>6. ~ (Steps < len)
  BY <1>1
<1>7. ReleaseEnds(b, first)
  BY <1>2, <1>5, <1>6 DEF ReleaseEnds, EndMark, EndOfChain
<1>8. ASSUME NEW d \in 0 .. Entries - 1, d \notin first .. first + len - 1
      PROVE  get_next_cluster(release_fat(b, first), d) = get_next_cluster(b, d)
  <2>1. Kept(Steps, d)
    BY <1>1, <1>8
  <2> QED
    BY <1>2, <1>5, <2>1 DEF release_fat
<1> QED
  BY <1>7, <1>8

-----------------------------------------------------------------------------
(* Choosing free clusters.  The elements of a set of numbers in order: there is
   one with as many smaller ones as is wanted. *)
Below(S, c) == {d \in S : d < c}

LEMMA NextInOrder ==
    ASSUME NEW S \in SUBSET Nat, IsFiniteSet(S), NEW c \in S,
           Cardinality(Below(S, c)) + 1 < Cardinality(S)
    PROVE  \E e \in S : Cardinality(Below(S, e)) = Cardinality(Below(S, c)) + 1
<1>1. PICK B : B = Below(S, c) \cup {c}
  OBVIOUS
<1>2. IsFiniteSet(Below(S, c)) /\ Cardinality(Below(S, c)) \in Nat
  BY FS_Subset, FS_CardinalityType DEF Below
<1>3. Cardinality(B) = Cardinality(Below(S, c)) + 1
  <2>1. c \notin Below(S, c)
    BY DEF Below
  <2> QED
    BY <1>1, <1>2, <2>1, FS_AddElement
<1>4. B \subseteq S
  BY <1>1 DEF Below
<1>5. PICK e : e \in S \ B /\ \A d \in S \ B : e <= d
  <2>1. S \ B # {}
    <3>1. B # S
      BY <1>2, <1>3
    <3> QED
      BY <1>4, <3>1
  <2>2. S \ B \in SUBSET Nat
    OBVIOUS
  <2> QED
    BY <2>1, <2>2, LeastNumber
<1>6. Below(S, e) = B
  <2>1. ASSUME NEW d \in S PROVE d < e <=> d \in B
    <3>1. e \in Nat /\ d \in Nat /\ c \in Nat /\ e # c /\ ~ (e < c)
      BY <1>1, <1>5 DEF Below
    <3>2. d \in B <=> d <= c
      BY <1>1, <3>1 DEF Below
    <3> QED
      BY <1>5, <3>1, <3>2
  <2> QED
    BY <1>4, <2>1 DEF Below
<1> QED
  BY <1>3, <1>5, <1>6

LEMMA InOrder ==
    ASSUME NEW S \in SUBSET Nat, IsFiniteSet(S), NEW k \in 1 .. Cardinality(S)
    PROVE  \E c \in S : Cardinality(Below(S, c)) = k - 1
<1>1. PICK n : n = Cardinality(S) /\ n \in Nat
  BY FS_CardinalityType
<1>2. n - 1 \in Nat /\ k - 1 \in 0 .. n - 1
  BY <1>1
<1> DEFINE T == {j \in 0 .. n - 1 : \E c \in S : Cardinality(Below(S, c)) = j}
<1>3. 0 \in T
  <2>1. S # {}
    <3>1. n # 0
      BY <1>2
    <3>2. S = {} => Cardinality(S) = 0
      BY FS_EmptySet
    <3> QED
      BY <1>1, <3>1, <3>2
  <2>2. PICK c \in S : \A d \in S : c <= d
    BY <2>1, LeastNumber
  <2>3. Below(S, c) = {}
    <3>1. ASSUME NEW d \in S PROVE ~ (d < c)
      <4>1. c \in Nat /\ d \in Nat /\ c <= d
        BY <2>2
      <4> QED
        BY <4>1
    <3> QED
      BY <3>1 DEF Below
  <2> QED
    BY <1>2, <2>3, FS_EmptySet
<1>4. ASSUME NEW j \in 0 .. (n - 1) - 1, j \in T PROVE j + 1 \in T
  <2>1. PICK c \in S : Cardinality(Below(S, c)) = j
    BY <1>4
  <2>2. j + 1 < n /\ j + 1 \in 0 .. n - 1
    BY <1>1
  <2>3. \E e \in S : Cardinality(Below(S, e)) = j + 1
    BY <1>1, <2>1, <2>2, NextInOrder
  <2> QED
    BY <2>2, <2>3
<1>5. \A j \in 0 .. n - 1 : j \in T
  <2> HIDE DEF T
  <2> QED
    BY <1>2, <1>3, <1>4, Rounds
<1> QED
  BY <1>2, <1>5

(* Chosen takes different free clusters, as long as there are enough. *)
LEMMA FreeFinite ==
    ASSUME NEW b
    PROVE  /\ Free(b) \in SUBSET Nat /\ Free(b) \in SUBSET (0 .. Entries - 1)
           /\ IsFiniteSet(Free(b)) /\ Cardinality(Free(b)) \in 0 .. Entries
<1>1. Free(b) \in SUBSET Nat /\ Free(b) \in SUBSET (0 .. Entries - 1)
  BY StepsNat DEF Free
<1>2. IsFiniteSet(0 .. Entries - 1) /\ Cardinality(0 .. Entries - 1) <= Entries
  <2>1. 0 \in Int /\ Entries - 1 \in Int /\ Entries \in Nat
    BY StepsNat
  <2>2. PICK n : n = Entries - 1 /\ n \in Int
    BY <2>1
  <2>3. IsFiniteSet(0 .. n) /\ Cardinality(0 .. n) = IF 0 > n THEN 0 ELSE n - 0 + 1
    BY <2>1, <2>2, FS_Interval
  <2> QED
    BY <2>1, <2>2, <2>3
<1>3. IsFiniteSet(Free(b)) /\ Cardinality(Free(b)) <= Cardinality(0 .. Entries - 1)
  BY <1>1, <1>2, FS_Subset
<1>4. Cardinality(Free(b)) \in Nat /\ Cardinality(0 .. Entries - 1) \in Nat
  BY <1>2, <1>3, FS_CardinalityType
<1> QED
  BY <1>1, <1>2, <1>3, <1>4, StepsNat

LEMMA ChosenFree ==
    ASSUME NEW b, NEW k \in 1 .. Cardinality(Free(b))
    PROVE  /\ Chosen(b, k) \in Free(b)
           /\ Cardinality(Below(Free(b), Chosen(b, k))) = k - 1
<1>1. \E c \in Free(b) : Cardinality(Below(Free(b), c)) = k - 1
  BY FreeFinite, InOrder
<1> QED
  BY <1>1 DEF Chosen, Below

LEMMA ChosenCluster ==
    ASSUME NEW b, NEW k \in 1 .. Cardinality(Free(b))
    PROVE  /\ Chosen(b, k) \in 0 .. Entries - 1 /\ Chosen(b, k) \in Nat
           /\ Is12Bit(Chosen(b, k)) /\ ~ Stops(Chosen(b, k))
<1>1. PICK c : c = Chosen(b, k)
  OBVIOUS
<1>2. c \in 0 .. Entries - 1
  <2>1. c \in Free(b)
    BY <1>1, ChosenFree
  <2>2. Free(b) \in SUBSET (0 .. Entries - 1)
    BY FreeFinite
  <2> QED
    BY <2>1, <2>2
<1>3. c \in Nat /\ c < FatSize
  BY <1>2, Fat12Assumption DEF FatSize
<1> QED
  BY <1>1, <1>2, <1>3 DEF Is12Bit, Stops, FatSize

LEMMA ChosenDiffer ==
    ASSUME NEW b, NEW k \in 1 .. Cardinality(Free(b)), NEW j \in 1 .. Cardinality(Free(b)),
           Chosen(b, k) = Chosen(b, j)
    PROVE  k = j
<1>1. PICK n : n = Cardinality(Free(b)) /\ n \in Nat
  BY FreeFinite
<1>2. k - 1 = j - 1
  BY ChosenFree
<1> QED
  BY <1>1, <1>2

-----------------------------------------------------------------------------
(* Allocating a chain: the tables as one cluster after the other is linked. *)
LinkLoop(b, count, f) ==
    f = [k \in 1 .. count |->
            IF k = 1 THEN b ELSE set_fat(f[k - 1], Chosen(b, k - 1), Chosen(b, k))]

Linking(b, count, f) ==
    /\ f[1] = b
    /\ \A k \in 1 .. count : f[k] \in Table
    /\ \A k \in 1 .. count - 1 : f[k + 1] = set_fat(f[k], Chosen(b, k), Chosen(b, k + 1))
    /\ apply_fat(b, count) = set_fat(f[count], Chosen(b, count), EndOfChain)

LEMMA LinkTable ==
    ASSUME NEW b, NEW count \in 1 .. Cardinality(Free(b)), NEW k \in 1 .. count - 1,
           NEW t \in Table
    PROVE  set_fat(t, Chosen(b, k), Chosen(b, k + 1)) \in Table
<1>1. PICK n : n = Cardinality(Free(b)) /\ n \in Nat
  BY FreeFinite
<1>2. k \in 1 .. Cardinality(Free(b)) /\ k + 1 \in 1 .. Cardinality(Free(b))
  BY <1>1
<1>3. Chosen(b, k) \in Nat /\ Is12Bit(Chosen(b, k + 1))
  BY <1>2, ChosenCluster
<1> QED
  BY <1>3, SetFatTable

LEMMA ApplyIsLoop ==
    ASSUME NEW b \in Table, NEW count \in 1 .. Cardinality(Free(b))
    PROVE  \E f : Linking(b, count, f)
<1>1. PICK m : m = count - 1 /\ m \in Nat /\ count = m + 1 /\ count \in Nat
  BY FreeFinite
<1>2. PICK G : G = [n \in 1 .. m |->
                      [t \in Table |-> set_fat(t, Chosen(b, n), Chosen(b, n + 1))]]
  OBVIOUS
<1>3. G \in [1 .. m -> [Table -> Table]]
  <2>1. ASSUME NEW n \in 1 .. m, NEW t \in Table
        PROVE  set_fat(t, Chosen(b, n), Chosen(b, n + 1)) \in Table
    BY <1>1, LinkTable
  <2> QED
    BY <1>2, <2>1
<1>4. PICK h : LoopOf(m, Table, b, G, h)
  BY <1>1, <1>3, Loop
<1>5. /\ h[0] = b
      /\ \A n \in 1 .. m : h[n] = set_fat(h[n - 1], Chosen(b, n), Chosen(b, n + 1))
  <2>1. h \in [0 .. m -> Table] /\ h[0] = b /\ \A n \in 1 .. m : h[n] = G[n][h[n - 1]]
    BY <1>4 DEF LoopOf
  <2>2. ASSUME NEW n \in 1 .. m
        PROVE  h[n] = set_fat(h[n - 1], Chosen(b, n), Chosen(b, n + 1))
    <3>1. n - 1 \in 0 .. m
      BY <1>1
    <3>2. PICK t : t = h[n - 1] /\ t \in Table
      BY <2>1, <3>1, Zenon
    <3>3. G[n][t] = set_fat(t, Chosen(b, n), Chosen(b, n + 1))
      BY <1>2, <3>2
    <3>4. h[n] = G[n][h[n - 1]]
      BY <2>1
    <3> QED
      BY <3>2, <3>3, <3>4
  <2> QED
    BY <2>1, <2>2
<1>6. PICK f : f = [k \in 1 .. count |-> h[k - 1]]
  OBVIOUS
<1>7. LinkLoop(b, count, f)
  <2>1. ASSUME NEW k \in 1 .. count
        PROVE  f[k] = IF k = 1 THEN b ELSE set_fat(f[k - 1], Chosen(b, k - 1), Chosen(b, k))
    <3>1. CASE k = 1
      BY <1>5, <1>6, <3>1
    <3>2. CASE k # 1
      <4>1. PICK n : n = k - 1 /\ n \in 1 .. m /\ k = n + 1 /\ n \in 1 .. count
        BY <1>1, <3>2
      <4>2. f[n] = h[n - 1] /\ f[k] = h[n]
        BY <1>6, <4>1
      <4>3. h[n] = set_fat(h[n - 1], Chosen(b, n), Chosen(b, n + 1))
        BY <1>5, <4>1
      <4> QED
        BY <3>2, <4>1, <4>2, <4>3
    <3> QED
      BY <3>1, <3>2
  <2> QED
    BY <1>6, <2>1 DEF LinkLoop
<1>8. PICK g : g = CHOOSE e : LinkLoop(b, count, e)
  OBVIOUS
<1>9. LinkLoop(b, count, g)
  BY <1>7, <1>8
<1>10. apply_fat(b, count) = set_fat(g[count], Chosen(b, count), EndOfChain)
  BY <1>8 DEF apply_fat, LinkLoop
<1>11. /\ g[1] = b
       /\ \A k \in 1 .. count - 1 : g[k + 1] = set_fat(g[k], Chosen(b, k), Chosen(b, k + 1))
  <2>1. \A k \in 1 .. count :
          g[k] = IF k = 1 THEN b ELSE set_fat(g[k - 1], Chosen(b, k - 1), Chosen(b, k))
    BY <1>9 DEF LinkLoop
  <2>2. g[1] = b
    BY <1>1, <2>1
  <2>3. ASSUME NEW k \in 1 .. count - 1
        PROVE  g[k + 1] = set_fat(g[k], Chosen(b, k), Chosen(b, k + 1))
    <3>1. PICK n : n = k + 1 /\ n \in 1 .. count /\ n # 1 /\ n - 1 = k
      BY <1>1
    <3>2. g[n] = set_fat(g[n - 1], Chosen(b, n - 1), Chosen(b, n))
      BY <2>1, <3>1
    <3> QED
      BY <3>1, <3>2
  <2> QED
    BY <2>2, <2>3
<1> DEFINE S == {n \in 0 .. m : g[n + 1] \in Table}
<1>12. \A n \in 0 .. m : n \in S
  <2>1. 0 \in S
    BY <1>1, <1>11
  <2>2. ASSUME NEW n \in 0 .. m - 1, n \in S PROVE n + 1 \in S
    <3>1. n + 1 \in 0 .. m /\ n + 1 \in 1 .. count - 1
      BY <1>1
    <3>2. g[n + 1] \in Table
      BY <2>2
    <3>3. g[(n + 1) + 1] \in Table
      BY <1>11, <3>1, <3>2, LinkTable
    <3> QED
      BY <3>1, <3>3
  <2> HIDE DEF S
  <2> QED
    BY <1>1, <2>1, <2>2, Rounds
<1>13. ASSUME NEW k \in 1 .. count PROVE g[k] \in Table
  <2>1. PICK n : n = k - 1 /\ n \in 0 .. m /\ n + 1 = k
    BY <1>1
  <2>2. g[n + 1] \in Table
    BY <1>12, <2>1
  <2> QED
    BY <2>1, <2>2
<1>14. Linking(b, count, g)
  BY <1>10, <1>11, <1>13 DEF Linking
<1> QED
  BY <1>14

LEMMA EndIs12Bit == Is12Bit(EndOfChain)
  BY DEF Is12Bit, EndOfChain

LEMMA ApplyTable ==
    ASSUME NEW b \in Table, NEW count \in 1 .. Cardinality(Free(b))
    PROVE  apply_fat(b, count) \in Table
<1>1. PICK f : Linking(b, count, f)
  BY ApplyIsLoop
<1>2. PICK n : n = Cardinality(Free(b)) /\ n \in Nat
  BY FreeFinite
<1>3. f[count] \in Table /\ count \in Nat
  BY <1>1, <1>2 DEF Linking
<1>4. Chosen(b, count) \in Nat
  BY ChosenCluster
<1>5. apply_fat(b, count) = set_fat(f[count], Chosen(b, count), EndOfChain)
  BY <1>1 DEF Linking
<1> QED
  BY <1>3, <1>4, <1>5, EndIs12Bit, SetFatTable

(* Allocating leaves a cluster in use as it is, if it ends its chain or if the
   one behind it is in use too (hd.c:104-116). *)
THEOREM ApplyKeeps ==
    ASSUME NEW b \in Table, NEW count \in 1 .. Cardinality(Free(b)),
           NEW d \in 0 .. Entries - 1, d \notin Free(b),
           get_next_cluster(b, d) = EndOfChain \/ d + 1 \notin Free(b)
    PROVE  get_next_cluster(apply_fat(b, count), d) = get_next_cluster(b, d)
<1>1. PICK f : Linking(b, count, f)
  BY ApplyIsLoop
<1>2. PICK m, n : /\ n = Cardinality(Free(b)) /\ n \in Nat
                  /\ m = count - 1 /\ m \in Nat /\ count = m + 1 /\ count \in Nat /\ count <= n
  BY FreeFinite
<1>3. /\ f[1] = b /\ \A k \in 1 .. count : f[k] \in Table
      /\ \A k \in 1 .. count - 1 : f[k + 1] = set_fat(f[k], Chosen(b, k), Chosen(b, k + 1))
      /\ apply_fat(b, count) = set_fat(f[count], Chosen(b, count), EndOfChain)
  BY <1>1 DEF Linking
<1>4. ASSUME NEW k \in 1 .. count, NEW t \in Table, NEW data, Is12Bit(data),
             get_next_cluster(t, d) = get_next_cluster(b, d)
      PROVE  get_next_cluster(set_fat(t, Chosen(b, k), data), d) = get_next_cluster(b, d)
  <2>1. k \in 1 .. Cardinality(Free(b))
    BY <1>2
  <2>2. PICK c : c = Chosen(b, k) /\ c \in 0 .. Entries - 1 /\ c \in Free(b)
    BY <2>1, ChosenFree, ChosenCluster
  <2>3. c # d /\ (c # d + 1 \/ get_next_cluster(t, d) = EndOfChain)
    BY <1>4, <2>2
  <2> QED
    BY <1>4, <2>2, <2>3, WriteKeeps
<1> DEFINE S == {j \in 0 .. m : get_next_cluster(f[j + 1], d) = get_next_cluster(b, d)}
<1>5. \A j \in 0 .. m : j \in S
  <2>1. 0 \in S
    BY <1>2, <1>3
  <2>2. ASSUME NEW j \in 0 .. m - 1, j \in S PROVE j + 1 \in S
    <3>1. PICK k : /\ k = j + 1 /\ k \in 1 .. count /\ k \in 1 .. count - 1 /\ k \in 0 .. m
                   /\ k + 1 \in 1 .. Cardinality(Free(b))
      BY <1>2
    <3>2. get_next_cluster(f[k], d) = get_next_cluster(b, d) /\ f[k] \in Table
      BY <1>3, <2>2, <3>1
    <3>3. Is12Bit(Chosen(b, k + 1))
      BY <3>1, ChosenCluster
    <3>4. f[k + 1] = set_fat(f[k], Chosen(b, k), Chosen(b, k + 1))
      BY <1>3, <3>1
    <3>5. get_next_cluster(f[k + 1], d) = get_next_cluster(b, d)
      BY <1>4, <3>1, <3>2, <3>3, <3>4
    <3> QED
      BY <3>1, <3>5
  <2> HIDE DEF S
  <2> QED
    BY <1>2, <2>1, <2>2, Rounds
<1>6. get_next_cluster(f[count], d) = get_next_cluster(b, d) /\ f[count] \in Table
      /\ count \in 1 .. count
  <2>1. m \in 0 .. m /\ m \in S /\ m + 1 = count /\ count \in 1 .. count
    BY <1>2, <1>5
  <2> QED
    BY <1>3, <2>1
<1> QED
  BY <1>3, <1>4, <1>6, EndIs12Bit

(* When all clusters are even, what set_fat stores is read back, and the chain
   consists of the clusters that were taken. *)
LEMMA EvenDiffer ==
    ASSUME NEW c \in Nat, NEW d \in Nat, Even(c), Even(d), c # d PROVE d # c + 1
  BY DEF Even

Taken(b, count) ==
    [k \in 1 .. count + 1 |-> IF k <= count THEN Chosen(b, k) ELSE EndOfChain]

LEMMA EvenWrite ==
    ASSUME NEW t \in Table, NEW c \in 0 .. Entries - 1, Even(c), NEW data, Is12Bit(data)
    PROVE  get_next_cluster(set_fat(t, c, data), c) = data
  BY EvenEntryReadsBack DEF Even

LEMMA ApplyLinks ==
    ASSUME NEW b \in Table, NEW count \in 1 .. Cardinality(Free(b)),
           \A k \in 1 .. count : Even(Chosen(b, k)), NEW k \in 1 .. count
    PROVE  get_next_cluster(apply_fat(b, count), Chosen(b, k)) =
             IF k < count THEN Chosen(b, k + 1) ELSE EndOfChain
<1>1. PICK f : Linking(b, count, f)
  BY ApplyIsLoop
<1>2. PICK m, n : /\ n = Cardinality(Free(b)) /\ n \in Nat
                  /\ m = count - 1 /\ m \in Nat /\ count = m + 1 /\ count \in Nat /\ count <= n
  BY FreeFinite
<1>3. /\ f[1] = b /\ \A j \in 1 .. count : f[j] \in Table
      /\ \A j \in 1 .. count - 1 : f[j + 1] = set_fat(f[j], Chosen(b, j), Chosen(b, j + 1))
      /\ apply_fat(b, count) = set_fat(f[count], Chosen(b, count), EndOfChain)
  BY <1>1 DEF Linking
<1>4. \A j \in 1 .. count : /\ j \in 1 .. Cardinality(Free(b)) /\ Even(Chosen(b, j))
                            /\ Chosen(b, j) \in 0 .. Entries - 1 /\ Is12Bit(Chosen(b, j))
  <2>1. \A j \in 1 .. count : j \in 1 .. Cardinality(Free(b))
    BY <1>2
  <2> QED
    BY <2>1, ChosenCluster
<1>5. ASSUME NEW j \in 1 .. count, NEW t \in Table, NEW data, Is12Bit(data), j # k
      PROVE  get_next_cluster(set_fat(t, Chosen(b, j), data), Chosen(b, k)) =
               get_next_cluster(t, Chosen(b, k))
  <2>1. PICK c, d : /\ c = Chosen(b, j) /\ d = Chosen(b, k)
                    /\ c \in 0 .. Entries - 1 /\ d \in 0 .. Entries - 1 /\ Even(c)
    BY <1>4
  <2>2. c # d
    BY <1>4, <1>5, <2>1, ChosenDiffer
  <2> QED
    BY <1>5, <2>1, <2>2, WriteKeeps
<1>6. CASE k = count
  <2>1. f[count] \in Table
    BY <1>2, <1>3
  <2> QED
    BY <1>3, <1>4, <1>6, <2>1, EndIs12Bit, EvenWrite
<1>7. CASE k # count
  <2>1. k \in 1 .. count - 1 /\ k < count /\ k \in Nat /\ k + 1 \in 1 .. count
    BY <1>2, <1>7
  <2> DEFINE S == {j \in 0 .. count - (k + 1) :
                     get_next_cluster(f[k + 1 + j], Chosen(b, k)) = Chosen(b, k + 1)}
  <2>2. 0 \in S
    <3>1. f[k + 1] = set_fat(f[k], Chosen(b, k), Chosen(b, k + 1)) /\ f[k] \in Table
      BY <1>3, <2>1
    <3>2. get_next_cluster(f[k + 1], Chosen(b, k)) = Chosen(b, k + 1)
      BY <1>4, <2>1, <3>1, EvenWrite
    <3>3. 0 \in 0 .. count - (k + 1) /\ k + 1 + 0 = k + 1
      BY <1>2, <2>1
    <3> QED
      BY <3>2, <3>3
  <2>3. ASSUME NEW j \in 0 .. (count - (k + 1)) - 1, j \in S PROVE j + 1 \in S
    <3>1. PICK i : /\ i = k + 1 + j /\ i \in 1 .. count /\ i \in 1 .. count - 1 /\ i # k
                   /\ i + 1 \in 1 .. count
                   /\ j + 1 \in 0 .. count - (k + 1) /\ k + 1 + (j + 1) = i + 1
      BY <1>2, <2>1
    <3>2. get_next_cluster(f[i], Chosen(b, k)) = Chosen(b, k + 1) /\ f[i] \in Table
      BY <1>3, <2>3, <3>1
    <3>3. f[i + 1] = set_fat(f[i], Chosen(b, i), Chosen(b, i + 1))
      BY <1>3, <3>1
    <3>4. get_next_cluster(f[i + 1], Chosen(b, k)) = Chosen(b, k + 1)
      BY <1>4, <1>5, <3>1, <3>2, <3>3
    <3> QED
      BY <3>1, <3>4
  <2>4. PICK l : l = count - (k + 1) /\ l \in Nat /\ k + 1 + l = count
    BY <1>2, <2>1
  <2>5. \A j \in 0 .. l : j \in S
    <3>1. \A j \in 0 .. l - 1 : j \in S => j + 1 \in S
      BY <2>3, <2>4
    <3> HIDE DEF S
    <3> QED
      BY <2>2, <2>4, <3>1, Rounds
  <2>6. get_next_cluster(f[count], Chosen(b, k)) = Chosen(b, k + 1)
    <3>1. l \in S
      BY <2>4, <2>5
    <3> QED
      BY <2>4, <3>1
  <2>7. count \in 1 .. count /\ f[count] \in Table
    BY <1>2, <1>3
  <2> QED
    BY <1>3, <1>5, <1>7, <2>1, <2>6, <2>7, EndIs12Bit
<1> QED
  BY <1>6, <1>7

LEMMA ApplyTrail ==
    ASSUME NEW b \in Table, NEW count \in 1 .. Cardinality(Free(b)),
           \A k \in 1 .. count : Even(Chosen(b, k))
    PROVE  Trail(apply_fat(b, count), Chosen(b, 1)) = Taken(b, count)
<1>1. PICK a, t : a = apply_fat(b, count) /\ t = Taken(b, count)
  OBVIOUS
<1>2. PICK n : n = Cardinality(Free(b)) /\ n \in Nat /\ n <= Entries
  BY FreeFinite
<1>3. count \in Nat /\ count >= 1 /\ count <= n /\ count <= Entries /\ 1 \in 1 .. count
  BY <1>2, StepsNat
<1>4. \A k \in 1 .. count : Chosen(b, k) \in Nat /\ ~ Stops(Chosen(b, k))
  <2>1. \A k \in 1 .. count : k \in 1 .. Cardinality(Free(b))
    BY <1>2, <1>3
  <2> QED
    BY <2>1, ChosenCluster
<1>5. /\ t \in Seq(Nat) /\ Len(t) = count + 1
      /\ \A k \in 1 .. count : t[k] = Chosen(b, k)
      /\ t[count + 1] = EndOfChain
  <2>1. t = [k \in 1 .. count + 1 |-> IF k <= count THEN Chosen(b, k) ELSE EndOfChain]
    BY <1>1 DEF Taken
  <2>2. ASSUME NEW k \in 1 .. count + 1
        PROVE  (IF k <= count THEN Chosen(b, k) ELSE EndOfChain) \in Nat
    BY <1>3, <1>4 DEF EndOfChain
  <2>3. t \in [1 .. count + 1 -> Nat]
    BY <2>1, <2>2
  <2>4. count + 1 \in Nat
    BY <1>3
  <2>5. t \in Seq(Nat) /\ Len(t) = count + 1
    BY <2>3, <2>4
  <2>6. ASSUME NEW k \in 1 .. count PROVE t[k] = Chosen(b, k)
    BY <1>3, <2>1
  <2>7. t[count + 1] = EndOfChain
    BY <1>3, <2>1
  <2> QED
    BY <2>5, <2>6, <2>7
<1>6. ASSUME NEW k \in 1 .. count
      PROVE  ~ Stops(t[k]) /\ t[k + 1] = get_next_cluster(a, t[k])
  <2>1. get_next_cluster(a, t[k]) = IF k < count THEN Chosen(b, k + 1) ELSE EndOfChain
    BY <1>1, <1>5, ApplyLinks
  <2>2. t[k + 1] = IF k < count THEN Chosen(b, k + 1) ELSE EndOfChain
    <3>1. CASE k < count
      <4>1. k + 1 \in 1 .. count
        BY <1>3, <3>1
      <4> QED
        BY <1>5, <3>1, <4>1
    <3>2. CASE ~ (k < count)
      <4>1. k = count
        BY <1>3, <3>2
      <4> QED
        BY <1>5, <3>2, <4>1
    <3> QED
      BY <3>1, <3>2
  <2> QED
    BY <1>4, <1>5, <2>1, <2>2
<1>7. Stops(t[Len(t)])
  BY <1>5 DEF Stops, FatSize, EndOfChain
<1>8. Len(t) \in 1 .. Steps + 1 /\ t[1] = Chosen(b, 1)
  BY <1>3, <1>5, StepsNat
<1>9. Complete(a, Chosen(b, 1), t)
  BY <1>3, <1>5, <1>6, <1>7, <1>8 DEF Complete, Leads
<1>10. a \in Table /\ Chosen(b, 1) \in Nat
  BY <1>1, <1>3, <1>4, ApplyTable
<1> QED
  BY <1>1, <1>9, <1>10, TrailIs

(* The chain cp gets consists of the clusters apply_fat took, in their order, as
   long as all of them are even (hd.c:107-118). *)
THEOREM ApplyChain ==
    ASSUME NEW b \in Table, NEW count \in 1 .. Cardinality(Free(b)),
           \A k \in 1 .. count : Even(Chosen(b, k))
    PROVE  /\ Ends(apply_fat(b, count), Chosen(b, 1))
           /\ Chain(apply_fat(b, count), Chosen(b, 1)) = [k \in 1 .. count |-> Chosen(b, k)]
<1>1. PICK t : t = Trail(apply_fat(b, count), Chosen(b, 1))
  OBVIOUS
<1>2. count \in Nat
  BY FreeFinite
<1>3. Complete(apply_fat(b, count), Chosen(b, 1), t)
  <2>1. 1 \in 1 .. Cardinality(Free(b))
    BY FreeFinite
  <2> QED
    BY <1>1, <2>1, ApplyTable, ChosenCluster, TrailComplete
<1>4. t = [k \in 1 .. count + 1 |-> IF k <= count THEN Chosen(b, k) ELSE EndOfChain]
  BY <1>1, ApplyTrail DEF Taken
<1>5. t \in Seq(Nat) /\ Len(t) = count + 1
  <2>1. t \in Seq(Nat)
    BY <1>3 DEF Complete, Leads
  <2> QED
    BY <1>2, <1>4, <2>1
<1>6. t[count + 1] = EndOfChain
  BY <1>2, <1>4
<1>7. Ends(apply_fat(b, count), Chosen(b, 1))
  BY <1>1, <1>5, <1>6 DEF Ends, EndMark, EndOfChain
<1>8. Chain(apply_fat(b, count), Chosen(b, 1)) = SubSeq(t, 1, count)
  BY <1>1, <1>2, <1>5 DEF Chain
<1>9. SubSeq(t, 1, count) = [k \in 1 .. count |-> t[k]]
  BY <1>2, <1>5
<1>10. ASSUME NEW k \in 1 .. count PROVE t[k] = Chosen(b, k)
  BY <1>2, <1>4
<1> QED
  BY <1>7, <1>8, <1>9, <1>10

-----------------------------------------------------------------------------
(* What the programs that use a table rely on.  A chain in a row stays one when
   free clusters, even or odd, are allocated (hd.c:104-116). *)
THEOREM ApplyKeepsWhole ==
    ASSUME NEW b \in Table, NEW count \in 1 .. Cardinality(Free(b)),
           NEW first, NEW len, Fits(first, len), Whole(b, first, len)
    PROVE  Whole(apply_fat(b, count), first, len)
<1>1. /\ first \in Nat /\ len \in Nat /\ first >= 2 /\ len >= 1 /\ first + len <= Entries
      /\ Entries \in Nat
  BY StepsNat DEF Fits
<1>2. ASSUME NEW c \in first .. first + len - 1
      PROVE  /\ get_next_cluster(b, c) = IF c = first + len - 1 THEN EndOfChain ELSE c + 1
             /\ c \in 0 .. Entries - 1 /\ c \in Nat /\ c \notin Free(b)
  <2>1. get_next_cluster(b, c) = IF c = first + len - 1 THEN EndOfChain ELSE c + 1
    BY DEF Whole
  <2>2. c \in 0 .. Entries - 1 /\ c \in Nat
    BY <1>1
  <2>3. get_next_cluster(b, c) # 0
    BY <2>1, <2>2 DEF EndOfChain
  <2> QED
    BY <2>1, <2>2, <2>3 DEF Free
<1>3. ASSUME NEW c \in first .. first + len - 1
      PROVE  get_next_cluster(apply_fat(b, count), c) = get_next_cluster(b, c)
  <2>1. CASE c = first + len - 1
    BY <1>2, <2>1, ApplyKeeps
  <2>2. CASE c # first + len - 1
    <3>1. c + 1 \in first .. first + len - 1
      BY <1>1, <2>2
    <3>2. c + 1 \notin Free(b)
      BY <1>2, <3>1
    <3> QED
      BY <1>2, <3>2, ApplyKeeps
  <2> QED
    BY <2>1, <2>2
<1> QED
  BY <1>2, <1>3 DEF Whole

(* It stays one when a chain of other clusters is released (hd.c:95-102). *)
THEOREM ReleaseKeepsWhole ==
    ASSUME NEW b \in Table,
           NEW first, NEW len, Fits(first, len), Whole(b, first, len),
           NEW other, NEW size, Fits(other, size), Whole(b, other, size),
           (first .. first + len - 1) \cap (other .. other + size - 1) = {}
    PROVE  Whole(release_fat(b, first), other, size)
<1>1. ASSUME NEW c \in other .. other + size - 1
      PROVE  get_next_cluster(release_fat(b, first), c) = get_next_cluster(b, c)
  <2>1. c \in 0 .. Entries - 1
    BY StepsNat DEF Fits
  <2>2. c \notin first .. first + len - 1
    BY <1>1
  <2> QED
    BY <2>1, <2>2, ReleaseWhole
<1> QED
  BY <1>1 DEF Whole

(* A chain that begins with a cluster of the table has at least this one. *)
LEMMA ChainLength ==
    ASSUME NEW b \in Table, NEW c \in 0 .. Entries - 1
    PROVE  Len(Chain(b, c)) \in Nat /\ Len(Chain(b, c)) >= 1
<1>1. PICK t, n : t = Trail(b, c) /\ n = Len(t)
  OBVIOUS
<1>2. Complete(b, c, t)
  BY <1>1, TrailComplete
<1>3. t \in Seq(Nat) /\ n \in 1 .. Steps + 1 /\ t[1] = c /\ (Stops(t[n]) \/ n = Steps + 1)
  BY <1>1, <1>2 DEF Complete, Leads
<1>4. c \in Nat /\ c < FatSize /\ Steps \in Nat /\ Steps > 1
  <2>1. c \in Nat /\ c < FatSize
    BY Fat12Assumption DEF FatSize
  <2>2. Steps \in Nat /\ Steps > Entries + 1 /\ Entries \in Nat
    BY StepsNat
  <2>3. Steps > 1
    BY <2>2
  <2> QED
    BY <2>1, <2>2, <2>3
<1>5. n # 1
  BY <1>3, <1>4 DEF Stops, FatSize
<1>6. n - 1 \in Nat /\ n - 1 >= 1 /\ n - 1 <= n
  BY <1>3, <1>4, <1>5
<1>7. Len(SubSeq(t, 1, n - 1)) = n - 1
  BY <1>1, <1>3, <1>6
<1> QED
  BY <1>1, <1>6, <1>7 DEF Chain

=============================================================================
