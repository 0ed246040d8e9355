---------------------------- MODULE FilesProofs -----------------------------
(***************************************************************************)
(* The file system keeps its promises for every image that fits the disk:  *)
(* the chain of a file that was not removed stays whole in memory and on   *)
(* the disk, calls end, a file's data changes only when a buffer of it is  *)
(* closed, and the tree in memory mirrors the directory.                   *)
(*                                                                         *)
(* The invariant is about entries of the table and not about trails: an    *)
(* entry says where the next one lies, and each write is known to keep     *)
(* all entries but one (Fat12Proofs).                                      *)
(***************************************************************************)
EXTENDS Files, Fat12Proofs

(* The entries the program ever has in its tree, directory and buffers: those
   of the image, and copies, which keep the cluster and the length. *)
Kin == {f \in Entry : \E g \in ImageFile : f.cluster = g.cluster /\ f.length = g.length}

(* A file buffer, and that all of them are. *)
IsBuffer(r) ==
    /\ r = [file |-> r.file, ptr |-> r.ptr, buffer |-> r.buffer]
    /\ r.file \in Kin \cup {None}
    /\ r.ptr \in Nat

FTypes ==
    /\ mode \in {"run", "panic", "lost"}
    /\ hd_fat_buffer \in Table /\ disk_fat \in Table
    /\ directory \in [1 .. Slots -> Kin \cup {None}]
    /\ children \in Seq(Kin) /\ Len(children) <= Slots + 1
    /\ fbuf = [i \in 0 .. FBUFFER_MAX - 1 |-> fbuf[i]]
    /\ \A i \in 0 .. FBUFFER_MAX - 1 : IsBuffer(fbuf[i])
    /\ freed \subseteq DataCluster /\ disk_freed \subseteq DataCluster
    /\ reused \in BOOLEAN /\ odd \in BOOLEAN /\ full \in BOOLEAN

(* The chains of the files that were not freed, in one copy of the table. *)
AllWhole(b, gone) ==
    \A g \in ImageFile : g.cluster \notin gone => Whole(b, g.cluster, g.length)

(* A buffer that was read through a whole chain has a byte for each cluster. *)
BuffersFit ==
    \A i \in 0 .. FBUFFER_MAX - 1 :
        fbuf[i].file # None => DOMAIN fbuf[i].buffer = 1 .. fbuf[i].file.length

FChains ==
    ~ reused => /\ AllWhole(hd_fat_buffer, freed) /\ AllWhole(disk_fat, disk_freed)
                /\ BuffersFit

FInv == FTypes /\ FChains /\ CallsEnd

-----------------------------------------------------------------------------
(* The image. *)
LEMMA ImageFits ==
    ASSUME NEW g \in ImageFile
    PROVE  /\ g \in Entry /\ g \in Kin /\ Fits(g.cluster, g.length)
           /\ Extent(g) = g.cluster .. g.cluster + g.length - 1
           /\ g.cluster \in DataCluster /\ g.cluster \in 0 .. Entries - 1
<1>1. PICK i \in 1 .. Len(Image) : g = Image[i]
  BY DEF ImageFile
<1>2. g \in Entry /\ Extent(g) \subseteq 2 .. Entries - 1
  BY <1>1, FilesAssumption
<1>3. PICK c, l : c = g.cluster /\ l = g.length /\ c \in 2 .. Entries - 1 /\ l \in 1 .. Entries
  BY <1>2 DEF Entry
<1>4. Extent(g) = c .. c + l - 1
  BY <1>3 DEF Extent
<1>5. Entries \in Nat /\ c \in Nat /\ l \in Nat /\ l >= 1
  BY <1>3, StepsNat
<1>6. c + l - 1 \in c .. c + l - 1
  BY <1>5
<1>7. c + l - 1 \in 2 .. Entries - 1
  BY <1>2, <1>4, <1>6
<1>8. c + l <= Entries
  BY <1>5, <1>7
<1>9. Fits(c, l)
  BY <1>3, <1>8 DEF Fits
<1>10. c \in DataCluster /\ c \in 0 .. Entries - 1
  BY <1>3, <1>5 DEF DataCluster
<1> QED
  BY <1>2, <1>3, <1>4, <1>9, <1>10 DEF Kin

LEMMA ImageApart ==
    ASSUME NEW g \in ImageFile, NEW h \in ImageFile, g # h
    PROVE  Extent(g) \cap Extent(h) = {}
<1>1. PICK i \in 1 .. Len(Image) : g = Image[i]
  BY DEF ImageFile
<1>2. PICK j \in 1 .. Len(Image) : h = Image[j]
  BY DEF ImageFile
<1>3. i # j
  BY <1>1, <1>2
<1> QED
  BY <1>1, <1>2, <1>3, FilesAssumption

(* Files with a first cluster in common are the same one. *)
LEMMA SameCluster ==
    ASSUME NEW g \in ImageFile, NEW h \in ImageFile, NEW c, c \in Extent(g), c \in Extent(h)
    PROVE  g = h
  BY ImageApart

LEMMA FirstInExtent ==
    ASSUME NEW g \in ImageFile PROVE g.cluster \in Extent(g)
<1>1. Fits(g.cluster, g.length) /\ Extent(g) = g.cluster .. g.cluster + g.length - 1
  BY ImageFits
<1>2. PICK c, l : c = g.cluster /\ l = g.length
  OBVIOUS
<1>3. c \in Nat /\ l \in Nat /\ l >= 1
  BY <1>1, <1>2, StepsNat DEF Fits
<1>4. c \in c .. c + l - 1
  BY <1>3
<1> QED
  BY <1>1, <1>2, <1>4

(* An entry of the program stands for a file of the image. *)
LEMMA KinOf ==
    ASSUME NEW f \in Kin
    PROVE  /\ \E g \in ImageFile : f.cluster = g.cluster /\ f.length = g.length
           /\ f \in Entry /\ f # None /\ Fits(f.cluster, f.length)
           /\ f.cluster \in DataCluster /\ f.cluster \in 0 .. Entries - 1
           /\ f.cluster \in Nat
<1>1. PICK g \in ImageFile : f.cluster = g.cluster /\ f.length = g.length
  BY DEF Kin
<1>2. /\ Fits(g.cluster, g.length)
      /\ g.cluster \in DataCluster /\ g.cluster \in 0 .. Entries - 1
  BY ImageFits
<1>3. f.cluster \in Nat /\ f.cluster # 0
  BY <1>1, <1>2, StepsNat DEF DataCluster
<1>4. f # None
  BY <1>3 DEF None
<1>5. f \in Entry
  BY DEF Kin
<1> QED
  BY <1>1, <1>2, <1>3, <1>4, <1>5

LEMMA NoneNotKin == None \notin Kin
  BY KinOf

-----------------------------------------------------------------------------
(* The table of the image.  Two entries packed in three bytes. *)
LEMMA Packed ==
    ASSUME NEW lower, NEW upper, Is12Bit(lower), Is12Bit(upper)
    PROVE  /\ lower % 256 \in 0 .. 255 /\ (lower \div 256) + 16 * (upper % 16) \in 0 .. 255
           /\ upper \div 16 \in 0 .. 255
           /\ ((lower % 256) + 256 * ((lower \div 256) + 16 * (upper % 16))) % 4096 = lower
           /\ (((lower \div 256) + 16 * (upper % 16)) + 256 * (upper \div 16)) \div 16 = upper
<1>1. lower \in Nat /\ upper \in Nat /\ lower < 4096 /\ upper < 4096
  BY DEF Is12Bit
<1>2. PICK l, h, n, m : /\ l = lower % 256 /\ h = lower \div 256
                        /\ n = upper % 16 /\ m = upper \div 16
  OBVIOUS
<1>3. l \in 0 .. 255 /\ h \in 0 .. 15 /\ lower = l + 256 * h
  <2>1. l \in 0 .. 255
    BY <1>1, <1>2
  <2>2. lower = l + 256 * h /\ h \in Int
    BY <1>1, <1>2
  <2> QED
    BY <1>1, <2>1, <2>2
<1>4. n \in 0 .. 15 /\ m \in Nat /\ upper = 16 * m + n
  BY <1>1, <1>2, Nibbles
<1>5. m \in 0 .. 255
  BY <1>1, <1>4
<1>6. h + 16 * n \in 0 .. 255
  BY <1>3, <1>4
<1>7. (l + 256 * (h + 16 * n)) % 4096 = lower
  <2>1. l + 256 * (h + 16 * n) = 4096 * n + lower
    BY <1>3, <1>4
  <2>2. (4096 * n + lower) % 4096 = lower
    BY <1>1, <1>4
  <2> QED
    BY <2>1, <2>2
<1>8. ((h + 16 * n) + 256 * m) \div 16 = upper
  <2>1. (h + 16 * n) + 256 * m = 16 * upper + h
    BY <1>3, <1>4, <1>5
  <2>2. (16 * upper + h) \div 16 = upper
    BY <1>1, <1>3
  <2> QED
    BY <2>1, <2>2
<1> QED
  BY <1>2, <1>3, <1>5, <1>6, <1>7, <1>8

LEMMA ImageEntryRange ==
    ASSUME NEW c \in Nat PROVE Is12Bit(ImageEntry(c))
<1>1. CASE \E f \in ImageFile : {c, c + 1} \subseteq Extent(f)
  <2>1. PICK f \in ImageFile : {c, c + 1} \subseteq Extent(f)
    BY <1>1
  <2>2. Extent(f) = f.cluster .. f.cluster + f.length - 1 /\ Fits(f.cluster, f.length)
    BY ImageFits
  <2>3. PICK a, l : a = f.cluster /\ l = f.length
    OBVIOUS
  <2>4. c + 1 \in a .. a + l - 1 /\ a + l <= Entries /\ a \in Nat /\ l \in Nat
    BY <2>1, <2>2, <2>3, StepsNat DEF Fits
  <2>5. c + 1 < Entries /\ Entries \in Nat /\ Entries <= FatSize
    BY <2>4, Fat12Assumption
  <2>6. Is12Bit(c + 1)
    BY <2>5 DEF Is12Bit, FatSize
  <2> QED
    BY <1>1, <2>6 DEF ImageEntry
<1>2. CASE ~ \E f \in ImageFile : {c, c + 1} \subseteq Extent(f)
  <2>1. Is12Bit(EndOfChain) /\ Is12Bit(0)
    BY DEF Is12Bit, EndOfChain
  <2> QED
    BY <1>2, <2>1 DEF ImageEntry
<1> QED
  BY <1>1, <1>2

LEMMA ThirdOf ==
    ASSUME NEW k \in Nat
    PROVE  /\ (3 * k) % 3 = 0 /\ (3 * k) \div 3 = k
           /\ (3 * k + 1) % 3 = 1 /\ (3 * k + 1) \div 3 = k
           /\ (3 * k + 2) % 3 = 2 /\ (3 * k + 2) \div 3 = k
  BY SMT

LEMMA ThreeOf ==
    ASSUME NEW o \in Nat, NEW n \in Nat, o <= 3 * n - 1
    PROVE  \E k \in 0 .. n - 1 : o \in {3 * k, 3 * k + 1, 3 * k + 2}
<1>1. o \div 3 \in Int /\ 3 * (o \div 3) <= o /\ o <= 3 * (o \div 3) + 2
  BY SMT
<1>2. PICK k : k = o \div 3 /\ k \in Int /\ 3 * k <= o /\ o <= 3 * k + 2
  BY <1>1
<1>3. k \in 0 .. n - 1
  BY <1>2
<1>4. o = 3 * k \/ o = 3 * k + 1 \/ o = 3 * k + 2
  BY <1>2
<1> QED
  BY <1>3, <1>4

ImageBytes(k) ==
    LET lower == ImageEntry(2 * k)
        upper == ImageEntry(2 * k + 1)
    IN  /\ ImageTable[3 * k] = lower % 256
        /\ ImageTable[3 * k + 1] = (lower \div 256) + 16 * (upper % 16)
        /\ ImageTable[3 * k + 2] = upper \div 16

ImageByte(o) ==
    CASE o % 3 = 0 -> ImageEntry(2 * (o \div 3)) % 256
      [] o % 3 = 1 -> (ImageEntry(2 * (o \div 3)) \div 256)
                        + 16 * (ImageEntry(2 * (o \div 3) + 1) % 16)
      [] o % 3 = 2 -> ImageEntry(2 * (o \div 3) + 1) \div 16

LEMMA LowByte ==
    ASSUME NEW o, NEW k, o % 3 = 0, o \div 3 = k
    PROVE  ImageByte(o) = ImageEntry(2 * k) % 256
<1>1. PICK x, y, z : /\ x = ImageEntry(2 * k) % 256
                     /\ y = (ImageEntry(2 * k) \div 256) + 16 * (ImageEntry(2 * k + 1) % 16)
                     /\ z = ImageEntry(2 * k + 1) \div 16
  OBVIOUS
<1>2. PICK r : r = o % 3 /\ r = 0
  OBVIOUS
<1>3. ImageByte(o) = CASE r = 0 -> x [] r = 1 -> y [] r = 2 -> z
  BY <1>1, <1>2 DEF ImageByte
<1> QED
  BY <1>1, <1>2, <1>3

LEMMA MiddleByte ==
    ASSUME NEW o, NEW k, o % 3 = 1, o \div 3 = k
    PROVE  ImageByte(o) = (ImageEntry(2 * k) \div 256) + 16 * (ImageEntry(2 * k + 1) % 16)
<1>1. PICK x, y, z : /\ x = ImageEntry(2 * k) % 256
                     /\ y = (ImageEntry(2 * k) \div 256) + 16 * (ImageEntry(2 * k + 1) % 16)
                     /\ z = ImageEntry(2 * k + 1) \div 16
  OBVIOUS
<1>2. PICK r : r = o % 3 /\ r = 1
  OBVIOUS
<1>3. ImageByte(o) = CASE r = 0 -> x [] r = 1 -> y [] r = 2 -> z
  BY <1>1, <1>2 DEF ImageByte
<1> QED
  BY <1>1, <1>2, <1>3

LEMMA HighByte ==
    ASSUME NEW o, NEW k, o % 3 = 2, o \div 3 = k
    PROVE  ImageByte(o) = ImageEntry(2 * k + 1) \div 16
<1>1. PICK x, y, z : /\ x = ImageEntry(2 * k) % 256
                     /\ y = (ImageEntry(2 * k) \div 256) + 16 * (ImageEntry(2 * k + 1) % 16)
                     /\ z = ImageEntry(2 * k + 1) \div 16
  OBVIOUS
<1>2. PICK r : r = o % 3 /\ r = 2
  OBVIOUS
<1>3. ImageByte(o) = CASE r = 0 -> x [] r = 1 -> y [] r = 2 -> z
  BY <1>1, <1>2 DEF ImageByte
<1> QED
  BY <1>1, <1>2, <1>3

LEMMA ImageBytesAre ==
    ASSUME NEW k \in 0 .. (Entries \div 2) - 1 PROVE ImageBytes(k)
<1>1. PICK n : n = Entries \div 2 /\ n \in Nat
  <2>1. Entries \div 2 \in Int /\ Entries \div 2 >= 0
    BY Fat12Assumption
  <2> QED
    BY <2>1
<1>2. /\ k \in Nat /\ 3 * k \in 0 .. 3 * n - 1 /\ 3 * k + 1 \in 0 .. 3 * n - 1
      /\ 3 * k + 2 \in 0 .. 3 * n - 1
  BY <1>1
<1>3. PICK T : T = ImageTable
  OBVIOUS
<1>4. T = [o \in 0 .. 3 * n - 1 |-> ImageByte(o)]
  BY <1>1, <1>3 DEF ImageTable, ImageByte
<1>5. PICK o0, o1, o2 : o0 = 3 * k /\ o1 = 3 * k + 1 /\ o2 = 3 * k + 2
  OBVIOUS
<1>6. /\ o0 % 3 = 0 /\ o0 \div 3 = k /\ o1 % 3 = 1 /\ o1 \div 3 = k
      /\ o2 % 3 = 2 /\ o2 \div 3 = k
  BY <1>2, <1>5, ThirdOf
<1>7. o0 \in 0 .. 3 * n - 1 /\ o1 \in 0 .. 3 * n - 1 /\ o2 \in 0 .. 3 * n - 1
  BY <1>2, <1>5
<1>11. T[o0] = ImageByte(o0) /\ T[o1] = ImageByte(o1) /\ T[o2] = ImageByte(o2)
  BY <1>4, <1>7, Zenon
<1>8. T[o0] = ImageEntry(2 * k) % 256
  <2>1. ImageByte(o0) = ImageEntry(2 * k) % 256
    BY <1>6, LowByte
  <2> QED
    BY <1>11, <2>1, Zenon
<1>9. T[o1] = (ImageEntry(2 * k) \div 256) + 16 * (ImageEntry(2 * k + 1) % 16)
  <2>1. ImageByte(o1) = (ImageEntry(2 * k) \div 256) + 16 * (ImageEntry(2 * k + 1) % 16)
    BY <1>6, MiddleByte
  <2> QED
    BY <1>11, <2>1, Zenon
<1>10. T[o2] = ImageEntry(2 * k + 1) \div 16
  <2>1. ImageByte(o2) = ImageEntry(2 * k + 1) \div 16
    BY <1>6, HighByte
  <2> QED
    BY <1>11, <2>1, Zenon
<1> QED
  BY <1>3, <1>5, <1>8, <1>9, <1>10 DEF ImageBytes

LEMMA ImageIsTable == ImageTable \in Table
<1>1. PICK n : n = Entries \div 2 /\ n \in Nat
  <2>1. Entries \div 2 \in Int /\ Entries \div 2 >= 0
    BY Fat12Assumption
  <2> QED
    BY <2>1
<1>2. PICK T : T = ImageTable
  OBVIOUS
<1>3. T = [o \in 0 .. 3 * n - 1 |-> T[o]]
  BY <1>1, <1>2 DEF ImageTable
<1>4. ASSUME NEW o \in 0 .. 3 * n - 1 PROVE T[o] \in 0 .. 255
  <2>1. PICK k : k \in 0 .. n - 1 /\ o \in {3 * k, 3 * k + 1, 3 * k + 2}
    <3>1. o \in Nat /\ o <= 3 * n - 1
      BY <1>1
    <3> QED
      BY <1>1, <3>1, ThreeOf
  <2>2. ImageBytes(k)
    BY <1>1, <2>1, ImageBytesAre
  <2>3. PICK lower, upper : /\ lower = ImageEntry(2 * k) /\ upper = ImageEntry(2 * k + 1)
                            /\ Is12Bit(lower) /\ Is12Bit(upper)
    <3>1. 2 * k \in Nat /\ 2 * k + 1 \in Nat
      BY <1>1, <2>1
    <3> QED
      BY <3>1, ImageEntryRange
  <2>4. /\ lower % 256 \in 0 .. 255 /\ (lower \div 256) + 16 * (upper % 16) \in 0 .. 255
        /\ upper \div 16 \in 0 .. 255
    BY <2>3, Packed
  <2>5. T[3 * k] \in 0 .. 255 /\ T[3 * k + 1] \in 0 .. 255 /\ T[3 * k + 2] \in 0 .. 255
    BY <1>2, <2>2, <2>3, <2>4 DEF ImageBytes
  <2> QED
    BY <2>1, <2>5
<1> QED
  BY <1>1, <1>2, <1>3, <1>4 DEF Table, Byte

(* The table says what the image says. *)
LEMMA ImageNext ==
    ASSUME NEW c \in 0 .. Entries - 1
    PROVE  get_next_cluster(ImageTable, c) = ImageEntry(c)
<1>1. PICK n, k : n = Entries \div 2 /\ k = c \div 2
  OBVIOUS
<1>2. c % 2 \in {0, 1} /\ c = 2 * k + (c % 2) /\ k \in 0 .. n - 1 /\ ~ (c >= Entries)
  <2>1. c % 2 \in {0, 1} /\ c = 2 * k + (c % 2)
    BY <1>1, Fat12Assumption
  <2>2. k \in 0 .. n - 1
    BY <1>1, Fat12Assumption
  <2> QED
    BY <2>1, <2>2, Fat12Assumption
<1>3. ImageBytes(k)
  BY <1>1, <1>2, ImageBytesAre
<1>4. k \in Nat /\ 2 * k \in Nat /\ 2 * k + 1 \in Nat
  BY <1>2
<1>5. PICK T, lower, upper :
        /\ T = ImageTable /\ lower = ImageEntry(2 * k) /\ upper = ImageEntry(2 * k + 1)
        /\ Is12Bit(lower) /\ Is12Bit(upper)
  BY <1>4, ImageEntryRange
<1>6. /\ T[3 * k] = lower % 256 /\ T[3 * k + 1] = (lower \div 256) + 16 * (upper % 16)
      /\ T[3 * k + 2] = upper \div 16
  BY <1>3, <1>5 DEF ImageBytes
<1>7. CASE c % 2 = 0
  <2>1. c = 2 * k /\ Offset(c) = 3 * k /\ c % 2 # 1
    BY <1>1, <1>2, <1>7, OffsetRange
  <2>2. Word(T, c) = (lower % 256) + 256 * ((lower \div 256) + 16 * (upper % 16))
    BY <1>6, <2>1 DEF Word
  <2>3. Word(T, c) % 4096 = lower
    BY <1>5, <2>2, Packed
  <2> QED
    BY <1>2, <1>5, <2>1, <2>3 DEF get_next_cluster
<1>8. CASE c % 2 = 1
  <2>1. c = 2 * k + 1 /\ Offset(c) = 3 * k + 1 /\ (3 * k + 1) + 1 = 3 * k + 2
    BY <1>1, <1>2, <1>4, <1>8, OffsetRange
  <2>2. Word(T, c) = ((lower \div 256) + 16 * (upper % 16)) + 256 * (upper \div 16)
    BY <1>6, <2>1 DEF Word
  <2>3. Word(T, c) \div 16 = upper
    BY <1>5, <2>2, Packed
  <2> QED
    BY <1>2, <1>5, <1>8, <2>1, <2>3 DEF get_next_cluster
<1> QED
  BY <1>2, <1>7, <1>8

LEMMA ImageWhole ==
    ASSUME NEW g \in ImageFile PROVE Whole(ImageTable, g.cluster, g.length)
<1>1. PICK a, l : a = g.cluster /\ l = g.length
  OBVIOUS
<1>2. Fits(a, l) /\ Extent(g) = a .. a + l - 1
  BY <1>1, ImageFits
<1>3. a \in Nat /\ l \in Nat /\ l >= 1 /\ a + l <= Entries /\ Entries \in Nat
  BY <1>2, StepsNat DEF Fits
<1>4. ASSUME NEW c \in a .. a + l - 1
      PROVE  get_next_cluster(ImageTable, c) = IF c = a + l - 1 THEN EndOfChain ELSE c + 1
  <2>1. c \in 0 .. Entries - 1
    BY <1>3
  <2>2. get_next_cluster(ImageTable, c) = ImageEntry(c)
    BY <2>1, ImageNext
  <2>3. \A f \in ImageFile : c \in Extent(f) => f = g
    BY <1>2, SameCluster
  <2>4. CASE c = a + l - 1
    <3>1. c + 1 \notin Extent(g)
      BY <1>2, <1>3, <2>4
    <3>2. ~ \E f \in ImageFile : {c, c + 1} \subseteq Extent(f)
      BY <2>3, <3>1
    <3>3. \E f \in ImageFile : c \in Extent(f)
      BY <1>2
    <3> QED
      BY <2>2, <2>4, <3>2, <3>3 DEF ImageEntry
  <2>5. CASE c # a + l - 1
    <3>1. c + 1 \in Extent(g)
      BY <1>2, <1>3, <2>5
    <3>2. \E f \in ImageFile : {c, c + 1} \subseteq Extent(f)
      BY <1>2, <3>1
    <3> QED
      BY <2>2, <2>5, <3>2 DEF ImageEntry
  <2> QED
    BY <2>4, <2>5
<1> QED
  BY <1>1, <1>4 DEF Whole

-----------------------------------------------------------------------------
(* Sequences of entries: one in front, and one taken out. *)
Prepended(f, s, u) == u = <<f>> \o s

LEMMA InFront ==
    ASSUME NEW K, NEW s \in Seq(K), NEW f \in K, NEW u, Prepended(f, s, u)
    PROVE  /\ u \in Seq(K) /\ Len(u) = Len(s) + 1 /\ u[1] = f
           /\ \A k \in 1 .. Len(s) : u[k + 1] = s[k]
<1>0. u = <<f>> \o s
  BY DEF Prepended
<1>1. <<f>> \in Seq(K) /\ Len(<<f>>) = 1
  OBVIOUS
<1>2. u \in Seq(K) /\ Len(u) = Len(s) + 1
  BY <1>0, <1>1
<1>3. u[1] = f
  BY <1>0, <1>1
<1>4. ASSUME NEW k \in 1 .. Len(s) PROVE u[k + 1] = s[k]
  BY <1>0, <1>1
<1> QED
  BY <1>2, <1>3, <1>4

LEMMA TakeOut ==
    ASSUME NEW K, NEW s \in Seq(K), NEW i \in 1 .. Len(s), NEW u, u = RemoveAt(s, i)
    PROVE  /\ u \in Seq(K) /\ Len(u) = Len(s) - 1
           /\ \A k \in 1 .. Len(u) : u[k] = IF k < i THEN s[k] ELSE s[k + 1]
<1>0. Len(s) \in Nat
  OBVIOUS
<1>1. PICK n, v, w : n = Len(s) /\ n \in Nat /\ v = SubSeq(s, 1, i - 1) /\ w = SubSeq(s, i + 1, n)
  BY <1>0, Zenon
<1>2. v \in Seq(K) /\ Len(v) = i - 1 /\ \A k \in 1 .. i - 1 : v[k] = s[k]
  BY <1>1
<1>3. w \in Seq(K) /\ Len(w) = n - i /\ \A k \in 1 .. n - i : w[k] = s[k + i]
  <2>1. /\ i \in Nat /\ i + 1 >= 1 /\ n <= Len(s) /\ n \in Nat
    BY <1>1
  <2>2. w \in Seq(K)
    BY <1>1, <2>1
  <2>3. Len(w) = n - i
    <3>1. CASE i + 1 <= n
      BY <1>1, <2>1, <3>1
    <3>2. CASE ~ (i + 1 <= n)
      <4>1. i = n
        BY <1>1, <2>1, <3>2
      <4>2. w = <<>>
        BY <1>1, <2>1, <4>1
      <4> QED
        BY <1>1, <4>1, <4>2
    <3> QED
      BY <3>1, <3>2
  <2>4. ASSUME NEW k \in 1 .. n - i PROVE w[k] = s[k + i]
    <3>1. i + 1 <= n
      BY <1>1, <2>1
    <3> QED
      BY <1>1, <2>1, <3>1
  <2> QED
    BY <2>2, <2>3, <2>4
<1>4. u = v \o w
  BY <1>1 DEF RemoveAt
<1>5. u \in Seq(K) /\ Len(u) = n - 1
  <2>1. v \in Seq(K) /\ w \in Seq(K)
    BY <1>2, <1>3
  <2>2. u \in Seq(K) /\ Len(u) = Len(v) + Len(w)
    BY <1>4, <2>1
  <2>3. i \in Int /\ n \in Int
    BY <1>1
  <2> QED
    BY <1>2, <1>3, <2>2, <2>3
<1>6. ASSUME NEW k \in 1 .. Len(u) PROVE u[k] = IF k < i THEN s[k] ELSE s[k + 1]
  <2>1. CASE k < i
    <3>1. k \in 1 .. Len(v)
      BY <1>2, <2>1
    <3>2. u[k] = v[k]
      BY <1>2, <1>3, <1>4, <3>1
    <3> QED
      BY <1>2, <2>1, <3>1, <3>2
  <2>2. CASE ~ (k < i)
    <3>1. PICK l : l = k - (i - 1) /\ l \in 1 .. n - i /\ l + i = k + 1
      BY <1>1, <1>5, <2>2
    <3>2. u[k] = w[l]
      BY <1>2, <1>3, <1>4, <1>5, <2>2, <3>1
    <3> QED
      BY <1>3, <2>2, <3>1, <3>2
  <2> QED
    BY <2>1, <2>2
<1> QED
  BY <1>1, <1>5, <1>6

-----------------------------------------------------------------------------
(* How often a name occurs in a list and in the directory. *)
Named(s, n) == {i \in 1 .. Len(s) : s[i].filename = n}
Stored(dir, n) == {j \in 1 .. Slots : dir[j].filename = n}

LEMMA IndexesFinite ==
    ASSUME NEW m \in Nat, NEW S \in SUBSET (1 .. m)
    PROVE  IsFiniteSet(S) /\ Cardinality(S) \in Nat
<1>1. IsFiniteSet(1 .. m)
  BY FS_Interval
<1>2. IsFiniteSet(S)
  BY <1>1, FS_Subset
<1> QED
  BY <1>2, FS_CardinalityType

LEMMA NamedFinite ==
    ASSUME NEW K, NEW s \in Seq(K), NEW n
    PROVE  IsFiniteSet(Named(s, n)) /\ Cardinality(Named(s, n)) \in Nat
<1>1. Named(s, n) \in SUBSET (1 .. Len(s)) /\ Len(s) \in Nat
  BY DEF Named
<1> QED
  BY <1>1, IndexesFinite

LEMMA StoredFinite ==
    ASSUME NEW dir, NEW n
    PROVE  IsFiniteSet(Stored(dir, n)) /\ Cardinality(Stored(dir, n)) \in Nat
<1>1. Stored(dir, n) \in SUBSET (1 .. Slots) /\ Slots \in Nat
  BY FilesAssumption DEF Stored
<1> QED
  BY <1>1, IndexesFinite

(* A set that maps into another one without meeting a value twice is not larger. *)
LEMMA Injects ==
    ASSUME NEW S, NEW T, IsFiniteSet(S), IsFiniteSet(T), NEW f \in [S -> T],
           \A x, y \in S : f[x] = f[y] => x = y
    PROVE  Cardinality(S) <= Cardinality(T)
<1>1. Cardinality(S) \in Nat /\ Cardinality(T) \in Nat
  BY FS_CardinalityType
<1>2. ASSUME Cardinality(T) < Cardinality(S) PROVE FALSE
  <2>1. \E x, y \in S : x # y /\ f[x] = f[y]
    BY <1>2, FS_PigeonHole
  <2> QED
    BY <2>1
<1> QED
  BY <1>1, <1>2

Maps(f, S, T) == f \in [S -> T] /\ \A x, y \in S : f[x] = f[y] => x = y

LEMMA SameCount ==
    ASSUME NEW S, NEW T, IsFiniteSet(S), IsFiniteSet(T),
           NEW f, NEW g, Maps(f, S, T), Maps(g, T, S)
    PROVE  Cardinality(S) = Cardinality(T)
<1>1. Cardinality(S) <= Cardinality(T) /\ Cardinality(T) <= Cardinality(S)
  BY Injects DEF Maps
<1>2. Cardinality(S) \in Nat /\ Cardinality(T) \in Nat
  BY FS_CardinalityType
<1> QED
  BY <1>1, <1>2

Gained(longer, shorter, e, n) ==
    Cardinality(Named(longer, n)) =
      Cardinality(Named(shorter, n)) + (IF e.filename = n THEN 1 ELSE 0)

LEMMA CountFront ==
    ASSUME NEW K, NEW s \in Seq(K), NEW e \in K, NEW n, NEW u, Prepended(e, s, u)
    PROVE  Gained(u, s, e, n)
<1>0. Len(s) \in Nat
  OBVIOUS
<1>20. /\ u \in Seq(K) /\ Len(u) = Len(s) + 1 /\ u[1] = e
       /\ \A k \in 1 .. Len(s) : u[k + 1] = s[k]
  BY InFront
<1>1. PICK A, B, m : A = Named(s, n) /\ B = Named(u, n) \ {1} /\ m = Len(s) /\ m \in Nat
  BY <1>0, Zenon
<1>2. /\ u \in Seq(K) /\ Len(u) = m + 1 /\ u[1] = e
      /\ \A k \in 1 .. m : u[k + 1] = s[k]
  BY <1>1, <1>20
<1>3. /\ IsFiniteSet(A) /\ IsFiniteSet(Named(u, n)) /\ Cardinality(A) \in Nat
  BY <1>1, <1>2, NamedFinite
<1>4. IsFiniteSet(B)
  BY <1>1, <1>3, FS_RemoveElement
<1>5. PICK up, down : up = [i \in A |-> i + 1] /\ down = [i \in B |-> i - 1]
  OBVIOUS
<1>6. A \subseteq 1 .. m /\ B \subseteq 2 .. m + 1
  BY <1>1, <1>2 DEF Named
<1>7. up \in [A -> B]
  <2>1. ASSUME NEW i \in A PROVE i + 1 \in B
    <3>1. i \in 1 .. m /\ s[i].filename = n /\ i + 1 \in 1 .. m + 1 /\ i + 1 # 1
      BY <1>1, <1>6 DEF Named
    <3> QED
      BY <1>1, <1>2, <3>1 DEF Named
  <2> QED
    BY <1>5, <2>1
<1>8. down \in [B -> A]
  <2>1. ASSUME NEW i \in B PROVE i - 1 \in A
    <3>1. i \in 2 .. m + 1 /\ u[i].filename = n
      BY <1>1, <1>6 DEF Named
    <3>2. i - 1 \in 1 .. m /\ (i - 1) + 1 = i
      BY <1>1, <3>1
    <3>3. u[i] = s[i - 1]
      BY <1>2, <3>2
    <3> QED
      BY <1>1, <3>1, <3>2, <3>3 DEF Named
  <2> QED
    BY <1>5, <2>1
<1>9. /\ \A x, y \in A : up[x] = up[y] => x = y
      /\ \A x, y \in B : down[x] = down[y] => x = y
  <2>1. ASSUME NEW x \in A, NEW y \in A, up[x] = up[y] PROVE x = y
    <3>1. x + 1 = y + 1 /\ x \in Int /\ y \in Int
      BY <1>5, <1>6, <2>1
    <3> QED
      BY <3>1
  <2>2. ASSUME NEW x \in B, NEW y \in B, down[x] = down[y] PROVE x = y
    <3>1. x - 1 = y - 1 /\ x \in Int /\ y \in Int
      BY <1>5, <1>6, <2>2
    <3> QED
      BY <3>1
  <2> QED
    BY <2>1, <2>2
<1>10. Cardinality(A) = Cardinality(B)
  <2>1. IsFiniteSet(A) /\ IsFiniteSet(B)
    BY <1>3, <1>4
  <2>2. Maps(up, A, B) /\ Maps(down, B, A)
    BY <1>7, <1>8, <1>9 DEF Maps
  <2> QED
    BY <2>1, <2>2, SameCount
<1>11. CASE e.filename = n
  <2>1. 1 \in Named(u, n)
    BY <1>1, <1>2, <1>11 DEF Named
  <2>2. Named(u, n) = B \cup {1} /\ 1 \notin B
    BY <1>1, <2>1
  <2>3. Cardinality(Named(u, n)) = Cardinality(B) + 1
    BY <1>4, <2>2, FS_AddElement
  <2> QED
    BY <1>1, <1>10, <1>11, <2>3 DEF Gained
<1>12. CASE e.filename # n
  <2>1. Named(u, n) = B
    <3>1. 1 \notin Named(u, n)
      BY <1>2, <1>12 DEF Named
    <3> QED
      BY <1>1, <3>1
  <2>2. Cardinality(Named(u, n)) = Cardinality(Named(s, n))
    BY <1>1, <1>10, <2>1
  <2> QED
    BY <1>1, <1>3, <1>12, <2>2 DEF Gained
<1> QED
  BY <1>11, <1>12

LEMMA CountTakeOut ==
    ASSUME NEW K, NEW s \in Seq(K), NEW j \in 1 .. Len(s), NEW n, NEW u, u = RemoveAt(s, j)
    PROVE  Gained(s, u, s[j], n)
<1>0. Len(s) \in Nat
  OBVIOUS
<1>1. PICK A, B, m : A = Named(u, n) /\ B = Named(s, n) \ {j} /\ m = Len(s) /\ m \in Nat
  BY <1>0, Zenon
<1>2. /\ u \in Seq(K) /\ Len(u) = m - 1
      /\ \A k \in 1 .. m - 1 : u[k] = IF k < j THEN s[k] ELSE s[k + 1]
  <2>1. /\ u \in Seq(K) /\ Len(u) = Len(s) - 1
        /\ \A k \in 1 .. Len(u) : u[k] = IF k < j THEN s[k] ELSE s[k + 1]
    BY TakeOut
  <2> QED
    BY <1>1, <2>1
<1>3. /\ IsFiniteSet(A) /\ IsFiniteSet(Named(s, n)) /\ Cardinality(A) \in Nat
  BY <1>1, <1>2, NamedFinite
<1>4. IsFiniteSet(B)
  BY <1>1, <1>3, FS_RemoveElement
<1>5. PICK up, down : /\ up = [i \in A |-> IF i < j THEN i ELSE i + 1]
                      /\ down = [i \in B |-> IF i < j THEN i ELSE i - 1]
  OBVIOUS
<1>6. A \subseteq 1 .. m - 1 /\ B \subseteq 1 .. m /\ j \notin B /\ j \in 1 .. m
  BY <1>1, <1>2 DEF Named
<1>7. up \in [A -> B]
  <2>1. ASSUME NEW i \in A PROVE (IF i < j THEN i ELSE i + 1) \in B
    <3>1. i \in 1 .. m - 1 /\ u[i].filename = n
      BY <1>1, <1>6 DEF Named
    <3>2. PICK k : k = IF i < j THEN i ELSE i + 1
      OBVIOUS
    <3>3. k \in 1 .. m /\ k # j
      BY <1>1, <1>6, <3>1, <3>2
    <3>4. s[k] = u[i]
      BY <1>2, <3>1, <3>2
    <3> QED
      BY <1>1, <3>1, <3>2, <3>3, <3>4 DEF Named
  <2> QED
    BY <1>5, <2>1
<1>8. down \in [B -> A]
  <2>1. ASSUME NEW i \in B PROVE (IF i < j THEN i ELSE i - 1) \in A
    <3>1. i \in 1 .. m /\ i # j /\ s[i].filename = n
      BY <1>1, <1>6 DEF Named
    <3>2. PICK k : k = IF i < j THEN i ELSE i - 1
      OBVIOUS
    <3>3. k \in 1 .. m - 1 /\ (k < j <=> i < j) /\ (~ (i < j) => k + 1 = i)
      BY <1>1, <1>6, <3>1, <3>2
    <3>4. u[k] = s[i]
      BY <1>2, <3>2, <3>3
    <3> QED
      BY <1>1, <1>2, <3>1, <3>2, <3>3, <3>4 DEF Named
  <2> QED
    BY <1>5, <2>1
<1>9. /\ \A x, y \in A : up[x] = up[y] => x = y
      /\ \A x, y \in B : down[x] = down[y] => x = y
  <2>1. ASSUME NEW x \in A, NEW y \in A, up[x] = up[y] PROVE x = y
    <3>1. /\ (IF x < j THEN x ELSE x + 1) = (IF y < j THEN y ELSE y + 1)
          /\ x \in Int /\ y \in Int /\ j \in Int
      BY <1>5, <1>6, <2>1
    <3> QED
      BY <3>1
  <2>2. ASSUME NEW x \in B, NEW y \in B, down[x] = down[y] PROVE x = y
    <3>1. /\ (IF x < j THEN x ELSE x - 1) = (IF y < j THEN y ELSE y - 1)
          /\ x \in Int /\ y \in Int /\ j \in Int /\ x # j /\ y # j
      BY <1>5, <1>6, <2>2
    <3> QED
      BY <3>1
  <2> QED
    BY <2>1, <2>2
<1>10. Cardinality(A) = Cardinality(B)
  <2>1. IsFiniteSet(A) /\ IsFiniteSet(B)
    BY <1>3, <1>4
  <2>2. Maps(up, A, B) /\ Maps(down, B, A)
    BY <1>7, <1>8, <1>9 DEF Maps
  <2> QED
    BY <2>1, <2>2, SameCount
<1>11. CASE s[j].filename = n
  <2>1. j \in Named(s, n)
    BY <1>11 DEF Named
  <2>2. Named(s, n) = B \cup {j} /\ j \notin B
    BY <1>1, <2>1
  <2>3. Cardinality(Named(s, n)) = Cardinality(B) + 1
    BY <1>4, <2>2, FS_AddElement
  <2> QED
    BY <1>1, <1>10, <1>11, <2>3 DEF Gained
<1>12. CASE s[j].filename # n
  <2>1. Named(s, n) = B
    <3>1. j \notin Named(s, n)
      BY <1>12 DEF Named
    <3> QED
      BY <1>1, <3>1
  <2>2. Cardinality(Named(s, n)) = Cardinality(Named(u, n))
    BY <1>1, <1>10, <2>1
  <2> QED
    BY <1>1, <1>3, <1>12, <2>2 DEF Gained
<1> QED
  BY <1>11, <1>12

LEMMA NoName == \A n \in Name : n # None.filename
<1>1. SUFFICES ASSUME NEW n \in Name PROVE n # <<>>
  BY DEF None
<1>2. DOMAIN n = 1 .. NameLength
  BY DEF Name
<1>3. 1 \in DOMAIN n
  BY <1>2 DEF NameLength
<1>4. 1 \notin DOMAIN <<>>
  OBVIOUS
<1> QED
  BY <1>3, <1>4

(* Putting something into a slot of the directory. *)
Replaced(dir, j, e, new) == new = [dir EXCEPT ![j] = e]
Balanced(dir, new, old, e, n) ==
    Cardinality(Stored(new, n)) + (IF old.filename = n THEN 1 ELSE 0)
      = Cardinality(Stored(dir, n)) + (IF e.filename = n THEN 1 ELSE 0)

LEMMA CountPut ==
    ASSUME NEW dir \in [1 .. Slots -> Kin \cup {None}], NEW j \in 1 .. Slots,
           NEW e \in Kin \cup {None}, NEW n, NEW new, Replaced(dir, j, e, new)
    PROVE  Balanced(dir, new, dir[j], e, n)
<1> USE DEF Replaced, Balanced
<1>1. PICK A, B, C : A = Stored(dir, n) /\ B = Stored(new, n) /\ C = A \ {j}
  OBVIOUS
<1>2. IsFiniteSet(A) /\ IsFiniteSet(B) /\ Cardinality(A) \in Nat /\ Cardinality(B) \in Nat
  BY <1>1, StoredFinite
<1>3. IsFiniteSet(C) /\ j \notin C
  BY <1>1, <1>2, FS_RemoveElement
<1>4. Cardinality(C) \in Nat
  BY <1>3, FS_CardinalityType
<1>5. Cardinality(A) = Cardinality(C) + (IF dir[j].filename = n THEN 1 ELSE 0)
  <2>1. CASE dir[j].filename = n
    <3>1. A = C \cup {j}
      BY <1>1, <2>1 DEF Stored
    <3>2. Cardinality(A) = Cardinality(C) + 1
      BY <1>3, <3>1, FS_AddElement
    <3> QED
      BY <2>1, <3>2
  <2>2. CASE dir[j].filename # n
    <3>1. A = C
      BY <1>1, <2>2 DEF Stored
    <3> QED
      BY <1>4, <2>2, <3>1
  <2> QED
    BY <2>1, <2>2
<1>6. new[j] = e /\ \A k \in 1 .. Slots : k # j => new[k] = dir[k]
  OBVIOUS
<1>7. Cardinality(B) = Cardinality(C) + (IF e.filename = n THEN 1 ELSE 0)
  <2>1. CASE e.filename = n
    <3>1. B = C \cup {j}
      BY <1>1, <1>6, <2>1 DEF Stored
    <3>2. Cardinality(B) = Cardinality(C) + 1
      BY <1>3, <3>1, FS_AddElement
    <3> QED
      BY <2>1, <3>2
  <2>2. CASE e.filename # n
    <3>1. B = C
      BY <1>1, <1>6, <2>2 DEF Stored
    <3> QED
      BY <1>4, <2>2, <3>1
  <2> QED
    BY <2>1, <2>2
<1> QED
  BY <1>1, <1>2, <1>4, <1>5, <1>7

(* Scanning the directory gives each name as often as it is stored. *)
ScanLoop(dir, f) ==
    f = [n \in 0 .. Slots |->
            IF n = 0 THEN <<>>
            ELSE IF dir[n] = None THEN f[n - 1]
            ELSE <<dir[n]>> \o f[n - 1]]

LEMMA ScannedIsLoop ==
    ASSUME NEW dir \in [1 .. Slots -> Kin \cup {None}]
    PROVE  \E f : /\ f[0] = <<>>
                  /\ \A n \in 0 .. Slots - 1 :
                       f[n + 1] = IF dir[n + 1] = None THEN f[n] ELSE <<dir[n + 1]>> \o f[n]
                  /\ Scanned(dir) = f[Slots]
<1>0. Slots \in Nat
  BY FilesAssumption
<1>1. PICK D, G : /\ D = Seq(Kin)
                  /\ G = [n \in 1 .. Slots |->
                           [t \in D |-> IF dir[n] = None THEN t ELSE <<dir[n]>> \o t]]
  OBVIOUS
<1>2. <<>> \in D /\ G \in [1 .. Slots -> [D -> D]]
  <2>1. ASSUME NEW n \in 1 .. Slots, NEW t \in D
        PROVE  (IF dir[n] = None THEN t ELSE <<dir[n]>> \o t) \in D
    <3>1. CASE dir[n] = None
      BY <3>1
    <3>2. CASE dir[n] # None
      <4>1. PICK e : e = dir[n] /\ e \in Kin
        BY <3>2
      <4>2. t \in Seq(Kin) /\ <<e>> \in Seq(Kin)
        BY <1>1, <4>1
      <4>3. <<e>> \o t \in Seq(Kin)
        BY <4>2
      <4> QED
        BY <1>1, <3>2, <4>1, <4>3
    <3> QED
      BY <3>1, <3>2
  <2>2. <<>> \in D
    BY <1>1
  <2>3. G \in [1 .. Slots -> [D -> D]]
    BY <1>1, <2>1
  <2> QED
    BY <2>2, <2>3
<1>3. PICK f : LoopOf(Slots, D, <<>>, G, f)
  BY <1>0, <1>2, Loop
<1>4. /\ f \in [0 .. Slots -> D] /\ f[0] = <<>>
      /\ \A n \in 1 .. Slots : f[n] = G[n][f[n - 1]]
  BY <1>3 DEF LoopOf
<1>5. ASSUME NEW n \in 1 .. Slots
      PROVE  f[n] = IF dir[n] = None THEN f[n - 1] ELSE <<dir[n]>> \o f[n - 1]
  <2>1. n - 1 \in 0 .. Slots
    BY <1>0
  <2>2. PICK t : t = f[n - 1] /\ t \in D
    BY <1>4, <2>1, Zenon
  <2>3. G[n][t] = IF dir[n] = None THEN t ELSE <<dir[n]>> \o t
    BY <1>1, <2>2
  <2>4. f[n] = G[n][f[n - 1]]
    BY <1>4
  <2> QED
    BY <2>2, <2>3, <2>4
<1>6. ScanLoop(dir, f)
  <2>1. ASSUME NEW n \in 0 .. Slots
        PROVE  f[n] = IF n = 0 THEN <<>>
                      ELSE IF dir[n] = None THEN f[n - 1]
                      ELSE <<dir[n]>> \o f[n - 1]
    <3>1. n = 0 \/ n \in 1 .. Slots
      BY <1>0
    <3> QED
      BY <1>4, <1>5, <3>1, Zenon
  <2> QED
    BY <1>4, <2>1 DEF ScanLoop
<1>7. PICK g : g = CHOOSE h : ScanLoop(dir, h)
  OBVIOUS
<1>8. ScanLoop(dir, g)
  BY <1>6, <1>7
<1>9. Scanned(dir) = g[Slots]
  BY <1>7 DEF Scanned, ScanLoop
<1>10. \A n \in 0 .. Slots :
         g[n] = IF n = 0 THEN <<>>
                ELSE IF dir[n] = None THEN g[n - 1]
                ELSE <<dir[n]>> \o g[n - 1]
  BY <1>8 DEF ScanLoop
<1>11. g[0] = <<>>
  <2>1. 0 \in 0 .. Slots
    BY <1>0
  <2> QED
    BY <1>10, <2>1, Zenon
<1>12. ASSUME NEW n \in 0 .. Slots - 1
       PROVE  g[n + 1] = IF dir[n + 1] = None THEN g[n] ELSE <<dir[n + 1]>> \o g[n]
  <2>1. PICK k : k = n + 1 /\ k \in 0 .. Slots /\ k # 0 /\ k - 1 = n
    BY <1>0
  <2>2. g[k] = IF dir[k] = None THEN g[k - 1] ELSE <<dir[k]>> \o g[k - 1]
    BY <1>10, <2>1
  <2> QED
    BY <2>1, <2>2
<1> QED
  BY <1>9, <1>11, <1>12

StoredUpTo(dir, m, n) == {j \in 1 .. m : dir[j].filename = n}

LEMMA ScanCounts ==
    ASSUME NEW dir \in [1 .. Slots -> Kin \cup {None}]
    PROVE  /\ Scanned(dir) \in Seq(Kin) /\ Len(Scanned(dir)) <= Slots
           /\ \A n \in Name : Cardinality(Named(Scanned(dir), n)) = Cardinality(Stored(dir, n))
<1>0. Slots \in Nat
  BY FilesAssumption
<1>1. PICK f : /\ f[0] = <<>>
               /\ \A n \in 0 .. Slots - 1 :
                    f[n + 1] = IF dir[n + 1] = None THEN f[n] ELSE <<dir[n + 1]>> \o f[n]
               /\ Scanned(dir) = f[Slots]
  BY ScannedIsLoop
<1> DEFINE P(m) == /\ f[m] \in Seq(Kin) /\ Len(f[m]) <= m
                   /\ \A n \in Name :
                        Cardinality(Named(f[m], n)) = Cardinality(StoredUpTo(dir, m, n))
           S == {m \in 0 .. Slots : P(m)}
<1>2. P(0)
  <2>1. f[0] \in Seq(Kin) /\ Len(f[0]) <= 0
    BY <1>1
  <2>2. ASSUME NEW n \in Name PROVE Named(f[0], n) = {} /\ StoredUpTo(dir, 0, n) = {}
    BY <1>1 DEF Named, StoredUpTo
  <2> QED
    BY <2>1, <2>2
<1>3. ASSUME NEW m \in 0 .. Slots - 1, P(m) PROVE P(m + 1)
  <2>1. PICK k, s, u, e : /\ k = m + 1 /\ s = f[m] /\ u = f[m + 1] /\ e = dir[m + 1]
    OBVIOUS
  <2>2. /\ k \in 1 .. Slots /\ k \in Nat /\ m \in Nat
        /\ s \in Seq(Kin) /\ Len(s) <= m
        /\ u = IF e = None THEN s ELSE <<e>> \o s
        /\ e = dir[k]
    BY <1>0, <1>1, <1>3, <2>1
  <2>3. e \in Kin \cup {None}
    BY <2>2
  <2>4. ASSUME NEW n \in Name
        PROVE  Cardinality(StoredUpTo(dir, k, n)) =
                 Cardinality(StoredUpTo(dir, m, n)) + (IF e.filename = n THEN 1 ELSE 0)
    <3>1. PICK A, B : A = StoredUpTo(dir, m, n) /\ B = StoredUpTo(dir, k, n)
      OBVIOUS
    <3>2. k \notin A /\ IsFiniteSet(A) /\ Cardinality(A) \in Nat
      <4>1. A \in SUBSET (1 .. m)
        BY <3>1 DEF StoredUpTo
      <4>2. k \notin A
        BY <2>1, <2>2, <4>1
      <4> QED
        BY <2>2, <4>1, <4>2, IndexesFinite
    <3>3. CASE e.filename = n
      <4>1. B = A \cup {k}
        BY <2>1, <2>2, <3>1, <3>3 DEF StoredUpTo
      <4>2. Cardinality(B) = Cardinality(A) + 1
        BY <3>2, <4>1, FS_AddElement
      <4> QED
        BY <3>1, <3>3, <4>2
    <3>4. CASE e.filename # n
      <4>1. B = A
        BY <2>1, <2>2, <3>1, <3>4 DEF StoredUpTo
      <4> QED
        BY <3>1, <3>2, <3>4, <4>1
    <3> QED
      BY <3>3, <3>4
  <2>5. CASE e = None
    <3>1. ASSUME NEW n \in Name
          PROVE  Cardinality(Named(u, n)) = Cardinality(StoredUpTo(dir, k, n))
      <4>1. e.filename # n
        BY <2>5, NoName
      <4>2. Cardinality(Named(s, n)) = Cardinality(StoredUpTo(dir, m, n)) /\ u = s
        BY <1>3, <2>1, <2>2, <2>5
      <4>3. Cardinality(Named(s, n)) \in Nat
        BY <2>2, NamedFinite
      <4> QED
        BY <2>4, <4>1, <4>2, <4>3
    <3>2. u \in Seq(Kin) /\ Len(u) <= k
      BY <2>1, <2>2, <2>5
    <3> QED
      BY <2>1, <3>1, <3>2
  <2>6. CASE e # None
    <3>1. e \in Kin /\ u = <<e>> \o s
      BY <2>2, <2>3, <2>6
    <3>2. /\ u \in Seq(Kin) /\ Len(u) = Len(s) + 1 /\ u[1] = e
          /\ \A i \in 1 .. Len(s) : u[i + 1] = s[i]
      <4>1. Prepended(e, s, u)
        BY <3>1 DEF Prepended
      <4>2. s \in Seq(Kin) /\ e \in Kin
        BY <2>2, <3>1
      <4> QED
        BY <4>1, <4>2, InFront
    <3>3. ASSUME NEW n \in Name
          PROVE  Cardinality(Named(u, n)) = Cardinality(StoredUpTo(dir, k, n))
      <4>1. Cardinality(Named(u, n)) =
              Cardinality(Named(s, n)) + (IF e.filename = n THEN 1 ELSE 0)
        <5>1. Prepended(e, s, u) /\ s \in Seq(Kin)
          BY <2>2, <3>1 DEF Prepended
        <5>2. Gained(u, s, e, n)
          BY <3>1, <5>1, CountFront, Zenon
        <5> QED
          BY <5>2 DEF Gained
      <4>2. Cardinality(Named(s, n)) = Cardinality(StoredUpTo(dir, m, n))
        BY <1>3, <2>1
      <4> QED
        BY <2>4, <4>1, <4>2
    <3>4. Len(u) <= k
      <4>1. Len(s) \in Nat
        BY <2>2
      <4> QED
        BY <2>1, <2>2, <3>2, <4>1
    <3> QED
      BY <2>1, <3>2, <3>3, <3>4
  <2> QED
    BY <2>5, <2>6
<1>4. P(Slots)
  <2> HIDE DEF P
  <2>1. 0 \in S
    BY <1>0, <1>2
  <2>2. \A m \in 0 .. Slots - 1 : m \in S => m + 1 \in S
    <3>1. ASSUME NEW m \in 0 .. Slots - 1, m \in S PROVE m + 1 \in S
      <4>1. m + 1 \in 0 .. Slots /\ P(m)
        BY <1>0, <3>1
      <4> QED
        BY <1>3, <4>1
    <3> QED
      BY <3>1
  <2>3. Slots \in S
    <3>1. \A m \in 0 .. Slots : m \in S
      <4> HIDE DEF S
      <4> QED
        BY <1>0, <2>1, <2>2, Rounds
    <3> QED
      BY <1>0, <3>1
  <2> QED
    BY <2>3
<1> QED
  BY <1>1, <1>4 DEF StoredUpTo, Stored

-----------------------------------------------------------------------------
(* What commands pick: an entry of the list, a slot, a buffer. *)
LEMMA Found1 ==
    ASSUME children \in Seq(Kin), NEW s, Found(s) # {}
    PROVE  /\ find_file(s) \in 1 .. Len(children)
           /\ children[find_file(s)] \in Kin
<1>1. Found(s) \in SUBSET Nat /\ Found(s) \subseteq 1 .. Len(children)
  BY DEF Found
<1>2. \E i \in Found(s) : \A j \in Found(s) : i <= j
  BY <1>1, LeastNumber
<1>3. find_file(s) \in Found(s)
  BY <1>2 DEF find_file
<1> QED
  BY <1>1, <1>3

LEMMA First1 ==
    ASSUME NEW S \in SUBSET (1 .. Slots), S # {} PROVE FirstOf(S) \in S
<1>1. S \in SUBSET Nat
  OBVIOUS
<1>2. \E i \in S : \A j \in S : i <= j
  BY <1>1, LeastNumber
<1> QED
  BY <1>2 DEF FirstOf

LEMMA CopyName ==
    ASSUME NEW name \in Name, NEW s \in Typed PROVE Over(name, s) \in Name
<1>1. PICK k \in 1 .. NameLength : s \in [1 .. k -> Letter]
  BY FilesAssumption
<1>2. DOMAIN s = 1 .. k /\ 1 \in DOMAIN s /\ \A i \in DOMAIN s : s[i] \in Letter
  BY <1>1 DEF NameLength
<1>3. name \in [1 .. NameLength -> Letter \cup {Blank}]
  BY DEF Name
<1>4. \A i \in 1 .. NameLength :
        (IF i \in DOMAIN s THEN s[i] ELSE name[i]) \in Letter \cup {Blank}
  BY <1>2, <1>3
<1>5. Over(name, s) \in [1 .. NameLength -> Letter \cup {Blank}]
  BY <1>4 DEF Over
<1>6. 1 \in 1 .. NameLength
  BY DEF NameLength
<1>7. Over(name, s)[1] = s[1]
  BY <1>2, <1>6 DEF Over
<1>8. s[1] # Blank
  BY <1>2, FilesAssumption
<1> QED
  BY <1>5, <1>7, <1>8 DEF Name

(* A copy: another name, the same cluster and length. *)
LEMMA CopyIsKin ==
    ASSUME children \in Seq(Kin), NEW s \in Typed, NEW ns \in Typed, Found(s) # {}
    PROVE  Old(s) \in Kin /\ New(s, ns) \in Kin
<1>1. PICK f : f = Old(s) /\ f \in Kin
  BY Found1 DEF Old
<1>2. f \in Entry /\ \E g \in ImageFile : f.cluster = g.cluster /\ f.length = g.length
  BY <1>1, KinOf
<1>3. PICK name : name = Over(f.filename, ns) /\ name \in Name
  BY <1>2, CopyName DEF Entry
<1>4. New(s, ns) = [f EXCEPT !.filename = name]
  <2>1. New(s, ns) = [f EXCEPT !.filename = Over(f.filename, ns)]
    BY <1>1 DEF New
  <2> QED
    BY <1>3, <2>1
<1>5. [f EXCEPT !.filename = name] \in Entry
  BY <1>2, <1>3 DEF Entry
<1>6. /\ [f EXCEPT !.filename = name].cluster = f.cluster
      /\ [f EXCEPT !.filename = name].length = f.length
  BY <1>2 DEF Entry
<1> QED
  BY <1>1, <1>2, <1>4, <1>5, <1>6 DEF Kin

(* As long as no freed chain is used, what is used is whole. *)
LEMMA UsedWhole ==
    ASSUME FInv, NEW f \in Kin, Uses(f), ~ reused'
    PROVE  /\ ~ reused /\ f.cluster \notin freed
           /\ Fits(f.cluster, f.length) /\ Whole(hd_fat_buffer, f.cluster, f.length)
           /\ Ends(hd_fat_buffer, f.cluster) /\ ReleaseEnds(hd_fat_buffer, f.cluster)
           /\ Chain(hd_fat_buffer, f.cluster) = [k \in 1 .. f.length |-> f.cluster + k - 1]
<1>1. ~ reused /\ f.cluster \notin freed
  BY DEF Uses
<1>2. PICK g \in ImageFile : f.cluster = g.cluster /\ f.length = g.length
  BY KinOf
<1>3. AllWhole(hd_fat_buffer, freed) /\ hd_fat_buffer \in Table
  BY <1>1 DEF FInv, FChains, FTypes
<1>4. Whole(hd_fat_buffer, f.cluster, f.length) /\ Fits(f.cluster, f.length)
  BY <1>1, <1>2, <1>3, ImageFits DEF AllWhole
<1> QED
  BY <1>1, <1>3, <1>4, WholeChain, ReleaseWhole

(* Copies and removals keep the chains that are whole. *)
LEMMA AllocationKeeps ==
    ASSUME NEW b \in Table, NEW count \in 1 .. Cardinality(Free(b)), NEW gone, AllWhole(b, gone)
    PROVE  AllWhole(apply_fat(b, count), gone)
  BY ImageFits, ApplyKeepsWhole DEF AllWhole

LEMMA RemovalKeeps ==
    ASSUME NEW b \in Table, NEW f \in Kin, NEW gone, AllWhole(b, gone), f.cluster \notin gone
    PROVE  AllWhole(release_fat(b, f.cluster), gone \cup {f.cluster})
<1>1. PICK h \in ImageFile : f.cluster = h.cluster /\ f.length = h.length
  BY KinOf
<1>2. Whole(b, h.cluster, h.length) /\ Fits(h.cluster, h.length)
  BY <1>1, ImageFits DEF AllWhole
<1>3. ASSUME NEW g \in ImageFile, g.cluster \notin gone \cup {f.cluster}
      PROVE  Whole(release_fat(b, f.cluster), g.cluster, g.length)
  <2>1. g # h /\ Whole(b, g.cluster, g.length) /\ Fits(g.cluster, g.length)
    BY <1>1, <1>3, ImageFits DEF AllWhole
  <2>2. Extent(h) \cap Extent(g) = {}
    BY <2>1, ImageApart
  <2>3. (h.cluster .. h.cluster + h.length - 1) \cap (g.cluster .. g.cluster + g.length - 1) = {}
    BY <2>2 DEF Extent
  <2>4. Whole(release_fat(b, h.cluster), g.cluster, g.length)
    BY <1>2, <2>1, <2>3, ReleaseKeepsWhole
  <2> QED
    BY <1>1, <2>4
<1> QED
  BY <1>3 DEF AllWhole

-----------------------------------------------------------------------------
(* The beginning. *)
LEMMA InitFInv == Init => FInv /\ TreeMirrorsDirectory
<1> SUFFICES ASSUME Init PROVE FInv /\ TreeMirrorsDirectory
  OBVIOUS
<1>1. \A i \in 1 .. Len(Image) : Image[i] \in Kin
  <2>1. ASSUME NEW i \in 1 .. Len(Image) PROVE Image[i] \in Kin
    <3>1. Image[i] \in ImageFile
      BY DEF ImageFile
    <3> QED
      BY <3>1, ImageFits
  <2> QED
    BY <2>1
<1>2. directory \in [1 .. Slots -> Kin \cup {None}]
  <2>1. ASSUME NEW i \in 1 .. Slots
        PROVE  (IF i <= Len(Image) THEN Image[i] ELSE None) \in Kin \cup {None}
    <3>1. Len(Image) \in Nat
      BY FilesAssumption
    <3>2. i <= Len(Image) => i \in 1 .. Len(Image)
      BY <3>1
    <3> QED
      BY <1>1, <3>2
  <2> QED
    BY <2>1 DEF Init
<1>3. /\ children \in Seq(Kin) /\ Len(children) <= Slots
      /\ \A n \in Name : Cardinality(Named(children, n)) = Cardinality(Stored(directory, n))
  BY <1>2, ScanCounts DEF Init
<1>4. IsBuffer(Closed)
  BY DEF IsBuffer, Closed
<1>5. FTypes
  <2>1. hd_fat_buffer \in Table /\ disk_fat \in Table
    BY ImageIsTable DEF Init
  <2>2. Len(children) <= Slots + 1
    <3>1. Len(children) \in Nat /\ Slots \in Nat
      BY <1>3, FilesAssumption
    <3> QED
      BY <1>3, <3>1
  <2>3. /\ fbuf = [i \in 0 .. FBUFFER_MAX - 1 |-> fbuf[i]]
        /\ \A i \in 0 .. FBUFFER_MAX - 1 : IsBuffer(fbuf[i])
    BY <1>4 DEF Init
  <2>4. /\ mode \in {"run", "panic", "lost"} /\ freed \subseteq DataCluster
        /\ disk_freed \subseteq DataCluster
        /\ reused \in BOOLEAN /\ odd \in BOOLEAN /\ full \in BOOLEAN
    BY DEF Init
  <2> QED
    BY <1>2, <1>3, <2>1, <2>2, <2>3, <2>4 DEF FTypes
<1>6. FChains
  <2>1. AllWhole(ImageTable, {})
    BY ImageWhole DEF AllWhole
  <2>2. BuffersFit
    <3>1. \A i \in 0 .. FBUFFER_MAX - 1 : fbuf[i].file = None
      BY DEF Init, Closed
    <3> QED
      BY <3>1 DEF BuffersFit
  <2> QED
    BY <2>1, <2>2 DEF FChains, Init
<1>7. CallsEnd
  BY DEF CallsEnd, Init
<1>8. TreeMirrorsDirectory
  <2>1. ASSUME NEW n \in Name PROVE Cardinality(Stored(directory, n)) \in Nat
    BY StoredFinite
  <2> QED
    BY <1>3, <2>1 DEF TreeMirrorsDirectory, Named, Stored
<1> QED
  BY <1>5, <1>6, <1>7, <1>8 DEF FInv

-----------------------------------------------------------------------------
(* Every action keeps the invariant. *)
LEMMA PanicStep == ASSUME FInv, Panic PROVE FInv'
  BY DEF FInv, FTypes, FChains, AllWhole, BuffersFit, CallsEnd, Panic, files

(* A call that gets lost follows a freed chain. *)
LEMMA LoseStep ==
    ASSUME FInv, NEW f \in Kin, Uses(f), LoseControl,
           ~ Ends(hd_fat_buffer, f.cluster) \/ ~ ReleaseEnds(hd_fat_buffer, f.cluster)
    PROVE  FInv'
<1>1. reused' \in BOOLEAN
  BY DEF Uses, FInv, FTypes
<1>2. reused'
  BY UsedWhole
<1>3. FTypes'
  BY <1>1 DEF FInv, FTypes, LoseControl, files
<1> QED
  BY <1>2, <1>3 DEF FInv, FChains, CallsEnd

LEMMA ReadStep ==
    ASSUME FInv, NEW s \in Typed, read(s) PROVE FInv'
<1>1. children[find_file(s)] \in Kin
  BY Found1 DEF read, FInv, FTypes
<1> QED
  BY <1>1, LoseStep DEF read

LEMMA RemoveStep ==
    ASSUME FInv, NEW s \in Typed, rm(s) PROVE FInv'
<1>1. PICK i, f : i = find_file(s) /\ f = children[i] /\ i \in 1 .. Len(children) /\ f \in Kin
  BY Found1 DEF rm, FInv, FTypes
<1>2. Uses(f) /\ SlotsOf(f) # {}
  BY <1>1 DEF rm
<1>3. CASE ~ ReleaseEnds(hd_fat_buffer, f.cluster) /\ LoseControl
  BY <1>1, <1>2, <1>3, LoseStep
<1>4. CASE /\ delete_file(i)
           /\ UNCHANGED <<mode, disk_fat, data, disk_freed, odd, full, fbuf, resets>>
  <2>1. f.cluster \in Nat /\ f.cluster \in DataCluster
    BY <1>1, KinOf
  <2>2. hd_fat_buffer' = release_fat(hd_fat_buffer, f.cluster) /\ freed' = freed \cup {f.cluster}
    BY <1>1, <1>4 DEF delete_file
  <2>3. hd_fat_buffer' \in Table /\ freed' \subseteq DataCluster
    BY <2>1, <2>2, ReleaseTable DEF FInv, FTypes
  <2>4. directory' \in [1 .. Slots -> Kin \cup {None}]
    <3>1. FirstOf(SlotsOf(f)) \in 1 .. Slots
      BY <1>2, First1 DEF SlotsOf
    <3>2. directory' = [directory EXCEPT ![FirstOf(SlotsOf(f))] = None]
      BY <1>1, <1>4 DEF delete_file
    <3> QED
      BY <3>1, <3>2 DEF FInv, FTypes
  <2>5. children' \in Seq(Kin) /\ Len(children') <= Slots + 1
    <3>1. children' = RemoveAt(children, i) /\ children \in Seq(Kin)
      BY <1>4 DEF delete_file, FInv, FTypes
    <3>2. children' \in Seq(Kin) /\ Len(children') = Len(children) - 1
      BY <1>1, <3>1, TakeOut
    <3>3. Len(children) \in Nat /\ Len(children) <= Slots + 1 /\ Slots \in Nat
      BY <3>1, FilesAssumption DEF FInv, FTypes
    <3> QED
      BY <3>2, <3>3
  <2>6. reused' \in BOOLEAN /\ (reused => reused')
    BY <1>2 DEF Uses, FInv, FTypes
  <2>7. FTypes'
    BY <1>4, <2>3, <2>4, <2>5, <2>6 DEF FInv, FTypes
  <2>8. ASSUME ~ reused'
        PROVE  AllWhole(hd_fat_buffer', freed') /\ AllWhole(disk_fat', disk_freed') /\ BuffersFit'
    <3>1. ~ reused /\ f.cluster \notin freed
      BY <1>1, <1>2, <2>8, UsedWhole
    <3>2. /\ AllWhole(hd_fat_buffer, freed) /\ AllWhole(disk_fat, disk_freed) /\ BuffersFit
          /\ hd_fat_buffer \in Table
      BY <3>1 DEF FInv, FChains, FTypes
    <3>3. AllWhole(hd_fat_buffer', freed')
      BY <1>1, <2>2, <3>1, <3>2, RemovalKeeps
    <3> QED
      BY <1>4, <3>2, <3>3 DEF BuffersFit
  <2>9. CallsEnd'
    BY <1>4, <2>6 DEF FInv, CallsEnd
  <2> QED
    BY <2>7, <2>8, <2>9 DEF FInv, FChains
<1> QED
  BY <1>1, <1>3, <1>4 DEF rm

(* What a copy does to the table. *)
LEMMA CopyTables ==
    ASSUME FInv, NEW s \in Typed, NEW ns \in Typed, CanCopy(s, ns),
           NEW count, count = Len(Chain(hd_fat_buffer, Old(s).cluster)),
           count <= Cardinality(Free(hd_fat_buffer)),
           NEW table, table = apply_fat(hd_fat_buffer, count)
    PROVE  /\ count \in 1 .. Cardinality(Free(hd_fat_buffer))
           /\ table \in Table
           /\ \A gone : AllWhole(hd_fat_buffer, gone) => AllWhole(table, gone)
           /\ \A c \in NewChain(count) : c \in 0 .. Entries - 1
           /\ ~ (\E c \in NewChain(count) : c % 2 = 1) =>
                 \A k \in 1 .. count : Even(Chosen(hd_fat_buffer, k))
<1>1. PICK f, b : f = Old(s) /\ b = hd_fat_buffer
  OBVIOUS
<1>2. f \in Kin /\ b \in Table
  BY <1>1, CopyIsKin DEF CanCopy, FInv, FTypes
<1>3. f.cluster \in 0 .. Entries - 1
  BY <1>2, KinOf
<1>4. count \in Nat /\ count >= 1
  BY <1>1, <1>2, <1>3, ChainLength
<1>5. PICK size : size = Cardinality(Free(b)) /\ size \in Nat
  BY FreeFinite
<1>6. count \in 1 .. Cardinality(Free(b))
  BY <1>1, <1>4, <1>5
<1>7. table \in Table
  BY <1>1, <1>2, <1>6, ApplyTable
<1>8. \A gone : AllWhole(b, gone) => AllWhole(table, gone)
  BY <1>1, <1>2, <1>6, AllocationKeeps
<1>9. ASSUME NEW k \in 1 .. count
      PROVE  Chosen(b, k) \in 0 .. Entries - 1 /\ Chosen(b, k) \in NewChain(count)
  <2>1. k \in 1 .. Cardinality(Free(b))
    BY <1>1, <1>4, <1>5
  <2> QED
    BY <1>1, <2>1, ChosenCluster DEF NewChain
<1>10. \A c \in NewChain(count) : c \in 0 .. Entries - 1
  BY <1>1, <1>9 DEF NewChain
<1>11. ASSUME ~ \E c \in NewChain(count) : c % 2 = 1, NEW k \in 1 .. count
       PROVE  Even(Chosen(b, k))
  <2>1. PICK c : c = Chosen(b, k) /\ c \in 0 .. Entries - 1 /\ c \in NewChain(count)
    BY <1>9
  <2>2. c % 2 \in {0, 1}
    BY <2>1, OffsetRange
  <2>3. c % 2 = 0
    BY <1>11, <2>1, <2>2
  <2> QED
    BY <2>1, <2>3 DEF Even
<1> QED
  BY <1>1, <1>6, <1>7, <1>8, <1>10, <1>11

LEMMA CopyStep ==
    ASSUME FInv, NEW s \in Typed, NEW ns \in Typed, cp(s, ns) PROVE FInv'
<1>1. PICK f : f = Old(s) /\ f \in Kin /\ New(s, ns) \in Kin
  BY CopyIsKin DEF cp, CanCopy, FInv, FTypes
<1>2. Uses(f) /\ CanCopy(s, ns)
  BY <1>1 DEF cp
<1>3. CASE ~ Ends(hd_fat_buffer, f.cluster)
  BY <1>1, <1>2, <1>3, LoseStep DEF cp
<1>4. CASE Ends(hd_fat_buffer, f.cluster)
  <2>1. PICK count, table :
          /\ count = Len(Chain(hd_fat_buffer, f.cluster))
          /\ table = apply_fat(hd_fat_buffer, count)
    OBVIOUS
  <2>2. /\ count <= Cardinality(Free(hd_fat_buffer))
        /\ odd' = (odd \/ \E c \in NewChain(count) : c % 2 = 1)
        /\ children' = <<New(s, ns)>> \o children
        /\ CopyTable(table)
        /\ UNCHANGED <<freed, fbuf, resets>>
        /\ IF Ends(table, Chosen(hd_fat_buffer, 1))
           THEN Store(New(s, ns)) /\ UNCHANGED mode
           ELSE mode' = "lost" /\ UNCHANGED <<directory, full>>
    BY <1>1, <1>4, <2>1 DEF cp
  <2>3. /\ count \in 1 .. Cardinality(Free(hd_fat_buffer))
        /\ table \in Table
        /\ \A gone : AllWhole(hd_fat_buffer, gone) => AllWhole(table, gone)
        /\ ~ (\E c \in NewChain(count) : c % 2 = 1) =>
                 \A k \in 1 .. count : Even(Chosen(hd_fat_buffer, k))
    BY <1>1, <1>2, <2>1, <2>2, CopyTables
  <2>4. hd_fat_buffer' = table /\ disk_fat' = table /\ disk_freed' = freed /\ freed' = freed
    BY <2>2 DEF CopyTable
  <2>5. children' \in Seq(Kin) /\ Len(children') <= Slots + 1
    <3>1. Prepended(New(s, ns), children, children') /\ children \in Seq(Kin)
      BY <2>2 DEF Prepended, FInv, FTypes
    <3>2. children' \in Seq(Kin) /\ Len(children') = Len(children) + 1
      BY <1>1, <3>1, InFront
    <3>3. Len(children) \in Nat /\ Len(children) <= Slots /\ Slots \in Nat
      BY <1>2, <3>1, FilesAssumption DEF CanCopy
    <3> QED
      BY <3>2, <3>3
  <2>6. directory' \in [1 .. Slots -> Kin \cup {None}] /\ full' \in BOOLEAN
    <3>1. directory \in [1 .. Slots -> Kin \cup {None}] /\ full \in BOOLEAN
      BY DEF FInv, FTypes
    <3>2. CASE UNCHANGED <<directory, full>>
      BY <3>1, <3>2
    <3>3. CASE Store(New(s, ns))
      <4>1. FreeSlots # {} => FirstOf(FreeSlots) \in 1 .. Slots
        BY First1 DEF FreeSlots
      <4> QED
        BY <1>1, <3>1, <3>3, <4>1 DEF Store
    <3> QED
      BY <2>2, <3>2, <3>3
  <2>7. reused' \in BOOLEAN /\ (reused => reused')
    BY <1>2 DEF Uses, FInv, FTypes
  <2>8. odd' \in BOOLEAN /\ mode' \in {"run", "panic", "lost"}
    BY <2>2 DEF FInv, FTypes
  <2>9. FTypes'
    BY <2>2, <2>3, <2>4, <2>5, <2>6, <2>7, <2>8 DEF FInv, FTypes
  <2>10. ASSUME ~ reused'
         PROVE  AllWhole(hd_fat_buffer', freed') /\ AllWhole(disk_fat', disk_freed') /\ BuffersFit'
    <3>1. AllWhole(hd_fat_buffer, freed) /\ BuffersFit
      BY <2>7, <2>10 DEF FInv, FChains
    <3>2. AllWhole(table, freed)
      BY <2>3, <3>1
    <3> QED
      BY <2>2, <2>4, <3>1, <3>2 DEF BuffersFit
  <2>11. CallsEnd'
    <3>1. CASE Ends(table, Chosen(hd_fat_buffer, 1))
      BY <2>2, <2>7, <3>1 DEF FInv, CallsEnd
    <3>2. CASE ~ Ends(table, Chosen(hd_fat_buffer, 1))
      <4>1. ~ \A k \in 1 .. count : Even(Chosen(hd_fat_buffer, k))
        BY <2>1, <2>3, <3>2, ApplyChain DEF FInv, FTypes
      <4>2. odd'
        BY <2>2, <2>3, <4>1
      <4> QED
        BY <4>2 DEF CallsEnd
    <3> QED
      BY <3>1, <3>2
  <2> QED
    BY <2>9, <2>10, <2>11 DEF FInv, FChains
<1> QED
  BY <1>3, <1>4

(* A call that changes one buffer. *)
LEMMA OneBuffer ==
    ASSUME FTypes, NEW i \in 0 .. FBUFFER_MAX - 1, NEW r, IsBuffer(r),
           fbuf' = [fbuf EXCEPT ![i] = r]
    PROVE  /\ fbuf' = [j \in 0 .. FBUFFER_MAX - 1 |-> fbuf'[j]]
           /\ \A j \in 0 .. FBUFFER_MAX - 1 : IsBuffer(fbuf'[j])
           /\ fbuf'[i] = r
           /\ \A j \in 0 .. FBUFFER_MAX - 1 : j # i => fbuf'[j] = fbuf[j]
           /\ BuffersFit /\ (r.file # None => DOMAIN r.buffer = 1 .. r.file.length)
                => BuffersFit'
<1>1. /\ fbuf = [j \in 0 .. FBUFFER_MAX - 1 |-> fbuf[j]]
      /\ \A j \in 0 .. FBUFFER_MAX - 1 : IsBuffer(fbuf[j])
  BY DEF FTypes
<1>2. fbuf' = [j \in 0 .. FBUFFER_MAX - 1 |-> IF j = i THEN r ELSE fbuf[j]]
  BY <1>1
<1>3. \A j \in 0 .. FBUFFER_MAX - 1 : fbuf'[j] = IF j = i THEN r ELSE fbuf[j]
  BY <1>2
<1>4. fbuf' = [j \in 0 .. FBUFFER_MAX - 1 |-> fbuf'[j]]
  BY <1>2
<1>5. ASSUME BuffersFit, r.file # None => DOMAIN r.buffer = 1 .. r.file.length
      PROVE  BuffersFit'
  BY <1>3, <1>5 DEF BuffersFit
<1> QED
  BY <1>1, <1>3, <1>4, <1>5

LEMMA BufferFields ==
    ASSUME NEW r, IsBuffer(r), NEW p
    PROVE  [r EXCEPT !.ptr = p] = [file |-> r.file, ptr |-> p, buffer |-> r.buffer]
<1>1. PICK f, q, c : r = [file |-> f, ptr |-> q, buffer |-> c]
  BY DEF IsBuffer
<1> QED
  BY <1>1

(* A call that changes the position in a buffer, or also the bytes in it. *)
LEMMA MoveStep ==
    ASSUME FInv, NEW i \in 0 .. FBUFFER_MAX - 1, NEW p \in Nat, NEW c,
           DOMAIN c = DOMAIN fbuf[i].buffer,
           fbuf' = [fbuf EXCEPT ![i] = [file |-> fbuf[i].file, ptr |-> p, buffer |-> c]],
           mode' \in {mode, "panic"}, UNCHANGED <<files, reused, resets>>
    PROVE  FInv'
<1>1. PICK r : r = [file |-> fbuf[i].file, ptr |-> p, buffer |-> c]
  OBVIOUS
<1>2. IsBuffer(fbuf[i])
  BY DEF FInv, FTypes
<1>3. IsBuffer(r) /\ r.file = fbuf[i].file /\ r.buffer = c
  BY <1>1, <1>2 DEF IsBuffer
<1>4. BuffersFit => BuffersFit'
  <2>1. BuffersFit => (r.file # None => DOMAIN r.buffer = 1 .. r.file.length)
    BY <1>3 DEF BuffersFit
  <2> QED
    BY <1>1, <1>3, <2>1, OneBuffer DEF FInv
<1>5. /\ fbuf' = [j \in 0 .. FBUFFER_MAX - 1 |-> fbuf'[j]]
      /\ \A j \in 0 .. FBUFFER_MAX - 1 : IsBuffer(fbuf'[j])
  BY <1>1, <1>3, OneBuffer DEF FInv
<1>6. FTypes'
  BY <1>5 DEF FInv, FTypes, files
<1>7. FChains'
  BY <1>4 DEF FInv, FChains, AllWhole, files
<1>8. CallsEnd'
  BY DEF FInv, CallsEnd, files
<1> QED
  BY <1>6, <1>7, <1>8 DEF FInv

LEMMA PutStep ==
    ASSUME FInv, NEW i \in DOMAIN fbuf, NEW byte, fputch(i, byte) PROVE FInv'
<1>1. i \in 0 .. FBUFFER_MAX - 1
  BY DEF FInv, FTypes
<1>2. CASE ~ IsOpen(i)
  BY <1>2, PanicStep DEF fputch
<1>3. CASE IsOpen(i)
  <2>1. PICK r : r = fbuf[i] /\ IsBuffer(r)
    BY <1>1 DEF FInv, FTypes
  <2>2. PICK c : c = [k \in DOMAIN r.buffer |-> IF k = r.ptr + 1 THEN byte ELSE r.buffer[k]]
    OBVIOUS
  <2>3. fbuf' = [fbuf EXCEPT ![i] = [file |-> r.file, ptr |-> r.ptr + 1, buffer |-> c]]
    <3>1. PICK f, q, u : r = [file |-> f, ptr |-> q, buffer |-> u]
      BY <2>1 DEF IsBuffer
    <3>2. fbuf' = [fbuf EXCEPT ![i].ptr = @ + 1,
                               ![i].buffer = [k \in DOMAIN @ |->
                                                IF k = fbuf[i].ptr + 1 THEN byte ELSE @[k]]]
      BY <1>3 DEF fputch
    <3>3. fbuf' = [fbuf EXCEPT ![i] = [[r EXCEPT !.ptr = r.ptr + 1] EXCEPT !.buffer = c]]
      BY <2>1, <2>2, <3>2
    <3>4. [[r EXCEPT !.ptr = r.ptr + 1] EXCEPT !.buffer = c]
            = [file |-> r.file, ptr |-> r.ptr + 1, buffer |-> c]
      <4>1. PICK p : p = r.ptr + 1
        OBVIOUS
      <4>2. [r EXCEPT !.ptr = p] = [file |-> r.file, ptr |-> p, buffer |-> r.buffer]
        BY <2>1, BufferFields
      <4>3. [[file |-> r.file, ptr |-> p, buffer |-> r.buffer] EXCEPT !.buffer = c]
              = [file |-> r.file, ptr |-> p, buffer |-> c]
        OBVIOUS
      <4> QED
        BY <4>1, <4>2, <4>3
    <3> QED
      BY <3>3, <3>4
  <2>4. DOMAIN c = DOMAIN r.buffer /\ r.ptr + 1 \in Nat
    BY <2>1, <2>2 DEF IsBuffer
  <2>5. mode' \in {mode, "panic"} /\ UNCHANGED <<files, reused, resets>>
    BY <1>3 DEF fputch
  <2> QED
    BY <1>1, <2>1, <2>3, <2>4, <2>5, MoveStep
<1> QED
  BY <1>2, <1>3

LEMMA GetStep ==
    ASSUME FInv, NEW i \in DOMAIN fbuf, fgetch(i) PROVE FInv'
<1>1. i \in 0 .. FBUFFER_MAX - 1
  BY DEF FInv, FTypes
<1>2. CASE ~ IsOpen(i)
  BY <1>2, PanicStep DEF fgetch
<1>3. CASE IsOpen(i)
  <2>1. PICK r : r = fbuf[i] /\ IsBuffer(r)
    BY <1>1 DEF FInv, FTypes
  <2>2. fbuf' = [fbuf EXCEPT ![i] = [r EXCEPT !.ptr = r.ptr + 1]]
    BY <1>3, <2>1 DEF fgetch
  <2>3. fbuf' = [fbuf EXCEPT ![i] = [file |-> r.file, ptr |-> r.ptr + 1, buffer |-> r.buffer]]
    BY <2>1, <2>2, BufferFields
  <2>4. r.ptr + 1 \in Nat
    BY <2>1 DEF IsBuffer
  <2>5. mode' \in {mode, "panic"} /\ UNCHANGED <<files, reused, resets>>
    BY <1>3 DEF fgetch
  <2> QED
    BY <1>1, <2>1, <2>3, <2>4, <2>5, MoveStep
<1> QED
  BY <1>2, <1>3

LEMMA SeekStep ==
    ASSUME FInv, NEW i \in DOMAIN fbuf, NEW pos \in 0 .. MaxPtr, fseek(i, pos) PROVE FInv'
<1>1. i \in 0 .. FBUFFER_MAX - 1
  BY DEF FInv, FTypes
<1>2. CASE ~ IsOpen(i) \/ pos > fbuf[i].file.length
  BY <1>2, PanicStep DEF fseek
<1>3. CASE ~ (~ IsOpen(i) \/ pos > fbuf[i].file.length)
  <2>1. PICK r : r = fbuf[i] /\ IsBuffer(r)
    BY <1>1 DEF FInv, FTypes
  <2>2. fbuf' = [fbuf EXCEPT ![i] = [r EXCEPT !.ptr = pos]]
    BY <1>3, <2>1 DEF fseek
  <2>3. fbuf' = [fbuf EXCEPT ![i] = [file |-> r.file, ptr |-> pos, buffer |-> r.buffer]]
    BY <2>1, <2>2, BufferFields
  <2>4. pos \in Nat
    BY FilesAssumption
  <2>5. mode' \in {mode, "panic"} /\ UNCHANGED <<files, reused, resets>>
    BY <1>3 DEF fseek
  <2> QED
    BY <1>1, <2>1, <2>3, <2>4, <2>5, MoveStep
<1> QED
  BY <1>2, <1>3

(* fopen takes the lowest buffer that is free. *)
LEMMA FreeBuffer ==
    ASSUME FTypes, NEW i, ~ \A j \in DOMAIN fbuf : IsOpen(j),
           i = CHOOSE j \in DOMAIN fbuf : ~ IsOpen(j) /\ \A k \in 0 .. j - 1 : IsOpen(k)
    PROVE  i \in 0 .. FBUFFER_MAX - 1 /\ ~ IsOpen(i)
<1>1. DOMAIN fbuf = 0 .. FBUFFER_MAX - 1 /\ FBUFFER_MAX \in Nat
  BY FilesAssumption DEF FTypes
<1>2. PICK S : S = {j \in 0 .. FBUFFER_MAX - 1 : ~ IsOpen(j)}
  OBVIOUS
<1>3. S \in SUBSET Nat /\ S # {}
  BY <1>1, <1>2
<1>4. PICK m \in S : \A k \in S : m <= k
  BY <1>3, LeastNumber
<1>5. m \in 0 .. FBUFFER_MAX - 1 /\ ~ IsOpen(m)
  BY <1>2, <1>4
<1>6. ASSUME NEW k \in 0 .. m - 1 PROVE IsOpen(k)
  <2>1. k \in 0 .. FBUFFER_MAX - 1 /\ ~ (m <= k)
    BY <1>1, <1>5
  <2> QED
    BY <1>2, <1>4, <2>1
<1> QED
  BY <1>1, <1>5, <1>6

LEMMA OpenStep ==
    ASSUME FInv, NEW s \in Typed, fopen(s) PROVE FInv'
<1>1. CASE Found(s) = {} \/ \A j \in DOMAIN fbuf : IsOpen(j)
  BY <1>1, PanicStep DEF fopen
<1>2. CASE ~ (Found(s) = {} \/ \A j \in DOMAIN fbuf : IsOpen(j))
  <2>1. PICK f, i : /\ f = children[find_file(s)]
                    /\ i = CHOOSE j \in DOMAIN fbuf :
                              ~ IsOpen(j) /\ \A k \in 0 .. j - 1 : IsOpen(k)
    OBVIOUS
  <2>2. f \in Kin
    BY <1>2, <2>1, Found1 DEF FInv, FTypes
  <2>3. i \in 0 .. FBUFFER_MAX - 1
    BY <1>2, <2>1, FreeBuffer DEF FInv
  <2>4. /\ Uses(f)
        /\ \/ ~ Ends(hd_fat_buffer, f.cluster) /\ LoseControl
           \/ /\ Ends(hd_fat_buffer, f.cluster)
              /\ fbuf' = [fbuf EXCEPT ![i] =
                   [file |-> f, ptr |-> 0, buffer |-> read_hd_fat(hd_fat_buffer, f.cluster)]]
              /\ UNCHANGED <<mode, files, resets>>
    BY <1>2, <2>1 DEF fopen
  <2>5. CASE ~ Ends(hd_fat_buffer, f.cluster) /\ LoseControl
    BY <2>2, <2>4, <2>5, LoseStep
  <2>6. CASE /\ Ends(hd_fat_buffer, f.cluster)
             /\ fbuf' = [fbuf EXCEPT ![i] =
                  [file |-> f, ptr |-> 0, buffer |-> read_hd_fat(hd_fat_buffer, f.cluster)]]
             /\ UNCHANGED <<mode, files, resets>>
    <3>1. PICK r : r = [file |-> f, ptr |-> 0,
                        buffer |-> read_hd_fat(hd_fat_buffer, f.cluster)]
      OBVIOUS
    <3>2. IsBuffer(r) /\ r.file = f
      BY <2>2, <3>1 DEF IsBuffer
    <3>3. /\ fbuf' = [j \in 0 .. FBUFFER_MAX - 1 |-> fbuf'[j]]
          /\ \A j \in 0 .. FBUFFER_MAX - 1 : IsBuffer(fbuf'[j])
      BY <2>3, <2>6, <3>1, <3>2, OneBuffer DEF FInv
    <3>4. reused' \in BOOLEAN /\ (reused => reused')
      BY <2>4 DEF Uses, FInv, FTypes
    <3>5. FTypes'
      BY <2>6, <3>3, <3>4 DEF FInv, FTypes, files
    <3>6. ASSUME ~ reused' PROVE FChains'
      <4>1. Chain(hd_fat_buffer, f.cluster) = [k \in 1 .. f.length |-> f.cluster + k - 1]
        BY <2>2, <2>4, <3>6, UsedWhole
      <4>2. DOMAIN r.buffer = 1 .. r.file.length
        BY <3>1, <3>2, <4>1 DEF read_hd_fat
      <4>3. /\ AllWhole(hd_fat_buffer, freed) /\ AllWhole(disk_fat, disk_freed)
            /\ BuffersFit
        BY <3>4, <3>6 DEF FInv, FChains
      <4>4. BuffersFit'
        BY <2>3, <2>6, <3>1, <3>2, <4>2, <4>3, OneBuffer DEF FInv
      <4> QED
        BY <2>6, <4>3, <4>4 DEF FChains, AllWhole, files
    <3>7. CallsEnd'
      BY <2>6, <3>4 DEF FInv, CallsEnd, files
    <3>8. reused' => FChains'
      BY DEF FChains
    <3> QED
      BY <3>5, <3>6, <3>7, <3>8 DEF FInv
  <2> QED
    BY <2>4, <2>5, <2>6
<1> QED
  BY <1>1, <1>2

LEMMA CloseStep ==
    ASSUME FInv, NEW i \in DOMAIN fbuf, fclose(i) PROVE FInv'
<1>1. i \in 0 .. FBUFFER_MAX - 1
  BY DEF FInv, FTypes
<1>2. CASE ~ IsOpen(i)
  BY <1>2, PanicStep DEF fclose
<1>3. CASE IsOpen(i)
  <2>1. PICK f : f = fbuf[i].file /\ f \in Kin
    BY <1>1, <1>3 DEF IsOpen, IsBuffer, FInv, FTypes
  <2>2. /\ Uses(f)
        /\ \/ ~ Ends(hd_fat_buffer, f.cluster) /\ LoseControl
           \/ /\ fbuf' = [fbuf EXCEPT ![i] = Closed]
              /\ UNCHANGED <<mode, hd_fat_buffer, disk_fat, directory, children, freed,
                             disk_freed, odd, full, resets>>
    BY <1>3, <2>1 DEF fclose
  <2>3. CASE ~ Ends(hd_fat_buffer, f.cluster) /\ LoseControl
    BY <2>1, <2>2, <2>3, LoseStep
  <2>4. CASE /\ fbuf' = [fbuf EXCEPT ![i] = Closed]
             /\ UNCHANGED <<mode, hd_fat_buffer, disk_fat, directory, children, freed,
                            disk_freed, odd, full, resets>>
    <3>1. IsBuffer(Closed) /\ Closed.file = None
      BY DEF IsBuffer, Closed
    <3>2. /\ fbuf' = [j \in 0 .. FBUFFER_MAX - 1 |-> fbuf'[j]]
          /\ \A j \in 0 .. FBUFFER_MAX - 1 : IsBuffer(fbuf'[j])
          /\ BuffersFit => BuffersFit'
      BY <1>1, <2>4, <3>1, OneBuffer DEF FInv
    <3>3. reused' \in BOOLEAN /\ (reused => reused')
      BY <2>2 DEF Uses, FInv, FTypes
    <3>4. FTypes'
      BY <2>4, <3>2, <3>3 DEF FInv, FTypes
    <3>5. FChains'
      BY <2>4, <3>2, <3>3 DEF FInv, FChains, AllWhole
    <3>6. CallsEnd'
      BY <2>4, <3>3 DEF FInv, CallsEnd
    <3> QED
      BY <3>4, <3>5, <3>6 DEF FInv
  <2> QED
    BY <2>2, <2>3, <2>4
<1> QED
  BY <1>2, <1>3

(* What a restart finds. *)
LEMMA StartTypes ==
    ASSUME FTypes, InitFs
    PROVE  /\ mode' = "run"
           /\ directory' = directory
           /\ children' \in Seq(Kin) /\ Len(children') <= Slots + 1
           /\ fbuf' = [j \in 0 .. FBUFFER_MAX - 1 |-> fbuf'[j]]
           /\ \A j \in 0 .. FBUFFER_MAX - 1 : IsBuffer(fbuf'[j])
           /\ full' \in BOOLEAN
           /\ BuffersFit'
<1>1. children' \in Seq(Kin) /\ Len(children') <= Slots
  BY ScanCounts DEF InitFs, FTypes
<1>2. Len(children') <= Slots + 1
  <2>1. Len(children') \in Nat /\ Slots \in Nat
    BY <1>1, FilesAssumption
  <2> QED
    BY <1>1, <2>1
<1>3. IsBuffer(Closed) /\ Closed.file = None
  BY DEF IsBuffer, Closed
<1>4. fbuf' = [j \in 0 .. FBUFFER_MAX - 1 |-> Closed]
  BY DEF InitFs, FTypes
<1> QED
  BY <1>1, <1>2, <1>3, <1>4 DEF InitFs, BuffersFit

LEMMA RestartStep == ASSUME FInv, restart PROVE FInv'
<1>1. InitFs /\ FTypes
  BY DEF restart, FInv
<1>2. /\ hd_fat_buffer' = disk_fat /\ disk_fat' = disk_fat
      /\ freed' = disk_freed /\ disk_freed' = disk_freed
      /\ UNCHANGED <<odd, reused>>
  BY DEF restart
<1>3. FTypes'
  BY <1>1, <1>2, StartTypes DEF FTypes
<1>4. FChains'
  BY <1>1, <1>2, StartTypes DEF FInv, FChains, AllWhole
<1>5. CallsEnd'
  BY <1>1, StartTypes DEF CallsEnd
<1> QED
  BY <1>3, <1>4, <1>5 DEF FInv

LEMMA RestartInCopyStep ==
    ASSUME FInv, NEW s \in Typed, NEW ns \in Typed, RestartInCopy(s, ns) PROVE FInv'
<1>1. InitFs /\ FTypes /\ CanCopy(s, ns) /\ Uses(Old(s)) /\ freed' = freed
  BY DEF RestartInCopy, FInv
<1>2. PICK count, table :
        /\ count = Len(Chain(hd_fat_buffer, Old(s).cluster))
        /\ table = apply_fat(hd_fat_buffer, count)
  OBVIOUS
<1>3. /\ count <= Cardinality(Free(hd_fat_buffer))
      /\ odd' = (odd \/ \E c \in NewChain(count) : c % 2 = 1)
      /\ CopyTable(table)
  BY <1>2 DEF RestartInCopy
<1>4. table \in Table /\ \A gone : AllWhole(hd_fat_buffer, gone) => AllWhole(table, gone)
  BY <1>1, <1>2, <1>3, CopyTables
<1>5. hd_fat_buffer' = table /\ disk_fat' = table /\ disk_freed' = freed
  BY <1>3 DEF CopyTable
<1>6. reused' \in BOOLEAN /\ (reused => reused') /\ odd' \in BOOLEAN
  BY <1>1, <1>3 DEF Uses, FTypes
<1>7. FTypes'
  BY <1>1, <1>4, <1>5, <1>6, StartTypes DEF FTypes
<1>8. ASSUME ~ reused' PROVE FChains'
  <2>1. AllWhole(table, freed)
    BY <1>4, <1>6, <1>8 DEF FInv, FChains
  <2>2. AllWhole(hd_fat_buffer', freed') /\ AllWhole(disk_fat', disk_freed')
    BY <1>1, <1>5, <2>1
  <2> QED
    BY <1>1, <2>2, StartTypes DEF FChains
<1>9. reused' => FChains'
  BY DEF FChains
<1>10. CallsEnd'
  BY <1>1, StartTypes DEF CallsEnd
<1> QED
  BY <1>7, <1>8, <1>9, <1>10 DEF FInv

(* Every step is one of these, or changes nothing. *)
LEMMA SomeAction ==
    ASSUME [Next]_vars
    PROVE  \/ mode = "run" /\ \E s \in Typed : read(s) \/ rm(s) \/ fopen(s)
           \/ mode = "run" /\ \E s, ns \in Typed : cp(s, ns) \/ RestartInCopy(s, ns)
           \/ mode = "run" /\ \E i \in DOMAIN fbuf :
                                     \/ fclose(i) \/ fgetch(i)
                                     \/ \E byte \in Written : fputch(i, byte)
                                     \/ \E pos \in 0 .. MaxPtr : fseek(i, pos)
           \/ restart
           \/ UNCHANGED vars
  BY DEF Next, Call

LEMMA KeepsFInv == FInv /\ [Next]_vars => FInv'
<1> SUFFICES ASSUME FInv, [Next]_vars PROVE FInv'
  OBVIOUS
<1>1. ASSUME NEW s \in Typed, read(s) \/ rm(s) \/ fopen(s) PROVE FInv'
  BY <1>1, ReadStep, RemoveStep, OpenStep
<1>2. ASSUME NEW s \in Typed, NEW ns \in Typed, cp(s, ns) \/ RestartInCopy(s, ns) PROVE FInv'
  BY <1>2, CopyStep, RestartInCopyStep
<1>3. ASSUME NEW i \in DOMAIN fbuf, fclose(i) \/ fgetch(i) PROVE FInv'
  BY <1>3, CloseStep, GetStep
<1>4. ASSUME NEW i \in DOMAIN fbuf, NEW byte \in Written, fputch(i, byte) PROVE FInv'
  BY <1>4, PutStep
<1>5. ASSUME NEW i \in DOMAIN fbuf, NEW pos \in 0 .. MaxPtr, fseek(i, pos) PROVE FInv'
  BY <1>5, SeekStep
<1>6. CASE restart
  BY <1>6, RestartStep
<1>7. CASE UNCHANGED vars
  BY <1>7 DEF FInv, FTypes, FChains, AllWhole, BuffersFit, CallsEnd, vars, files
<1> QED
  BY <1>1, <1>2, <1>3, <1>4, <1>5, <1>6, <1>7, SomeAction

-----------------------------------------------------------------------------
(* The list in memory mirrors the directory. *)
Mirror(list, dir, more) ==
    \A n \in Name :
        /\ Cardinality(Stored(dir, n)) <= Cardinality(Named(list, n))
        /\ ~ more => Cardinality(Stored(dir, n)) = Cardinality(Named(list, n))

LEMMA MirrorIs == TreeMirrorsDirectory <=> (mode = "run" => Mirror(children, directory, full))
  BY DEF TreeMirrorsDirectory, Mirror, Named, Stored

LEMMA MirrorIsThen ==
    TreeMirrorsDirectory' <=> (mode' = "run" => Mirror(children', directory', full'))
  BY DEF TreeMirrorsDirectory, Mirror, Named, Stored

LEMMA RemoveMirrors ==
    ASSUME FInv, Mirror(children, directory, full), NEW s \in Typed, rm(s), mode' = "run"
    PROVE  Mirror(children', directory', full')
<1>1. PICK i, f : i = find_file(s) /\ f = children[i] /\ i \in 1 .. Len(children) /\ f \in Kin
  BY Found1 DEF rm, FInv, FTypes
<1>2. SlotsOf(f) # {} /\ delete_file(i) /\ full' = full
  BY <1>1 DEF rm, LoseControl
<1>3. PICK j : /\ j \in 1 .. Slots /\ directory[j].filename = f.filename
               /\ directory' = [directory EXCEPT ![j] = None]
  <2>1. FirstOf(SlotsOf(f)) \in SlotsOf(f)
    BY <1>2, First1 DEF SlotsOf
  <2> QED
    BY <1>1, <1>2, <2>1 DEF SlotsOf, delete_file
<1>4. children \in Seq(Kin) /\ children' = RemoveAt(children, i)
  BY <1>2 DEF delete_file, FInv, FTypes
<1>5. children' \in Seq(Kin)
  BY <1>1, <1>4, TakeOut
<1>6. ASSUME NEW n \in Name
      PROVE  /\ Cardinality(Stored(directory', n)) <= Cardinality(Named(children', n))
             /\ ~ full' => Cardinality(Stored(directory', n)) = Cardinality(Named(children', n))
  <2>1. Cardinality(Named(children, n)) =
          Cardinality(Named(children', n)) + (IF f.filename = n THEN 1 ELSE 0)
    <3>1. Gained(children, children', children[i], n)
      BY <1>1, <1>4, CountTakeOut, Zenon
    <3> QED
      BY <1>1, <3>1 DEF Gained
  <2>2. Cardinality(Stored(directory', n)) + (IF f.filename = n THEN 1 ELSE 0)
          = Cardinality(Stored(directory, n)) + (IF None.filename = n THEN 1 ELSE 0)
    <3>1. directory \in [1 .. Slots -> Kin \cup {None}]
      BY DEF FInv, FTypes
    <3>2. Cardinality(Stored(directory', n)) + (IF directory[j].filename = n THEN 1 ELSE 0)
            = Cardinality(Stored(directory, n)) + (IF None.filename = n THEN 1 ELSE 0)
      <4>1. PICK e : e = None /\ e \in Kin \cup {None}
        OBVIOUS
      <4>2. Replaced(directory, j, e, directory')
        BY <1>3, <4>1 DEF Replaced
      <4>3. Balanced(directory, directory', directory[j], e, n)
        BY <1>3, <3>1, <4>1, <4>2, CountPut, Zenon
      <4> QED
        BY <4>1, <4>3 DEF Balanced
    <3> QED
      BY <1>3, <3>2
  <2>3. None.filename # n
    BY NoName
  <2>4. PICK a, b, c, d : /\ a = Cardinality(Stored(directory, n)) /\ a \in Nat
                          /\ b = Cardinality(Named(children, n)) /\ b \in Nat
                          /\ c = Cardinality(Stored(directory', n)) /\ c \in Nat
                          /\ d = Cardinality(Named(children', n)) /\ d \in Nat
    BY <1>4, <1>5, StoredFinite, NamedFinite
  <2>5. a <= b /\ (~ full => a = b)
    BY <2>4 DEF Mirror
  <2>6. CASE f.filename = n
    BY <1>2, <2>1, <2>2, <2>3, <2>4, <2>5, <2>6
  <2>7. CASE f.filename # n
    BY <1>2, <2>1, <2>2, <2>3, <2>4, <2>5, <2>7
  <2> QED
    BY <2>6, <2>7
<1> QED
  BY <1>6 DEF Mirror

LEMMA CopyMirrors ==
    ASSUME FInv, Mirror(children, directory, full), NEW s \in Typed, NEW ns \in Typed,
           cp(s, ns), mode' = "run"
    PROVE  Mirror(children', directory', full')
<1>1. PICK e : e = New(s, ns) /\ e \in Kin
  BY CopyIsKin DEF cp, CanCopy, FInv, FTypes
<1>2. children' = <<e>> \o children /\ Store(e)
  BY <1>1 DEF cp, LoseControl
<1>3. children \in Seq(Kin) /\ Prepended(e, children, children')
  BY <1>2 DEF Prepended, FInv, FTypes
<1>4. /\ children' \in Seq(Kin) /\ Len(children') = Len(children) + 1 /\ children'[1] = e
      /\ \A k \in 1 .. Len(children) : children'[k + 1] = children[k]
  BY <1>1, <1>3, InFront
<1>5. ASSUME NEW n \in Name
      PROVE  /\ Cardinality(Stored(directory', n)) <= Cardinality(Named(children', n))
             /\ ~ full' => Cardinality(Stored(directory', n)) = Cardinality(Named(children', n))
  <2>1. Cardinality(Named(children', n)) =
          Cardinality(Named(children, n)) + (IF e.filename = n THEN 1 ELSE 0)
    <3>1. Gained(children', children, e, n)
      BY <1>1, <1>3, CountFront, Zenon
    <3> QED
      BY <3>1 DEF Gained
  <2>2. PICK a, b, c, d : /\ a = Cardinality(Stored(directory, n)) /\ a \in Nat
                          /\ b = Cardinality(Named(children, n)) /\ b \in Nat
                          /\ c = Cardinality(Stored(directory', n)) /\ c \in Nat
                          /\ d = Cardinality(Named(children', n)) /\ d \in Nat
    BY <1>3, <1>4, StoredFinite, NamedFinite
  <2>3. a <= b /\ (~ full => a = b)
    BY <2>2 DEF Mirror
  <2>4. CASE FreeSlots = {}
    <3>1. full' /\ c = a
      BY <1>2, <2>2, <2>4 DEF Store
    <3>2. d = b \/ d = b + 1
      BY <2>1, <2>2
    <3> QED
      BY <2>2, <2>3, <3>1, <3>2
  <2>5. CASE FreeSlots # {}
    <3>1. PICK j : /\ j \in 1 .. Slots /\ directory[j] = None
                   /\ directory' = [directory EXCEPT ![j] = e]
      <4>1. FirstOf(FreeSlots) \in FreeSlots
        BY <2>5, First1 DEF FreeSlots
      <4> QED
        BY <1>2, <2>5, <4>1 DEF Store, FreeSlots
    <3>2. directory \in [1 .. Slots -> Kin \cup {None}] /\ full \in BOOLEAN
      BY DEF FInv, FTypes
    <3>3. Cardinality(Stored(directory', n)) + (IF directory[j].filename = n THEN 1 ELSE 0)
            = Cardinality(Stored(directory, n)) + (IF e.filename = n THEN 1 ELSE 0)
      <4>1. e \in Kin \cup {None} /\ Replaced(directory, j, e, directory')
        BY <1>1, <3>1 DEF Replaced
      <4>2. Balanced(directory, directory', directory[j], e, n)
        BY <3>1, <3>2, <4>1, CountPut, Zenon
      <4> QED
        BY <4>2 DEF Balanced
    <3>4. directory[j].filename # n
      BY <3>1, NoName
    <3>5. full' = full
      BY <1>2, <2>5, <3>2 DEF Store
    <3> QED
      BY <2>1, <2>2, <2>3, <3>3, <3>4, <3>5
  <2> QED
    BY <2>4, <2>5
<1> QED
  BY <1>5 DEF Mirror

LEMMA StartMirrors ==
    ASSUME FInv, InitFs PROVE Mirror(children', directory', full')
<1>1. /\ children' = Scanned(directory) /\ directory' = directory
      /\ directory \in [1 .. Slots -> Kin \cup {None}]
  BY DEF InitFs, FInv, FTypes
<1>2. \A n \in Name : Cardinality(Named(children', n)) = Cardinality(Stored(directory', n))
  BY <1>1, ScanCounts
<1>3. ASSUME NEW n \in Name PROVE Cardinality(Stored(directory', n)) \in Nat
  BY StoredFinite
<1> QED
  BY <1>2, <1>3 DEF Mirror

LEMMA KeepsMirror == FInv /\ TreeMirrorsDirectory /\ [Next]_vars => TreeMirrorsDirectory'
<1> SUFFICES ASSUME FInv, TreeMirrorsDirectory, [Next]_vars, mode' = "run"
             PROVE  Mirror(children', directory', full')
  BY MirrorIsThen
<1>1. CASE mode = "run"
  <2>1. Mirror(children, directory, full)
    BY <1>1, MirrorIs
  <2>2. UNCHANGED <<children, directory, full>> => Mirror(children', directory', full')
    BY <2>1
  <2>3. ASSUME NEW s \in Typed, read(s) \/ fopen(s) PROVE UNCHANGED <<children, directory, full>>
    BY <2>3 DEF read, fopen, LoseControl, Panic, files
  <2>4. ASSUME NEW i \in DOMAIN fbuf, fclose(i) \/ fgetch(i)
        PROVE  UNCHANGED <<children, directory, full>>
    BY <2>4 DEF fclose, fgetch, LoseControl, Panic, files
  <2>5. ASSUME NEW i \in DOMAIN fbuf, NEW byte \in Written, fputch(i, byte)
        PROVE  UNCHANGED <<children, directory, full>>
    BY <2>5 DEF fputch, Panic, files
  <2>6. ASSUME NEW i \in DOMAIN fbuf, NEW pos \in 0 .. MaxPtr, fseek(i, pos)
        PROVE  UNCHANGED <<children, directory, full>>
    BY <2>6 DEF fseek, Panic, files
  <2>7. ASSUME NEW s \in Typed, rm(s) PROVE Mirror(children', directory', full')
    BY <2>1, <2>7, RemoveMirrors
  <2>8. ASSUME NEW s \in Typed, NEW ns \in Typed, cp(s, ns) \/ RestartInCopy(s, ns)
        PROVE  Mirror(children', directory', full')
    BY <2>1, <2>8, CopyMirrors, StartMirrors DEF RestartInCopy
  <2>9. CASE restart
    BY <2>9, StartMirrors DEF restart
  <2>10. CASE UNCHANGED vars
    BY <2>2, <2>10 DEF vars, files
  <2> QED
    BY <2>2, <2>3, <2>4, <2>5, <2>6, <2>7, <2>8, <2>9, <2>10, SomeAction
<1>2. CASE mode # "run"
  <2>1. restart
    BY <1>2, SomeAction DEF vars
  <2> QED
    BY <2>1, StartMirrors DEF restart
<1> QED
  BY <1>1, <1>2

-----------------------------------------------------------------------------
(* The data of a file changes only when a buffer of it is closed. *)
LEMMA UsedIsMonotone == ASSUME FInv, [Next]_vars, ~ reused' PROVE ~ reused
<1> SUFFICES ASSUME reused PROVE FALSE
  OBVIOUS
<1>1. ASSUME NEW f, Uses(f) PROVE FALSE
  BY <1>1 DEF Uses
<1>2. Panic => FALSE
  BY DEF Panic
<1>3. \A s \in Typed : ~ (read(s) \/ rm(s) \/ fopen(s))
  BY <1>1, <1>2 DEF read, rm, fopen
<1>4. \A s, ns \in Typed : ~ (cp(s, ns) \/ RestartInCopy(s, ns))
  BY <1>1 DEF cp, RestartInCopy
<1>5. \A i \in DOMAIN fbuf : ~ (fclose(i) \/ fgetch(i))
  BY <1>1, <1>2 DEF fclose, fgetch
<1>6. \A i \in DOMAIN fbuf : /\ \A byte \in Written : ~ fputch(i, byte)
                             /\ \A pos \in 0 .. MaxPtr : ~ fseek(i, pos)
  BY <1>2 DEF fputch, fseek
<1>7. ~ restart
  BY DEF restart
<1>8. ~ UNCHANGED vars
  BY DEF vars
<1> QED
  BY <1>3, <1>4, <1>5, <1>6, <1>7, <1>8, SomeAction

LEMMA ImageNotFree ==
    ASSUME NEW b, NEW gone, AllWhole(b, gone), NEW f \in ImageFile, f.cluster \notin gone,
           NEW c \in Extent(f)
    PROVE  c \notin Free(b) /\ c \in DataCluster
<1>1. PICK a, l : a = f.cluster /\ l = f.length
  OBVIOUS
<1>2. Fits(a, l) /\ Extent(f) = a .. a + l - 1 /\ Whole(b, a, l) /\ a \in DataCluster
  BY <1>1, ImageFits DEF AllWhole
<1>3. a \in Nat /\ a >= 2 /\ l \in Nat /\ a + l <= Entries /\ Entries \in Nat /\ c \in a .. a + l - 1
  BY <1>2, StepsNat DEF Fits, DataCluster
<1>4. c \in Nat /\ c # 0 /\ c + 1 # 0 /\ c \in 2 .. Entries - 1
  BY <1>3
<1>5. get_next_cluster(b, c) # 0
  BY <1>2, <1>3, <1>4 DEF Whole, EndOfChain
<1> QED
  BY <1>4, <1>5 DEF Free, DataCluster

LEMMA CopyMissesImage ==
    ASSUME FInv, ~ reused, NEW s \in Typed, NEW ns \in Typed, CanCopy(s, ns),
           NEW count, count = Len(Chain(hd_fat_buffer, Old(s).cluster)),
           count <= Cardinality(Free(hd_fat_buffer)),
           NEW table, table = apply_fat(hd_fat_buffer, count),
           ~ \E c \in NewChain(count) : c % 2 = 1,
           NEW f \in ImageFile, f.cluster \notin freed, NEW c \in Extent(f)
    PROVE  Filled(Old(s), table)[c] = data[c]
<1>1. PICK b : b = hd_fat_buffer /\ b \in Table
  BY DEF FInv, FTypes
<1>2. /\ count \in 1 .. Cardinality(Free(b))
      /\ \A k \in 1 .. count : Even(Chosen(b, k))
  BY <1>1, CopyTables
<1>3. PICK chain : /\ chain = Chain(table, Chosen(b, 1))
                   /\ chain = [k \in 1 .. count |-> Chosen(b, k)]
  BY <1>1, <1>2, ApplyChain
<1>4. c \notin Free(b) /\ c \in DataCluster
  BY <1>1, ImageNotFree DEF FInv, FChains
<1>5. ASSUME NEW k \in DOMAIN chain PROVE chain[k] # c
  <2>1. k \in 1 .. Cardinality(Free(b)) /\ chain[k] = Chosen(b, k)
    <3>1. k \in 1 .. count /\ chain[k] = Chosen(b, k)
      BY <1>3
    <3>2. PICK size : size = Cardinality(Free(b)) /\ size \in Nat
      BY FreeFinite
    <3> QED
      BY <1>2, <3>1, <3>2
  <2>2. Chosen(b, k) \in Free(b)
    BY <2>1, ChosenFree
  <2> QED
    BY <1>4, <2>1, <2>2
<1>6. PICK content : content = read_hd_fat(hd_fat_buffer, Old(s).cluster)
  OBVIOUS
<1>7. Filled(Old(s), table) = write_hd_fat(table, Chosen(b, 1), content)
  BY <1>1, <1>6 DEF Filled
<1>8. write_hd_fat(table, Chosen(b, 1), content)[c] = data[c]
  BY <1>3, <1>4, <1>5 DEF write_hd_fat
<1> QED
  BY <1>7, <1>8

LEMMA CloseWrites ==
    ASSUME FInv, ~ reused', NEW i \in DOMAIN fbuf, fclose(i),
           NEW f \in ImageFile, NEW c \in Extent(f), f.cluster \notin freed, data'[c] # data[c]
    PROVE  /\ fbuf[i].file.cluster = f.cluster
           /\ fbuf'[i] = Closed
           /\ data'[c] = fbuf[i].buffer[c - f.cluster + 1]
<1>1. i \in 0 .. FBUFFER_MAX - 1 /\ IsOpen(i)
  BY DEF fclose, Panic, files, FInv, FTypes
<1>2. PICK g, u : g = fbuf[i].file /\ u = fbuf[i].buffer /\ g \in Kin
  BY <1>1 DEF IsOpen, IsBuffer, FInv, FTypes
<1>3. /\ Uses(g)
      /\ data' = write_hd_fat(hd_fat_buffer, g.cluster, u)
      /\ fbuf' = [fbuf EXCEPT ![i] = Closed]
  BY <1>1, <1>2 DEF fclose, LoseControl, files
<1>4. PICK chain, a, l :
        /\ a = g.cluster /\ l = g.length
        /\ chain = Chain(hd_fat_buffer, a) /\ chain = [k \in 1 .. l |-> a + k - 1]
        /\ Fits(a, l) /\ ~ reused
  BY <1>2, <1>3, UsedWhole
<1>5. a \in Nat /\ l \in Nat
  BY <1>4, StepsNat DEF Fits
<1>6. DOMAIN u = 1 .. l
  BY <1>1, <1>2, <1>4 DEF FInv, FChains, BuffersFit, IsOpen
<1>7. c \in DataCluster
  BY <1>4, ImageNotFree DEF FInv, FChains
<1>8. data'[c] = IF \E k \in DOMAIN chain : chain[k] = c
                 THEN LET k == CHOOSE n \in DOMAIN chain : chain[n] = c
                      IN  IF k \in DOMAIN u THEN u[k] ELSE Unknown
                 ELSE data[c]
  BY <1>3, <1>4, <1>7 DEF write_hd_fat
<1>9. PICK k \in 1 .. l : c = a + k - 1
  BY <1>4, <1>8
<1>10. \A n \in DOMAIN chain : chain[n] = c => n = k
  BY <1>4, <1>5, <1>9
<1>11. k \in DOMAIN chain /\ chain[k] = c
  BY <1>4, <1>9
<1>12. (CHOOSE n \in DOMAIN chain : chain[n] = c) = k
  BY <1>10, <1>11
<1>13. data'[c] = u[k]
  BY <1>6, <1>8, <1>9, <1>11, <1>12
<1>14. a = f.cluster
  <2>1. PICK h \in ImageFile : a = h.cluster /\ l = h.length
    BY <1>2, <1>4, KinOf
  <2>2. c \in a .. a + l - 1
    BY <1>5, <1>9
  <2>3. c \in Extent(h)
    BY <2>1, <2>2 DEF Extent
  <2>4. h = f
    BY <2>3, SameCluster
  <2> QED
    BY <2>1, <2>4
<1>15. k = c - a + 1
  BY <1>5, <1>9
<1>16. fbuf'[i] = Closed
  BY <1>3
<1> QED
  BY <1>2, <1>4, <1>13, <1>14, <1>15, <1>16

(* What DataIsKept says of a step. *)
Keeps ==
    ~ reused' /\ ~ odd' =>
        \A f \in ImageFile : \A c \in Extent(f) :
            f.cluster \notin freed /\ data'[c] # data[c] =>
                \E i \in DOMAIN fbuf : /\ fbuf[i].file.cluster = f.cluster
                                       /\ fbuf'[i] = Closed
                                       /\ data'[c] = fbuf[i].buffer[c - f.cluster + 1]

LEMMA KeepsData == FInv /\ [Next]_vars => Keeps
<1> SUFFICES ASSUME FInv, [Next]_vars, ~ reused', ~ odd',
                    NEW f \in ImageFile, NEW c \in Extent(f),
                    f.cluster \notin freed, data'[c] # data[c]
             PROVE  \E i \in DOMAIN fbuf : /\ fbuf[i].file.cluster = f.cluster
                                           /\ fbuf'[i] = Closed
                                           /\ data'[c] = fbuf[i].buffer[c - f.cluster + 1]
  BY DEF Keeps
<1>1. ~ reused /\ data' # data
  BY UsedIsMonotone
<1>2. \A s \in Typed : ~ (read(s) \/ rm(s) \/ fopen(s))
  BY <1>1 DEF read, rm, fopen, LoseControl, Panic, files
<1>3. ASSUME NEW s \in Typed, NEW ns \in Typed, cp(s, ns) \/ RestartInCopy(s, ns)
      PROVE  FALSE
  <2>1. PICK count, table :
          /\ count = Len(Chain(hd_fat_buffer, Old(s).cluster))
          /\ table = apply_fat(hd_fat_buffer, count)
    OBVIOUS
  <2>2. /\ CanCopy(s, ns)
        /\ count <= Cardinality(Free(hd_fat_buffer))
        /\ odd' = (odd \/ \E d \in NewChain(count) : d % 2 = 1)
        /\ data' = Filled(Old(s), table)
    BY <1>1, <1>3, <2>1 DEF cp, RestartInCopy, LoseControl, files
  <2>3. ~ \E d \in NewChain(count) : d % 2 = 1
    BY <2>2
  <2>4. Filled(Old(s), table)[c] = data[c]
    BY <1>1, <2>1, <2>2, <2>3, CopyMissesImage
  <2> QED
    BY <2>2, <2>4
<1>4. \A i \in DOMAIN fbuf : /\ ~ fgetch(i)
                             /\ \A byte \in Written : ~ fputch(i, byte)
                             /\ \A pos \in 0 .. MaxPtr : ~ fseek(i, pos)
  BY <1>1 DEF fgetch, fputch, fseek, Panic, files
<1>5. ~ restart /\ ~ UNCHANGED vars
  BY <1>1 DEF restart, vars, files
<1>6. PICK i \in DOMAIN fbuf : fclose(i)
  BY <1>2, <1>3, <1>4, <1>5, SomeAction
<1> QED
  BY <1>6, CloseWrites

-----------------------------------------------------------------------------
(* The invariant of the file system: what a step needs of the state before. *)
LEMMA FInvariance == Spec => []FInv
<1>1. Init => FInv
  BY InitFInv
<1>2. FInv /\ [Next]_vars => FInv'
  BY KeepsFInv
<1> QED
  BY <1>1, <1>2, PTL DEF Spec

(* What the file system keeps is of its types, for every image: the tables stay
   arrays of bytes, directory, list and buffers hold entries of names and first
   clusters that the program can have, and the list is never more than one
   longer than the directory (fs.c:344-465, fio.c:21-77). *)
THEOREM FilesTypeCorrect == Spec => []TypeOK
<1>1. FInv => TypeOK
  <2> SUFFICES ASSUME FInv PROVE TypeOK
    OBVIOUS
  <2>1. Kin \subseteq Entry
    BY DEF Kin
  <2>2. directory \in [1 .. Slots -> Entry \cup {None}]
    BY <2>1 DEF FInv, FTypes
  <2>3. children \in Seq(Entry)
    BY <2>1 DEF FInv, FTypes
  <2>4. \A i \in DOMAIN fbuf : fbuf[i].file \in Entry \cup {None} /\ fbuf[i].ptr \in Nat
    BY <2>1 DEF FInv, FTypes, IsBuffer
  <2> QED
    BY <2>2, <2>3, <2>4 DEF TypeOK, FInv, FTypes
<1> QED
  BY <1>1, FInvariance, PTL

(* The chain of a file no rm has freed leads through the file's clusters and
   ends, in memory and on the disk, whatever was copied and removed around it
   (hd.c:86-119 store the entries, two of them in three bytes). *)
THEOREM ChainsTheorem == Spec => []ChainsStayWhole
<1>1. ASSUME NEW b \in Table, NEW gone, AllWhole(b, gone),
             NEW f \in ImageFile, f.cluster \notin gone
      PROVE  IsWhole(b, f)
  <2>1. Trail(b, f.cluster) = Row(f.cluster, f.length)
    BY <1>1, ImageFits, WholeTrail DEF AllWhole
  <2> QED
    BY <2>1 DEF IsWhole, Row
<1>2. FInv => ChainsStayWhole
  BY <1>1 DEF FInv, FTypes, FChains, ChainsStayWhole
<1> QED
  BY <1>2, FInvariance, PTL

(* Commands and file calls come to the end of every chain they follow, unless a
   freed chain is used again or a copy got an odd cluster (the loops of
   hd.c:51, 80 and 101). *)
THEOREM CallsEndTheorem == Spec => []CallsEnd
<1>1. FInv => CallsEnd
  BY DEF FInv
<1> QED
  BY <1>1, FInvariance, PTL

(* Through commands, failed or not, and restarts at any point, the list in
   memory holds each name as often as the directory on the disk does, or more
   often once a copy found the directory full (fs.c:344-465). *)
THEOREM MirrorTheorem == Spec => []TreeMirrorsDirectory
<1>1. Init => FInv /\ TreeMirrorsDirectory
  BY InitFInv
<1>2. FInv /\ TreeMirrorsDirectory /\ [Next]_vars => TreeMirrorsDirectory'
  BY KeepsMirror
<1> QED
  BY <1>1, <1>2, FInvariance, PTL DEF Spec

(* The data of a file that was not removed changes only when a buffer of it is
   closed, and then to what the buffer holds: no copy and no other buffer is
   written over it (hd.c:48-84, fio.c:41-48). *)
THEOREM DataTheorem == Spec => DataIsKept
<1>1. FInv /\ [Next]_vars => Keeps
  BY KeepsData
<1>2. [][Keeps]_vars => DataIsKept
  BY DEF Keeps, DataIsKept
<1> QED
  BY <1>1, <1>2, FInvariance, PTL DEF Spec

=============================================================================
