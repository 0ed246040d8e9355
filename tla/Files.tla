------------------------------- MODULE Files --------------------------------
(***************************************************************************)
(* The file system: the tree of entries in memory, the directory and the   *)
(* data on the disk and the table of clusters in both places               *)
(* (kernel/fs/fs.c, kernel/fs/hd.c), and the ten file buffers programs     *)
(* read and write through (kernel/fs/fio.c).                               *)
(*                                                                         *)
(* Commands and file calls come from any program; each is one system call, *)
(* made with interrupts off, so each is one action.  A restart may come    *)
(* between any two of them, and in cp between its writes to the disk.      *)
(* One directory is modelled, the root, a cluster holds one byte, and      *)
(* extensions are blank.  Bounds of the model: enough clusters are free    *)
(* for a copy, and one more entry is in memory than fits in the directory. *)
(***************************************************************************)
EXTENDS Fat12, SequencesExt

CONSTANTS
    Image,         \* the entries on the disk image, in the order of their slots
    Slots,         \* slots of the directory (224)
    Letter,        \* letters of names
    Typed,         \* the names users type
    FBUFFER_MAX,   \* 10
    Written,       \* bytes programs write
    Reset,         \* bound of the model: how many restarts
    MaxPtr         \* bound of the model: how far fgetch goes

Blank == " "
NameLength == 2                         \* 8 in the code
Name  == {n \in [1 .. NameLength -> Letter \cup {Blank}] : n[1] # Blank}

(* strcmp_space: the typed name s names an entry. *)
Matches(name, s) ==
    \A k \in 1 .. NameLength : name[k] = IF k \in DOMAIN s THEN s[k] ELSE Blank

(* copy_file puts the typed name over the old one. *)
Over(name, s) == [k \in 1 .. NameLength |-> IF k \in DOMAIN s THEN s[k] ELSE name[k]]

(* An entry: its name, first cluster and length.  On the image a file lies in
   consecutive clusters, one byte each. *)
Entry == [filename : Name, cluster : 2 .. Entries - 1, length : 1 .. Entries]
None  == [filename |-> <<>>, cluster |-> 0, length |-> 0]
Extent(f) == f.cluster .. f.cluster + f.length - 1

ASSUME FilesAssumption ==
    /\ Typed \subseteq UNION {[1 .. k -> Letter] : k \in 1 .. NameLength}
    /\ Blank \notin Letter
    /\ Slots \in Nat /\ FBUFFER_MAX \in Nat /\ MaxPtr \in Nat
    /\ Image \in Seq(Entry) /\ Len(Image) <= Slots
    /\ \A i, j \in 1 .. Len(Image) :
          /\ Extent(Image[i]) \subseteq 2 .. Entries - 1
          /\ i # j => /\ Image[i].filename # Image[j].filename
                      /\ Extent(Image[i]) \cap Extent(Image[j]) = {}

ImageFile == {Image[i] : i \in 1 .. Len(Image)}
Unknown == "heap"         \* a byte read past the end of a buffer
DataCluster == 2 .. Entries - 1

VARIABLES
    mode,                 \* "run", "panic", or "lost" in an endless loop
    hd_fat_buffer,        \* the table in memory
    disk_fat,             \* the table on the disk
    directory,            \* the slots of the directory on the disk
    children,             \* the list of entries in memory, the newest first
    data,                 \* the data clusters on the disk
    fbuf,                 \* the file buffers
    (* History, to state the properties with: the first clusters of chains that
       were freed, as memory and disk have it; whether a freed chain was used
       again; whether a copy got an odd cluster, or found no slot since the last
       start; the restarts. *)
    freed, disk_freed, reused, odd, full, resets

files  == <<hd_fat_buffer, disk_fat, directory, children, data, freed, disk_freed, odd, full>>
vars   == <<mode, files, fbuf, reused, resets>>

Closed == [file |-> None, ptr |-> 0, buffer |-> <<>>]

(* scan_dir: each slot that is in use goes to the head of the list. *)
Scanned(dir) ==
    LET list[n \in 0 .. Slots] ==
          IF n = 0 THEN <<>>
          ELSE IF dir[n] = None THEN list[n - 1]
          ELSE <<dir[n]>> \o list[n - 1]
    IN  list[Slots]

(* The table on the image: the chain of each file, everything else free; also
   entries 0 and 1, because the image starts as zeroes (Makefile:30). *)
ImageEntry(c) ==
    IF \E f \in ImageFile : {c, c + 1} \subseteq Extent(f) THEN c + 1
    ELSE IF \E f \in ImageFile : c \in Extent(f) THEN EndOfChain
    ELSE 0

ImageTable ==
    [o \in 0 .. 3 * (Entries \div 2) - 1 |->
        LET lower == ImageEntry(2 * (o \div 3))
            upper == ImageEntry(2 * (o \div 3) + 1)
        IN  CASE o % 3 = 0 -> lower % 256
              [] o % 3 = 1 -> (lower \div 256) + 16 * (upper % 16)
              [] o % 3 = 2 -> upper \div 16]

Init ==
    /\ mode = "run"
    /\ hd_fat_buffer = ImageTable
    /\ disk_fat = ImageTable
    /\ directory = [i \in 1 .. Slots |-> IF i <= Len(Image) THEN Image[i] ELSE None]
    /\ children = Scanned(directory)
    /\ data = [c \in DataCluster |-> "image"]
    /\ fbuf = [i \in 0 .. FBUFFER_MAX - 1 |-> Closed]
    /\ freed = {} /\ disk_freed = {} /\ reused = FALSE /\ odd = FALSE /\ full = FALSE
    /\ resets = 0

-----------------------------------------------------------------------------
(* Reading and writing the clusters of a chain.  Clusters 0 and 1 stand for the
   last two sectors of the root directory and have no byte in data: read, they
   give something unknown, written, they matter only to a directory of more
   than 192 entries. *)
read_hd_fat(b, c) ==
    LET chain == Chain(b, c)
    IN  [k \in DOMAIN chain |-> IF chain[k] \in DataCluster THEN data[chain[k]] ELSE Unknown]

FaultyWrite(b, c, content) ==  \* takes the clusters behind c for its chain
    [at \in DataCluster |->
        IF at - c + 1 \in DOMAIN content THEN content[at - c + 1] ELSE data[at]]

write_hd_fat(b, c, content) ==
    LET chain == Chain(b, c)
    IN  [at \in DataCluster |->
            IF \E k \in DOMAIN chain : chain[k] = at
            THEN LET k == CHOOSE n \in DOMAIN chain : chain[n] = at
                 IN  IF k \in DOMAIN content THEN content[k] ELSE Unknown
            ELSE data[at]]

Found(s) == {i \in 1 .. Len(children) : Matches(children[i].filename, s)}
find_file(s) == CHOOSE i \in Found(s) : \A j \in Found(s) : i <= j

(* A system call that follows a chain without an end never returns, and no
   interrupt is taken any more.  What the loop still reads and writes, and what
   is found after switching the machine off, is not modelled. *)
LoseControl == mode' = "lost" /\ UNCHANGED <<files, fbuf, resets>>
Panic == mode' = "panic" /\ UNCHANGED <<files, fbuf, reused, resets>>

Uses(f) == reused' = (reused \/ f.cluster \in freed)

-----------------------------------------------------------------------------
(* The commands *)

(* cat and exec read the whole file. *)
read(s) ==
    /\ Found(s) # {}
    /\ LET f == children[find_file(s)]
       IN  /\ Uses(f)
           /\ ~ Ends(hd_fat_buffer, f.cluster)
    /\ LoseControl

(* The slots delete_file takes for the one of f. *)
SlotsOf(f) == {j \in 1 .. Slots : directory[j].filename = f.filename}
FirstOf(slots) == CHOOSE j \in slots : \A k \in slots : j <= k

FaultyDelete(i) ==  \* goes on after the first match
    /\ hd_fat_buffer' = release_fat(hd_fat_buffer, children[i].cluster)
    /\ freed' = freed \cup {children[i].cluster}
    /\ directory' = [j \in 1 .. Slots |->
                       IF j \in SlotsOf(children[i]) THEN None ELSE directory[j]]
    /\ children' = RemoveAt(children, i)

(* delete_file: the table changes in memory only. *)
delete_file(i) ==
    /\ hd_fat_buffer' = release_fat(hd_fat_buffer, children[i].cluster)
    /\ freed' = freed \cup {children[i].cluster}
    /\ directory' = [directory EXCEPT ![FirstOf(SlotsOf(children[i]))] = None]
    /\ children' = RemoveAt(children, i)

(* An entry that never got a slot stays. *)
rm(s) ==
    /\ Found(s) # {}
    /\ LET i == find_file(s)
           f == children[i]
       IN  /\ SlotsOf(f) # {}
           /\ Uses(f)
           /\ \/ ~ ReleaseEnds(hd_fat_buffer, f.cluster) /\ LoseControl
              \/ /\ ReleaseEnds(hd_fat_buffer, f.cluster)
                 /\ delete_file(i)
                 /\ UNCHANGED <<mode, disk_fat, data, disk_freed, odd, full, fbuf, resets>>

(* cp(s, ns): the new entry goes into the tree, a chain of the same length is
   allocated, written to the disk's table and filled, and the entry, with the
   first cluster of the old one, goes into the first free slot, if there is
   one. *)
CanCopy(s, ns) == Found(s) # {} /\ Found(ns) = {} /\ Len(children) <= Slots
Old(s) == children[find_file(s)]
FaultyNew(s, ns) ==  \* leaves the cluster to be filled in
    [Old(s) EXCEPT !.filename = Over(@, ns), !.cluster = 0]

New(s, ns) == [Old(s) EXCEPT !.filename = Over(@, ns)]
NewChain(count) == {Chosen(hd_fat_buffer, k) : k \in 1 .. count}
FreeSlots == {j \in 1 .. Slots : directory[j] = None}

(* apply_fat ends with flush_fat, which writes the whole table, with every
   chain that was freed before. Its nine sectors are written in one step: the
   entries that are modelled lie in the first of them. *)
CopyTable(table) ==
    /\ hd_fat_buffer' = table
    /\ disk_fat' = table
    /\ disk_freed' = freed

Filled(old, table) ==
    write_hd_fat(table, Chosen(hd_fat_buffer, 1), read_hd_fat(hd_fat_buffer, old.cluster))

Store(f) ==
    /\ directory' = IF FreeSlots = {} THEN directory
                    ELSE [directory EXCEPT ![FirstOf(FreeSlots)] = f]
    /\ full' = (full \/ FreeSlots = {})

cp(s, ns) ==
    /\ CanCopy(s, ns)
    /\ Uses(Old(s))
    /\ IF ~ Ends(hd_fat_buffer, Old(s).cluster) THEN LoseControl
       ELSE LET count == Len(Chain(hd_fat_buffer, Old(s).cluster))
                table == apply_fat(hd_fat_buffer, count)
            IN  /\ count <= Cardinality(Free(hd_fat_buffer))
                /\ odd' = (odd \/ \E c \in NewChain(count) : c % 2 = 1)
                /\ children' = <<New(s, ns)>> \o children
                /\ CopyTable(table)
                /\ data' = Filled(Old(s), table)
                /\ UNCHANGED <<freed, fbuf, resets>>
                /\ IF Ends(table, Chosen(hd_fat_buffer, 1))
                   THEN Store(New(s, ns)) /\ UNCHANGED mode
                   ELSE mode' = "lost" /\ UNCHANGED <<directory, full>>

-----------------------------------------------------------------------------
(* The file calls.  Buffers are shared: i is any of them. *)
IsOpen(i) == fbuf[i].file # None

fopen(s) ==
    IF Found(s) = {} \/ \A i \in DOMAIN fbuf : IsOpen(i) THEN Panic
    ELSE LET f == children[find_file(s)]
             i == CHOOSE j \in DOMAIN fbuf : ~ IsOpen(j) /\ \A k \in 0 .. j - 1 : IsOpen(k)
         IN  /\ Uses(f)
             /\ \/ ~ Ends(hd_fat_buffer, f.cluster) /\ LoseControl
                \/ /\ Ends(hd_fat_buffer, f.cluster)
                   /\ fbuf' = [fbuf EXCEPT ![i] =
                        [file |-> f, ptr |-> 0, buffer |-> read_hd_fat(hd_fat_buffer, f.cluster)]]
                   /\ UNCHANGED <<mode, files, resets>>

fclose(i) ==
    IF ~ IsOpen(i) THEN Panic
    ELSE LET c == fbuf[i].file.cluster
         IN  /\ Uses(fbuf[i].file)
             /\ \/ ~ Ends(hd_fat_buffer, c) /\ LoseControl
                \/ /\ Ends(hd_fat_buffer, c)
                   /\ data' = write_hd_fat(hd_fat_buffer, c, fbuf[i].buffer)
                   /\ fbuf' = [fbuf EXCEPT ![i] = Closed]
                   /\ UNCHANGED <<mode, hd_fat_buffer, disk_fat, directory, children, freed,
                                  disk_freed, odd, full, resets>>

(* The byte is stored before the position is checked. *)
fputch(i, byte) ==
    IF ~ IsOpen(i) THEN Panic
    ELSE /\ fbuf' = [fbuf EXCEPT ![i].ptr = @ + 1,
                                 ![i].buffer = [k \in DOMAIN @ |->
                                                  IF k = fbuf[i].ptr + 1 THEN byte ELSE @[k]]]
         /\ mode' = IF fbuf[i].ptr + 1 > fbuf[i].file.length THEN "panic" ELSE mode
         /\ UNCHANGED <<files, reused, resets>>

fgetch(i) ==
    IF ~ IsOpen(i) THEN Panic
    ELSE /\ fbuf[i].ptr < MaxPtr
         /\ fbuf' = [fbuf EXCEPT ![i].ptr = @ + 1]
         /\ UNCHANGED <<mode, files, reused, resets>>

fseek(i, pos) ==
    IF ~ IsOpen(i) \/ pos > fbuf[i].file.length THEN Panic
    ELSE /\ fbuf' = [fbuf EXCEPT ![i].ptr = pos]
         /\ UNCHANGED <<mode, files, reused, resets>>

-----------------------------------------------------------------------------
(* init_fs after a restart: memory is what the disk holds. *)
InitFs ==
    /\ mode' = "run"
    /\ children' = Scanned(directory)
    /\ fbuf' = [i \in DOMAIN fbuf |-> Closed]
    /\ full' = FALSE
    /\ resets' = resets + 1
    /\ UNCHANGED directory

restart ==
    /\ mode # "lost"
    /\ resets < Reset
    /\ InitFs
    /\ hd_fat_buffer' = disk_fat
    /\ freed' = disk_freed
    /\ UNCHANGED <<disk_fat, data, disk_freed, odd, reused>>

(* The machine goes off when cp has written the table and before it writes the
   directory; not between the nine sectors of the table, see CopyTable. *)
RestartInCopy(s, ns) ==
    /\ resets < Reset
    /\ CanCopy(s, ns)
    /\ Uses(Old(s))
    /\ Ends(hd_fat_buffer, Old(s).cluster)
    /\ LET count == Len(Chain(hd_fat_buffer, Old(s).cluster))
           table == apply_fat(hd_fat_buffer, count)
       IN  /\ count <= Cardinality(Free(hd_fat_buffer))
           /\ odd' = (odd \/ \E c \in NewChain(count) : c % 2 = 1)
           /\ Ends(table, Chosen(hd_fat_buffer, 1))
           /\ CopyTable(table)
           /\ data' \in {data, Filled(Old(s), table)}
    /\ InitFs
    /\ UNCHANGED freed

Call ==
    \/ \E s \in Typed : read(s) \/ rm(s) \/ fopen(s) \/ \E ns \in Typed : cp(s, ns)
    \/ \E i \in DOMAIN fbuf :
          \/ fclose(i) \/ fgetch(i)
          \/ \E byte \in Written : fputch(i, byte)
          \/ \E pos \in 0 .. MaxPtr : fseek(i, pos)

Next ==
    \/ mode = "run" /\ Call
    \/ mode = "run" /\ \E s, ns \in Typed : RestartInCopy(s, ns)
    \/ restart
    \/ mode # "run" /\ UNCHANGED vars      \* for (;;);

Spec == Init /\ [][Next]_vars

-----------------------------------------------------------------------------
(* Properties *)

TypeOK ==
    /\ mode \in {"run", "panic", "lost"}
    /\ hd_fat_buffer \in Table /\ disk_fat \in Table
    /\ directory \in [1 .. Slots -> Entry \cup {None}]
    /\ children \in Seq(Entry) /\ Len(children) <= Slots + 1
    /\ \A i \in DOMAIN fbuf : fbuf[i].file \in Entry \cup {None} /\ fbuf[i].ptr \in Nat
    /\ freed \subseteq DataCluster /\ disk_freed \subseteq DataCluster

IsWhole(b, f) ==
    Trail(b, f.cluster) =
      [k \in 1 .. f.length + 1 |-> IF k <= f.length THEN f.cluster + k - 1 ELSE EndOfChain]

(* The chain of a file is whole as long as no rm has freed it, whatever copies
   are made around it: in memory, and on the disk for the next start.  (Not so
   once a freed chain has been used under a second name of the file.) *)
ChainsStayWhole ==
    ~ reused =>
        \A f \in ImageFile :
            /\ f.cluster \notin freed => IsWhole(hd_fat_buffer, f)
            /\ f.cluster \notin disk_freed => IsWhole(disk_fat, f)

(* Commands and file calls end, unless a freed chain is used again or a copy
   got an odd cluster. *)
CallsEnd == mode = "lost" => reused \/ odd

(* The list in memory and the directory on the disk hold the same names, each
   as often; after a copy found the directory full, memory holds more. *)
TreeMirrorsDirectory ==
    mode = "run" =>
        \A n \in Name :
            LET listed == Cardinality({i \in 1 .. Len(children) : children[i].filename = n})
                stored == Cardinality({j \in 1 .. Slots : directory[j].filename = n})
            IN  stored <= listed /\ (~ full => stored = listed)

(* The data of a file changes only when a buffer that was opened on it is
   closed: no copy and no other file's buffer is written over it. *)
DataIsKept ==
    [][~ reused' /\ ~ odd' =>
        \A f \in ImageFile : \A c \in Extent(f) :
            f.cluster \notin freed /\ data'[c] # data[c] =>
                \E i \in DOMAIN fbuf : /\ fbuf[i].file.cluster = f.cluster
                                       /\ fbuf'[i] = Closed
                                       /\ data'[c] = fbuf[i].buffer[c - f.cluster + 1]]_vars

(* fs.c:456 refuses a copy under a name that exists ("exists!"): no two entries
   have the same name. *)
NamesAreUnique ==
    \A i, j \in 1 .. Len(children) : i # j => children[i].filename # children[j].filename

(* The table is a FAT12 table, as the boot sector says (bootstrap.nasm:33): the
   chain that apply_fat returns to cp consists of the clusters it has taken. *)
CopyOwnsItsChain ==
    [][\A s, ns \in Typed :
        cp(s, ns) /\ disk_fat' # disk_fat =>
            ToSet(Chain(disk_fat', Chosen(hd_fat_buffer, 1))) \subseteq Free(hd_fat_buffer)]_vars
=============================================================================
