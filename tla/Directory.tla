----------------------------- MODULE Directory ------------------------------
(***************************************************************************)
(* The tree of entries scan_dir builds in memory from the directories of   *)
(* the disk, and the commands that read it: cd, tree, ls and the path of   *)
(* the prompt (kernel/fs/fs.c).                                            *)
(*                                                                         *)
(* An image is the kind of each of its entries and the directory each lies *)
(* in; entry 1 is the root and a directory's entries are in the order of   *)
(* their numbers.  A directory other than the root starts with . and ..    *)
(***************************************************************************)
EXTENDS Integers, SequencesExt

CONSTANT MaxEntries   \* bound of the model

ASSUME DirectoryAssumption == MaxEntries \in Nat \ {0}

Root == 1
Image == UNION {{i \in [kind : [1 .. n -> {"file", "dir"}], in : [1 .. n -> 0 .. n]] :
                    /\ i.kind[Root] = "dir" /\ i.in[Root] = 0
                    /\ \A e \in 2 .. n : i.in[e] \in 1 .. e - 1 /\ i.kind[i.in[e]] = "dir"} :
                n \in 1 .. MaxEntries}

EntryOf(image) == DOMAIN image.kind
DirOf(image) == {e \in EntryOf(image) : image.kind[e] = "dir"}

(* A node of the tree: the entry e itself, or one of the links of directory e. *)
Node(e) == <<"", e>>
Dot(e) == <<".", e>>
DotDot(e) == <<"..", e>>
NoNode == <<"", 0>>
NodesOf(image) ==
    {Node(e) : e \in EntryOf(image)} \cup UNION {{Dot(e), DotDot(e)} : e \in DirOf(image) \ {Root}}

IsLink(node) == node[1] # ""
IsDir(image, node) == ~ IsLink(node) /\ image.kind[node[2]] = "dir"

(* scan_dir reads the slots of a directory on the disk, . and .. first, and puts
   each in front of the children read before it. *)
scan_dir(image, d) ==
    LET read[e \in 0 .. Len(image.kind)] ==
          IF e = 0 THEN IF d = Root THEN <<>> ELSE <<DotDot(d), Dot(d)>>
          ELSE IF image.in[e] = d THEN <<Node(e)>> \o read[e - 1] ELSE read[e - 1]
    IN  read[Len(image.kind)]

parent(image, node) ==
    IF IsLink(node) THEN Node(node[2])
    ELSE IF node[2] = Root THEN NoNode ELSE Node(image.in[node[2]])

children(image, node) ==
    IF IsDir(image, node) /\ scan_dir(image, node[2]) # <<>>
    THEN scan_dir(image, node[2])[1] ELSE NoNode

brother(image, node) ==
    IF node = Node(Root) THEN NoNode
    ELSE LET list == scan_dir(image, parent(image, node)[2])
             k == CHOOSE i \in DOMAIN list : list[i] = node
         IN  IF k < Len(list) THEN list[k + 1] ELSE NoNode

FaultyLink(image, node) ==  \* .. is the directory itself too
    Node(node[2])

(* What scan_dir makes . and .. lead to. *)
link(image, node) == IF node[1] = "." THEN Node(node[2]) ELSE parent(image, Node(node[2]))

-----------------------------------------------------------------------------
(* cd: from the current entry to the first of its children among the nodes that
   have the name; a link is followed, anything else is entered, plain files too. *)
FindFile(image, cur, named) ==
    LET list == IF IsDir(image, cur) THEN scan_dir(image, cur[2]) ELSE <<>>
        found == SelectInSeq(list, LAMBDA node : node \in named)
    IN  IF found = 0 THEN NoNode ELSE list[found]

cd(image, cur, found) ==
    IF found = NoNode THEN cur ELSE IF IsLink(found) THEN link(image, found) ELSE found

(* print_path: the entries from below the root to node. *)
print_path(image, node) ==
    LET path[e \in EntryOf(image)] == IF e = Root THEN <<>> ELSE Append(path[image.in[e]], e)
    IN  path[node[2]]

(* Links lie in their directory. *)
Depth(image, node) == Len(print_path(image, node)) + (IF IsLink(node) THEN 1 ELSE 0)

-----------------------------------------------------------------------------
FaultyStep(image, at) ==  \* keeps the depth when it goes up
    IF IsDir(image, at.node)
    THEN [node |-> children(image, at.node), deep |-> at.deep + 1]
    ELSE IF brother(image, at.node) # NoNode
    THEN [at EXCEPT !.node = brother(image, @)]
    ELSE [at EXCEPT !.node = brother(image, parent(image, @))]

(* tree goes down into a directory, along its children, and from the last one
   to the brother of the directory, one level up. *)
TreeStep(image, at) ==
    IF IsDir(image, at.node)
    THEN [node |-> children(image, at.node), deep |-> at.deep + 1]
    ELSE IF brother(image, at.node) # NoNode
    THEN [at EXCEPT !.node = brother(image, @)]
    ELSE [node |-> brother(image, parent(image, at.node)), deep |-> at.deep - 1]

(* What its loop prints from cur, with the depth it indents by, until it has no
   node or is back at cur; cut off after more lines than there are nodes. *)
walk(image, cur) ==
    LET Ends(at) == at.node \in {NoNode, cur}
        line[k \in 1 .. Cardinality(NodesOf(image)) + 1] ==
          IF k = 1 THEN << [node |-> cur, deep |-> -1] >>
          ELSE LET before == line[k - 1]
                   at == TreeStep(image, before[Len(before)])
               IN  IF Len(before) < k - 1 \/ Ends(at) THEN before ELSE Append(before, at)
    IN  line[Cardinality(NodesOf(image)) + 1]

(* The directory it starts from is printed once more before the loop. *)
tree(image, cur) == << [node |-> cur, deep |-> -1] >> \o walk(image, cur)

(* What lies below a directory, in the order of the lists, and how deep. *)
Below(image, d) ==
    LET below[e \in EntryOf(image)] ==
          LET list == scan_dir(image, e)
          IN  <<Node(e)>> \o
              (IF image.kind[e] = "file" THEN <<>>
               ELSE FlattenSeq([k \in DOMAIN list |->
                      IF IsLink(list[k]) THEN <<list[k]>> ELSE below[list[k][2]]]))
        nodes == below[d]
        top == Depth(image, Node(d)) + 1
    IN  [k \in DOMAIN nodes |-> [node |-> nodes[k], deep |-> Depth(image, nodes[k]) - top]]
=============================================================================
