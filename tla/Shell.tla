------------------------------- MODULE Shell --------------------------------
(***************************************************************************)
(* One shell at its prompt (user/programs/shell.c): the line a user edits, *)
(* its echo, and the system call that reads the line again in the kernel   *)
(* (kernel/exec_cmd.c) and may move fs_cur, the one current directory of   *)
(* all shells.  cd changes the state kept here; of the others, those that  *)
(* follow a chain of clusters (Files) may stay in it, or change the disk,  *)
(* which ends what is followed here.                                       *)
(*                                                                         *)
(* A cell of the line is a blank, a comma, an Esc or a whole name or       *)
(* command.                                                                *)
(***************************************************************************)
EXTENDS Directory, Numbers

CONSTANTS CMD_MAX,   \* 128
          Typing,    \* bound of the model: the image on which lines are typed
          Letter,    \* the name of each entry
          Command    \* bound of the model: those of cat, exec, rm and cp that are typed

ASSUME ShellAssumption ==
    /\ CMD_MAX \in Nat \ {0} /\ Typing \in Image
    /\ Command \subseteq {"cat", "exec", "rm", "cp"}

Comma == ","
Esc == "esc"         \* a key like the others, but nothing is shown for it
Nul == "nul"
Unknown == "?"       \* what follows the buffer

(* The entries of a directory have different names, none of them a link's. *)
ASSUME NamesAssumption ==
    /\ Letter \in [1 .. MaxEntries -> STRING]
    /\ \A e \in EntryOf(Typing) \ {Root} :
          /\ Letter[e] \notin {" ", Comma, Esc, ".", "..", Nul, Unknown}
          /\ \A f \in EntryOf(Typing) \ {Root, e} : Letter[e] = Letter[f] => Typing.in[e] # Typing.in[f]

NameOf(node) == IF IsLink(node) THEN node[1] ELSE Letter[node[2]]
Cell == {"cd", " ", Comma, Esc} \cup Command
            \cup {NameOf(node) : node \in NodesOf(Typing) \ {Node(Root)}}
NoBlank == (Cell \cup {Nul, Unknown}) \ {" "}

VARIABLES
    image,     \* the disk
    length,    \* of a file in the listing
    fs_cur,
    cmd, cmd_len,
    shown,     \* the last row: the path of the prompt and what follows it
    garbled,   \* the row is not followed until the next prompt
    mode,      \* "prompt", "edit", "stuck": the system call never returns, or
               \* "changed": it has changed the disk
    moved      \* another shell has moved fs_cur since the prompt (history)

line == <<cmd, cmd_len, shown, garbled>>
svars == <<image, length, fs_cur, line, mode, moved>>

Paths(node) == [k \in DOMAIN print_path(image, node) |-> Letter[print_path(image, node)[k]]]

NoPath == <<Nul>>    \* of a prompt printed while another page was shown
Lost == [path |-> NoPath, text |-> <<>>]

(* Lines are typed on one image; the listings of every image, and of files of
   every length, are looked at without. *)
Init ==
    /\ \/ image = Typing /\ length \in Word
       \/ image \in Image /\ length = 0
    /\ fs_cur = Node(Root)
    /\ cmd = [k \in 0 .. CMD_MAX |-> IF k = CMD_MAX THEN Unknown ELSE Nul] /\ cmd_len = 0
    /\ shown = [path |-> <<>>, text |-> <<>>] /\ garbled = FALSE
    /\ mode = "prompt" /\ moved = FALSE

-----------------------------------------------------------------------------
(* exec_cmd.c *)

(* The first place from i on that holds one of stops, or the end of what is known. *)
Skip(c, i, stops) ==
    CHOOSE j \in i .. CMD_MAX + 1 :
        (j = CMD_MAX + 1 \/ c[j] \in stops) /\ \A k \in i .. j - 1 : c[k] \notin stops

(* The first loop tests the pointer for zero where it means the character:
   it does not see the end of the line. *)
get_next_argv(c, s) ==
    Skip(c, Skip(c, s, {" "}), NoBlank)

(* What find_file finds with the word at s: an entry, or, where the word lies behind
   the buffer, any entry or none. *)
Finds(c, s) ==
    LET end == Skip(c, s, {" ", Nul})
        Known == end <= CMD_MAX /\ \A k \in s .. end : c[k] # Unknown
        named == {node \in NodesOf(image) : end = s + 1 /\ c[s] = NameOf(node)}
    IN  IF Known THEN {FindFile(image, fs_cur, named)}
        ELSE {FindFile(image, fs_cur, {node}) : node \in NodesOf(image)} \cup {NoNode}

(* strncmp: the word at s begins with a command, or is one. *)
Begins(c, s, command) == c[s] = command

FaultyNextCommand(c, at) ==  \* stops at the end of the word
    Skip(c, at, {Comma, " ", Nul})

(* Where the loop over the commands of a line goes on. *)
NextCommand(c, at) == Skip(c, at, {Comma, Nul})

(* The comma is not stepped over: nothing matches there, and the loop stays.
   cat, exec, rm and cp return at once where they find no file; else they may
   stay in its chain, and cp may find the name of its copy taken. *)
exec_cmd(c) ==
    LET at == Skip(c, 0, NoBlank)
        found == Finds(c, get_next_argv(c, at))
        Follows(command) == Begins(c, at, command) /\ found # {NoNode}
    IN  /\ fs_cur' \in IF Begins(c, at, "cd") THEN {cd(image, fs_cur, n) : n \in found}
                       ELSE {fs_cur}
        /\ \/ /\ Begins(c, at, "rm") => NoNode \in found
              /\ mode' = IF c[NextCommand(c, at)] = Nul THEN "prompt" ELSE "stuck"
           \/ /\ \E command \in Command : Follows(command)
              /\ mode' = "stuck"
           \/ /\ \E command \in Command \cap {"rm", "cp"} : Follows(command)
              /\ mode' = "changed"

-----------------------------------------------------------------------------
(* shell.c *)

(* The path is printed on the page shown, which may be another shell's. *)
prompt ==
    /\ mode = "prompt" /\ mode' = "edit"
    /\ \E path \in {Paths(fs_cur), NoPath} : shown' = [path |-> path, text |-> <<>>]
    /\ moved' = FALSE /\ garbled' = FALSE
    /\ UNCHANGED <<image, length, fs_cur, cmd, cmd_len>>

Edits == mode = "edit" /\ image = Typing /\ length = 0

(* One character of the row is erased, also for an Esc, which has none there:
   the row then lacks one that is still in the line. *)
backspace ==
    /\ Edits /\ cmd_len > 0
    /\ cmd_len' = cmd_len - 1
    /\ garbled' = (garbled \/ cmd[cmd_len - 1] = Esc)
    /\ shown' = IF garbled' THEN Lost ELSE [shown EXCEPT !.text = Front(@)]
    /\ UNCHANGED <<image, length, fs_cur, cmd, mode, moved>>

Echo(c) ==
    shown' = IF garbled \/ c = Esc THEN shown ELSE [shown EXCEPT !.text = Append(@, c)]

FaultyKey(c) ==  \* echoes the key before it looks at the length
    /\ Edits
    /\ Echo(c)
    /\ IF cmd_len < CMD_MAX
       THEN cmd' = [cmd EXCEPT ![cmd_len] = c] /\ cmd_len' = cmd_len + 1
       ELSE UNCHANGED <<cmd, cmd_len>>
    /\ UNCHANGED <<image, length, fs_cur, garbled, mode, moved>>

key(c) ==
    /\ Edits /\ cmd_len < CMD_MAX
    /\ cmd' = [cmd EXCEPT ![cmd_len] = c]
    /\ cmd_len' = cmd_len + 1
    /\ Echo(c)
    /\ UNCHANGED <<image, length, fs_cur, garbled, mode, moved>>

(* A full line has its end mark in cmd[CMD_MAX]. *)
Ended == [cmd EXCEPT ![cmd_len] = Nul]

newline ==
    /\ Edits
    /\ exec_cmd(Ended)
    /\ cmd' = [Ended EXCEPT ![CMD_MAX] = Unknown]
    /\ cmd_len' = IF mode' = "stuck" THEN cmd_len ELSE 0
    /\ UNCHANGED <<image, length, shown, garbled, moved>>

(* Another shell executes cd. *)
other_cd ==
    /\ mode \in {"prompt", "edit"} /\ length = 0
    /\ \E node \in NodesOf(image) :
          fs_cur' = cd(image, fs_cur, FindFile(image, fs_cur, {node}))
    /\ moved' = TRUE
    /\ UNCHANGED <<image, length, line, mode>>

(* What the commands of another shell print, and the path of its prompt while
   its page is hidden, falls into this row. *)
other_output ==
    /\ Edits /\ ~ garbled
    /\ garbled' = TRUE /\ shown' = Lost
    /\ UNCHANGED <<image, length, fs_cur, cmd, cmd_len, mode, moved>>

Next ==
    \/ prompt \/ backspace \/ newline
    \/ \E c \in Cell : key(c)
    \/ other_cd \/ other_output
    \/ (mode \in {"stuck", "changed"} \/ length # 0) /\ UNCHANGED svars

Spec == Init /\ [][Next]_svars

-----------------------------------------------------------------------------
(* Properties *)

(* place says which cell of the line each of the text shows: all but the Escs,
   in their order. *)
Shows(text, place) ==
    /\ \A i \in DOMAIN text : text[i] = cmd[place[i] - 1]
    /\ \A i, j \in DOMAIN text : i < j => place[i] < place[j]
    /\ {place[i] : i \in DOMAIN text} = {k \in 1 .. cmd_len : cmd[k - 1] # Esc}

(* What a user sees behind the prompt is what the shell will hand to the kernel
   but for the Escs in it, whatever was typed, erased and typed beyond the
   limit, and the prompt that has a path names the current directory until
   another shell changes it.  Nothing is claimed of a row in which an Esc was
   erased or another shell's output stands. *)
LineIsShown ==
    /\ cmd_len \in 0 .. CMD_MAX
    /\ mode = "edit" /\ ~ garbled =>
          /\ \E place \in [DOMAIN shown.text -> 1 .. cmd_len] : Shows(shown.text, place)
          /\ moved \/ shown.path \in {NoPath, Paths(fs_cur)}

(* The first two words of a text stand in i .. j and k .. l. *)
TwoWords(text, i, j, k, l) ==
    /\ i <= j /\ j + 1 < k /\ k <= l
    /\ \A p \in 1 .. l : text[p] = " " <=> (p < i \/ (j < p /\ p < k))
    /\ l < Len(text) => text[l + 1] = " "

(* The row shows the path and the line as they are. *)
AsShown ==
    /\ ~ moved /\ ~ garbled /\ shown.path # NoPath
    /\ \A k \in 0 .. cmd_len - 1 : cmd[k] # Esc

(* A line that shows cd and a name moves to that name below the path of the
   prompt, .. moves up, and a name that is not there moves nowhere; words of
   earlier lines play no part.  Without a name (where the kernel reads on behind
   the line), with an Esc in the line (which the kernel takes for a part of a
   word), without a path or after another shell's cd or output nothing is
   claimed. *)
CdGoesWhereShown ==
    [][\A i, j, k, l \in DOMAIN shown.text :
         TwoWords(shown.text, i, j, k, l) /\ shown.text[i] = "cd" /\ newline /\ AsShown =>
           LET name == SubSeq(shown.text, k, l)
               down == shown.path \o name
           IN  Paths(fs_cur') =
                 IF Len(name) = 1 /\ down \in {Paths(Node(e)) : e \in EntryOf(image)} THEN down
                 ELSE IF name = <<"..">> /\ IsDir(image, fs_cur) /\ fs_cur # Node(Root)
                 THEN Front(shown.path)
                 ELSE shown.path]_svars

(* Only a comma in the line, or a line that begins with a command that follows
   a chain, keeps the system call from returning (in a row that is followed). *)
CommandEnds ==
    mode = "stuck" /\ ~ garbled =>
        \E k \in DOMAIN shown.text :
           \/ shown.text[k] = Comma
           \/ shown.text[k] \in Command /\ \A j \in 1 .. k - 1 : shown.text[j] = " "

(* The lines from the one at start on, with the depths counted from there. *)
From(lines, start) ==
    [k \in 1 .. Len(lines) - start + 1 |->
        [lines[start + k - 1] EXCEPT !.deep = @ - lines[start].deep - 1]]

(* tree prints the current entry and then, each entry once and at its depth,
   what lies below the root in preorder, from the current entry to the end of
   the disk; what lies below a current directory comes first. *)
TreeIsPreorder ==
    LET all == Below(image, Root)
    IN  \E start \in DOMAIN all :
          /\ all[start].node = fs_cur
          /\ tree(image, fs_cur) = << [node |-> fs_cur, deep |-> -1] >> \o From(all, start)
          /\ IsDir(image, fs_cur) => IsPrefix(Below(image, fs_cur[2]), From(all, start))
          /\ \A i, j \in DOMAIN all : all[i].node = all[j].node => i = j

(* The help text: tree traverses the current directory.  It runs on through the
   rest of the disk, for its end is recognised by coming back to that directory. *)
TreeStaysBelow ==
    IsDir(image, fs_cur) =>
        \A k \in DOMAIN tree(image, fs_cur) :
           \E i \in DOMAIN Below(image, fs_cur[2]) :
              Below(image, fs_cur[2])[i].node = tree(image, fs_cur)[k].node

(* A number that a program prints and a user types again, between blanks, is
   read as the same number, though the weights of its digits are signed (not a
   negative one: atob takes its sign for a digit); and the dates of ls stand
   below each other, one column to the right behind a length that is negative
   as an int. *)
NumbersAgree ==
    /\ atob(putdec(length), 10) = length
    /\ Signed(length) >= 0 =>
          scanf(<<Blank, Blank>> \o printf(length) \o <<Blank>> \o printf(length)) = length
    /\ \A letters \in 1 .. 8 :
          __printfile(letters, length) = __printfile(1, 0) + (IF Signed(length) < 0 THEN 1 ELSE 0)
=============================================================================
