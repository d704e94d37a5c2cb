-------------------------------- MODULE RamFS --------------------------------
(***************************************************************************)
(* The directory tree of a RamFS drive (drivers/vfs/ramfs.rs), the walk of *)
(* a path through it (reslove_path, drivers/vfs/mod.rs) and the current    *)
(* directory of each process, which is a text that relative paths are      *)
(* appended to (get_from_path, threading::expose::chdir).                  *)
(*                                                                         *)
(* A path is a sequence of tokens: the two separators, the drive, "." and  *)
(* "..", and names.  A component is what stands between two separators, a  *)
(* sequence of tokens too, so an entry may be called <<"a", "\\", "b">>.   *)
(* Calls that return an error leave the tree and the directories alone.    *)
(***************************************************************************)
EXTENDS Integers, Sequences, SequencesExt

CONSTANTS Procs,        \* processes
          First,        \* the one that exists at the start
          Names,        \* tokens for file names
          Paths,        \* the paths the processes pass to the calls
          MaxInodes,    \* bound: inodes of the drive
          MaxPath       \* bound: tokens of a current directory

VARIABLES inodes,       \* RamFS::inodes, a function from inode ids
          current_dir,  \* AliveProcessState::current_dir, per process
          made          \* history: the path each inode was created by

vars == <<inodes, current_dir, made>>

Slash == "/"
BackSlash == "\\"
Drive == "ram:"
Separators == {Slash, BackSlash}
Special == {".", "..", Drive, Slash, BackSlash}
Component == Seq(Names \cup Special)

ASSUME FirstAssumption == First \in Procs
ASSUME BoundAssumption == MaxInodes \in Nat \ {0} /\ MaxPath \in Nat
ASSUME PathsAssumption == Paths \subseteq Component /\ Names \cap Special = {}

NoDir == <<>>           \* current_dir of a process not spawned yet
Empty == [n \in {} |-> 0]

\* The function f with value v for x
With(f, x, v) == [y \in DOMAIN f \cup {x} |-> IF y = x THEN v ELSE f[y]]

\* RamInode: its name and RamInodeData, without the bytes of a file
NewFile(name) ==
    [name |-> name, kind |-> "Data", children |-> Empty, link |-> 0]
NewDir(name) ==
    [name |-> name, kind |-> "Children", children |-> Empty, link |-> 0]
NewDirWith(name, dotdot) ==
    [NewDir(name) EXCEPT !.children = With(@, <<"..">>, dotdot)]
NewHardLink(name, i) ==
    [name |-> name, kind |-> "HardLink", children |-> Empty, link |-> i]

Root == 0
Ids == DOMAIN inodes
NextId == Cardinality(Ids)

\* RamFS::new, and the directory String::from("ram:/") of the first process
Init ==
    /\ inodes = [i \in {Root} |-> NewDir(<<Slash>>)]
    /\ current_dir = [p \in Procs |->
                        IF p = First THEN <<Drive, Slash>> ELSE NoDir]
    /\ made = Empty

-----------------------------------------------------------------------------
\* The inode the operations of inode i end up at: those of a hard link call
\* the same operation of the inode it holds, which may be a hard link itself.
Final[i \in Ids] ==
    IF inodes[i].kind = "HardLink" THEN Final[inodes[i].link] ELSE i

IsDir(i) == inodes[Final[i]].kind = "Children"
Entries(i) == inodes[Final[i]].children

\* path.split(&['/', '\\'])
Split(path) ==
    LET cut[k \in 0 .. Len(path)] ==
            IF k = 0 THEN << <<>> >>
            ELSE LET before == cut[k - 1]
                 IN  IF path[k] \in Separators THEN Append(before, <<>>)
                     ELSE [before EXCEPT ![Len(before)] = Append(@, path[k])]
    IN  cut[Len(path)]

\* What reslove_path walks: not the empty component before a leading separator
\* and not the drive.
Components(path) ==
    LET all   == Split(path)
        inner == IF all[1] = <<>> THEN Tail(all) ELSE all
    IN  IF inner # <<>> /\ Drive \in Range(inner[1]) THEN Tail(inner) ELSE inner

\* One turn of the loop of reslove_path, from inode i: the set with the inode
\* it goes on to, or {} for an error.  An empty component is only allowed at
\* the end.
Step(i, component, last) ==
    CASE component = <<>>    -> IF last THEN {i} ELSE {}
      [] component = <<".">> -> {i}
      [] OTHER               -> IF IsDir(i) /\ component \in DOMAIN Entries(i)
                                THEN {Entries(i)[component]} ELSE {}

\* What the loop of reslove_path has arrived at after each of its turns
Walk(components) ==
    LET n == Len(components)
        walk[k \in 0 .. n] ==
            IF k = 0 THEN {Root}
            ELSE UNION {Step(i, components[k], k = n) : i \in walk[k - 1]}
    IN  walk

\* FS::reslove_path: the set with the inode, or {} for an error
ReslovePath(path) == LET components == Components(path)
                     IN  Walk(components)[Len(components)]

\* Mutant: the trailing slashes stay.
TrimmedNot(path) == path

\* FS::reslove_path_uncreated: path without its trailing slashes, cut at the
\* last slash into the text of the parent and the name
Trimmed(path) ==
    LET kept == {i \in DOMAIN path : path[i] # Slash}
    IN  SubSeq(path, 1, Max(kept \cup {0}))

LastSlash(path) == Max({i \in DOMAIN path : path[i] = Slash} \cup {0})

ParentText(path) ==
    LET t == Trimmed(path)
    IN  IF LastSlash(t) = 0 THEN <<Slash>> ELSE SubSeq(t, 1, LastSlash(t) - 1)

NameIn(path) ==
    LET t == Trimmed(path)
    IN  SubSeq(t, LastSlash(t) + 1, Len(t))

ParentOf(path) == {i \in Ids : i \in ReslovePath(ParentText(path)) /\ IsDir(i)}

\* VFS::get_from_path: a path that does not start with a drive is appended to
\* the current directory.
FullPath(p, path) ==
    LET head == Split(path)[1]
    IN  IF head # <<>> /\ Last(head) = Drive THEN path ELSE current_dir[p] \o path

\* VFS::get_from_path_checked: the path starts with a mounted drive.
Mounted(path) == Split(path)[1] = <<Drive>>

-----------------------------------------------------------------------------
\* InodeOps::insert of a directory: the inodes with c an entry of inode i.
Inserted(i, name, c) ==
    [inodes EXCEPT ![Final[i]].children = With(@, name, c)]

\* FS::create: a path that ends with a slash and a name that exists are
\* errors.
Create(p, path) ==
    LET full == FullPath(p, path)
        name == NameIn(full)
    IN  /\ NextId < MaxInodes
        /\ Mounted(full)
        /\ Last(full) # Slash
        /\ \E i \in ParentOf(full) :
             /\ name \notin DOMAIN Entries(i)
             /\ inodes' = With(Inserted(i, name, NextId), NextId, NewFile(name))
        /\ made' = With(made, NextId, full)
        /\ UNCHANGED current_dir

\* Mutant: ".." is linked to the root.
CreateDirUnderRoot(p, path) ==
    LET full == FullPath(p, path)
        name == NameIn(full)
    IN  /\ NextId + 1 < MaxInodes
        /\ Mounted(full)
        /\ \E i \in ParentOf(full) :
             /\ name \notin DOMAIN Entries(i)
             /\ inodes' = With(With(Inserted(i, name, NextId),
                               NextId, NewDirWith(name, NextId + 1)),
                          NextId + 1, NewHardLink(<<"..">>, Root))
        /\ made' = With(made, NextId, full)
        /\ UNCHANGED current_dir

\* Mutant: ".." is entered with the id of the directory.
CreateDirSameId(p, path) ==
    LET full == FullPath(p, path)
        name == NameIn(full)
    IN  /\ NextId + 1 < MaxInodes
        /\ Mounted(full)
        /\ \E i \in ParentOf(full) :
             /\ name \notin DOMAIN Entries(i)
             /\ inodes' = With(With(Inserted(i, name, NextId),
                               NextId, NewDirWith(name, NextId)),
                          NextId + 1, NewHardLink(<<"..">>, i))
        /\ made' = With(made, NextId, full)
        /\ UNCHANGED current_dir

\* FS::createdir: two inodes, the directory and the hard link "..", to the
\* inode the parent's path led to (itself a hard link when it ended in "..").
CreateDir(p, path) ==
    LET full == FullPath(p, path)
        name == NameIn(full)
    IN  /\ NextId + 1 < MaxInodes
        /\ Mounted(full)
        /\ \E i \in ParentOf(full) :
             /\ name \notin DOMAIN Entries(i)
             /\ inodes' = With(With(Inserted(i, name, NextId),
                               NextId, NewDirWith(name, NextId + 1)),
                          NextId + 1, NewHardLink(<<"..">>, i))
        /\ made' = With(made, NextId, full)
        /\ UNCHANGED current_dir

\* Mutant: the directory is kept as it was given.
EnsureSlashNot(path) == path

EnsureSlash(path) == IF Last(path) = Slash THEN path ELSE Append(path, Slash)

\* VFS::verify_path_dir
VerifyPathDir(path) == Mounted(path) /\ \E i \in ReslovePath(path) : IsDir(i)

\* threading::expose::chdir
Chdir(p, path) ==
    LET full == FullPath(p, path)
    IN  /\ Len(full) < MaxPath
        /\ VerifyPathDir(full)
        /\ current_dir' = [current_dir EXCEPT ![p] = EnsureSlash(full)]
        /\ UNCHANGED <<inodes, made>>

\* threading::expose::spawn, with or without CLONE_CWD
Spawn(p, q) ==
    /\ current_dir[q] = NoDir
    /\ \E dir \in {current_dir[p], <<Drive, Slash>>} :
         current_dir' = [current_dir EXCEPT ![q] = dir]
    /\ UNCHANGED <<inodes, made>>

Alive == {p \in Procs : current_dir[p] # NoDir}

Next ==
    \E p \in Alive :
        \/ \E path \in Paths :
             \/ Create(p, path)
             \/ CreateDir(p, path)
             \/ Chdir(p, path)
        \/ \E q \in Procs : Spawn(p, q)

Spec == Init /\ [][Next]_vars

-----------------------------------------------------------------------------
TypeOK ==
    /\ Ids = 0 .. NextId - 1
    /\ NextId <= MaxInodes
    /\ \A i \in Ids :
         /\ inodes[i].kind \in {"Data", "Children", "HardLink"}
         /\ inodes[i].name \in Component
         /\ DOMAIN inodes[i].children \subseteq Component
         /\ inodes[i].link \in Ids
    /\ current_dir \in [Procs -> Component]
    /\ DOMAIN made \subseteq Ids

\* The inodes that have inode c as an entry.
Listing(c) == {i \in Ids : c \in Range(inodes[i].children)}

\* The state has its type, get_inode(id).unwrap() in reslove_path finds every
\* entry, under the name it is listed by, and the inodes form a tree: every one
\* but the root is an entry of exactly one directory, made before it.
Tree ==
    /\ TypeOK
    /\ \A i \in Ids : \A n \in DOMAIN inodes[i].children :
         /\ inodes[i].children[n] \in Ids
         /\ inodes[inodes[i].children[n]].name = n
    /\ Listing(Root) = {}
    /\ \A c \in Ids \ {Root} : \E i \in 0 .. c - 1 :
         /\ Listing(c) = {i}
         /\ inodes[i].kind = "Children"

\* ".." of every directory but the root leads, through however many hard
\* links, to the directory that lists it.
DotDotIsParent ==
    \A d \in Ids \ {Root} : inodes[d].kind = "Children" =>
        /\ <<"..">> \in DOMAIN inodes[d].children
        /\ Listing(d) = {Final[inodes[d].children[<<"..">>]]}

\* Paths of components that "/" alone separates, none of them empty but the
\* last.  Of others create, chdir and the walk have different opinions: create
\* cuts at the last "/" only, the walk at "\\" too, and it refuses an empty
\* component inside a path.
Plain(path) ==
    /\ BackSlash \notin Range(path)
    /\ \A i \in 1 .. Len(path) - 1 : path[i] # Slash \/ path[i + 1] # Slash

\* A relative name means an entry of the current directory: looking up the
\* text current_dir + name is looking up name in the directory that
\* current_dir leads to, in every process and however it got there.
CwdIsBase ==
    \A p \in Alive : Plain(current_dir[p]) =>
        \E d \in ReslovePath(current_dir[p]) :
            /\ IsDir(d)
            /\ \A n \in Names : ReslovePath(FullPath(p, <<n>>)) =
                   IF <<n>> \in DOMAIN Entries(d) THEN {Entries(d)[<<n>>]} ELSE {}

\* A plain path that something was created by leads to it from then on: the
\* parent and the name that create cuts the path into are the ones the walk
\* finds, and nothing created later comes in between.  Left out are the names
\* "." and that of the drive alone: create makes them like any other, and the
\* walk never looks them up.
CreatedIsFound ==
    \A c \in DOMAIN made :
        Plain(made[c]) /\ NameIn(made[c]) \notin {<<Drive>>, <<".">>}
            => ReslovePath(made[c]) = {c}
=============================================================================
