------------------------------ MODULE LinkFile ------------------------------
(***************************************************************************)
(* 02-Linux-File-System/03-Link-To-File: main() reads the name of a        *)
(* directory, searches it and what is below it for hello_world.txt, and    *)
(* makes a "hard" and a "soft" link to what the search has found.  The     *)
(* search works in the current directory: it changes into a directory it   *)
(* opened, calls itself for the directories it reads there, and changes to *)
(* ".." when it returns.  Neither the results of chdir() and lstat() nor   *)
(* its own are looked at.                                                  *)
(*                                                                         *)
(* A file is known by the directory it was made in and a version: another  *)
(* process may at any time replace hello_world.txt by a new file of that   *)
(* name.                                                                   *)
(***************************************************************************)
EXTENDS Naturals, Sequences, FiniteSets, SequencesExt

CONSTANTS
  Dir,         \* the directories
  Root,        \* "/", its own parent
  Home,        \* the directory the program is started in
  Name,        \* names of directories
  Trees,       \* which directory is in which: the trees that are tried
  Rights,      \* which can be entered and which read: what is tried
  MaxOpen,     \* directories the process can have open
  MaxSaves     \* bound: how often hello_world.txt is replaced

None == "none"
hello == "hello_world.txt"

ASSUME LinkAssumption ==
  /\ Root \in Dir /\ Home \in Dir
  /\ IsFiniteSet(Dir) /\ None \notin Dir
  /\ {"/", ".", ".."} \intersect Name = {}
  /\ Trees \subseteq [Dir -> Dir]
  /\ Rights \subseteq [enter : SUBSET Dir, read : SUBSET Dir]
  /\ MaxOpen \in Nat /\ MaxSaves \in Nat

VARIABLES
  parent,      \* per directory: the one it is in
  called,      \* per directory: its name there
  enter,       \* the directories the user may change into
  read,        \* the directories the user may list
  version,     \* per directory: that of its hello_world.txt, 0 without one
  pc,          \* what main() does next
  dir,         \* the path the user typed
  call,        \* the path search_file_in_directory was just called with
  stack,       \* its activations: directory, path, entries left, statbuf
  cwd,         \* the current directory
  ret_dir,     \* the path of the match, empty without one
  matched,     \* the directory whose hello_world.txt was matched
  link         \* what each link leads to

treeVars == <<parent, called, enter, read>>
vars == <<treeVars, version, pc, dir, call, stack, cwd, ret_dir, matched, link>>

-----------------------------------------------------------------------------
(* The file system.                                                        *)
Links == {"hard_link.txt", "soft_link.txt"}

Children(d) == {c \in Dir \ {Root} : parent[c] = d}

(* The kernel's walk along a path, which needs the right to enter every    *)
(* directory it looks a name up in.                                        *)
Walk(d, name) ==
  CASE d = None -> None
    [] d # None /\ name = "/" -> Root
    [] d # None /\ name # "/" /\ d \notin enter -> None
    [] d \in enter /\ name = "." -> d
    [] d \in enter /\ name = ".." -> parent[d]
    [] d \in enter /\ name \notin {"/", ".", ".."} ->
         IF \E c \in Children(d) : called[c] = name
         THEN CHOOSE c \in Children(d) : called[c] = name ELSE None

Follow(d, path) ==
  LET at[n \in 0 .. Len(path)] == IF n = 0 THEN d ELSE Walk(at[n - 1], path[n])
  IN at[Len(path)]

Resolve(path) == IF path = <<>> THEN None ELSE Follow(cwd, path)

Entries(d) == {".", ".."} \union {called[c] : c \in Children(d)}
              \union {hello : v \in {version[d]} \ {0}}

(* A directory and those above it.                                         *)
Ancestors(d) ==
  LET up[n \in 0 .. Cardinality(Dir)] == IF n = 0 THEN d ELSE parent[up[n - 1]]
  IN {up[n] : n \in 0 .. Cardinality(Dir)}

(* A tree below the root, and what the user may do with each directory:    *)
(* the current one is inherited, and neither it nor those above it need be *)
(* open to the user.  A directory may itself be called hello_world.txt,    *)
(* where no file is.                                                       *)
TreeInit ==
  /\ parent \in {p \in Trees : p[Root] = Root}
  /\ \A d \in Dir : Root \in Ancestors(d)
  /\ called \in {c \in [Dir -> Name \union {"/"}] :
                 \A d \in Dir : c[d] = "/" <=> d = Root}
  /\ \A c, d \in Dir \ {Root} :
       parent[c] = parent[d] /\ called[c] = called[d] => c = d
  /\ \E r \in Rights : enter = r.enter /\ read = r.read
  /\ version \in [Dir -> {0, 1}]
  /\ \A c \in Dir \ {Root} : called[c] = hello => version[parent[c]] = 0

Init ==
  /\ TreeInit
  /\ pc = "input" /\ dir = <<>> /\ call = <<>> /\ stack = <<>>
  /\ cwd = Home
  /\ ret_dir = <<>> /\ matched = None
  /\ link = [l \in Links |-> <<>>]

-----------------------------------------------------------------------------
(* Another process saves hello_world.txt as a new file of that name.  The  *)
(* search only sees names, so it is enough to let it happen after that.    *)
Replace ==
  /\ pc \in Links \union {"exit"}
  /\ \E d \in Dir :
       /\ version[d] \in 1 .. MaxSaves
       /\ version' = [version EXCEPT ![d] = @ + 1]
  /\ UNCHANGED <<treeVars, pc, dir, call, stack, cwd, ret_dir, matched, link>>

(* What the user may type; is_valid_file_name and check_empty_dir reject   *)
(* the empty path, "." and "..", and every path with a slash.              *)
Typed == {<<>>} \union {<<a>> : a \in Name \union {".", "..", "/"}}
         \union {<<a, n>> : a \in Name \union {"..", "/"}, n \in Name}

is_valid_file_name(path) == Len(path) = 1 /\ path[1] \in Name

(* main() does not look at the verdict get_filepath_from_user returns.     *)
get_filepath_from_user ==
  /\ pc = "input"
  /\ dir' \in Typed
  /\ call' = dir' /\ pc' = "call"
  /\ UNCHANGED <<treeVars, version, stack, cwd, ret_dir, matched, link>>

(* opendir() and chdir(): a directory that is not there, that the user may *)
(* not list, or that is one too many ends the call at once; one that only  *)
(* cannot be entered is read all the same.                                 *)
Open ==
  /\ pc = "call"
  /\ LET d == Resolve(call)
     IN IF d = None \/ d \notin read \/ Len(stack) >= MaxOpen
        THEN UNCHANGED <<stack, cwd>>
        ELSE /\ stack' = Append(stack, [dir |-> d, path |-> call,
                                        rest |-> Entries(d), statbuf |-> "any"])
             /\ cwd' = IF d \in enter THEN d ELSE cwd
  /\ call' = <<>> /\ pc' = "read"
  /\ UNCHANGED <<treeVars, version, dir, ret_dir, matched, link>>

(* chdir(".."): looks ".." up in the current directory, then enters it.    *)
Up(d) == IF {d, parent[d]} \subseteq enter THEN parent[d] ELSE d

Frame == Last(stack)

Seen(entry, st) == Front(stack) \o
  <<[Frame EXCEPT !.rest = @ \ {entry}, !.statbuf = st]>>

(* lstat() of an entry, in the current directory: if there is nothing of   *)
(* that name the buffer keeps what it held, at first anything.             *)
lstat(entry) ==
  IF Walk(cwd, entry) # None THEN {"directory"}
  ELSE IF entry = hello /\ cwd \in enter /\ version[cwd] # 0 THEN {"file"}
  ELSE IF Frame.statbuf = "any" THEN {"directory", "file"}
  ELSE {Frame.statbuf}

(* Mutant: the place in the directory is lost by the call.                 *)
ReadAgain ==
  /\ pc = "read" /\ stack # <<>>
  /\ \E entry \in Frame.rest : \E st \in lstat(entry) :
       /\ st = "file" => entry # hello
       /\ IF st = "directory" /\ entry \notin {".", ".."}
          THEN call' = <<entry>> /\ pc' = "call" /\ UNCHANGED stack
          ELSE stack' = Seen(entry, st) /\ UNCHANGED <<call, pc>>
  /\ UNCHANGED <<treeVars, version, dir, cwd, ret_dir, matched, link>>

(* One round of the loop that goes on, or calls the function for a         *)
(* directory below.                                                        *)
ReadEntry ==
  /\ pc = "read" /\ stack # <<>>
  /\ \E entry \in Frame.rest : \E st \in lstat(entry) :
       /\ st = "file" => entry # hello
       /\ stack' = Seen(entry, st)
       /\ IF st = "directory" /\ entry \notin {".", ".."}
          THEN call' = <<entry>> /\ pc' = "call"
          ELSE UNCHANGED <<call, pc>>
  /\ UNCHANGED <<treeVars, version, dir, cwd, ret_dir, matched, link>>

(* Mutant: the match is left by a return without chdir("..").              *)
MatchAndStay ==
  /\ pc = "read" /\ stack # <<>>
  /\ hello \in Frame.rest /\ "file" \in lstat(hello)
  /\ ret_dir' = Append(Frame.path, hello) /\ matched' = Frame.dir
  /\ stack' = Front(stack)
  /\ UNCHANGED <<treeVars, version, pc, dir, call, cwd, link>>

(* Mutant: the path of the match lacks its directory.                      *)
MatchBare ==
  /\ pc = "read" /\ stack # <<>>
  /\ hello \in Frame.rest /\ "file" \in lstat(hello)
  /\ ret_dir' = <<hello>> /\ matched' = Frame.dir
  /\ cwd' = Up(cwd) /\ stack' = Front(stack)
  /\ UNCHANGED <<treeVars, version, pc, dir, call, link>>

(* The match: its path is the one this activation was called with, the     *)
(* last component of the whole one when it was called by itself; a later   *)
(* match overwrites it, since the caller goes on.                          *)
Match ==
  /\ pc = "read" /\ stack # <<>>
  /\ hello \in Frame.rest /\ "file" \in lstat(hello)
  /\ ret_dir' = Append(Frame.path, hello) /\ matched' = Frame.dir
  /\ cwd' = Up(cwd) /\ stack' = Front(stack)
  /\ UNCHANGED <<treeVars, version, pc, dir, call, link>>

(* Mutant: the end of a directory is left without chdir("..").             *)
LeaveAndStay ==
  /\ pc = "read" /\ stack # <<>> /\ Frame.rest = {}
  /\ stack' = Front(stack)
  /\ UNCHANGED <<treeVars, version, pc, dir, call, cwd, ret_dir, matched, link>>

(* readdir() has no more entries.                                          *)
Leave ==
  /\ pc = "read" /\ stack # <<>> /\ Frame.rest = {}
  /\ cwd' = Up(cwd) /\ stack' = Front(stack)
  /\ UNCHANGED <<treeVars, version, pc, dir, call, ret_dir, matched, link>>

(* The first call has returned; main() makes the links whatever it found.  *)
Return ==
  /\ pc = "read" /\ stack = <<>>
  /\ pc' = "hard_link.txt"
  /\ UNCHANGED <<treeVars, version, dir, call, stack, cwd, ret_dir, matched, link>>

(* The file a path leads to: the directory it is in, and its version.      *)
FileAt(path) ==
  LET d == Follow(cwd, Front(path))
  IN IF path # <<>> /\ d # None /\ d \in enter /\ version[d] # 0
     THEN <<d, version[d]>> ELSE <<>>

(* link() makes the new name in the current directory; it also fails when  *)
(* that name is taken.                                                     *)
link_to(l) ==
  /\ \/ link' = link
     \/ cwd \in enter /\ link' = [link EXCEPT ![l] = FileAt(ret_dir)]
  /\ UNCHANGED <<treeVars, version, dir, call, stack, cwd, ret_dir, matched>>

create_hard_link_file ==
  /\ pc = "hard_link.txt" /\ pc' = "soft_link.txt"
  /\ link_to("hard_link.txt")

(* It calls link() as well.                                                *)
create_soft_link_file ==
  /\ pc = "soft_link.txt" /\ pc' = "exit"
  /\ link_to("soft_link.txt")

Done == pc = "exit" /\ UNCHANGED vars

search_file_in_directory == Open \/ ReadEntry \/ Match \/ Leave

Next ==
  \/ get_filepath_from_user
  \/ search_file_in_directory
  \/ Return
  \/ create_hard_link_file \/ create_soft_link_file
  \/ Replace
  \/ Done

Spec == Init /\ [][Next]_vars
             /\ WF_vars(get_filepath_from_user \/ search_file_in_directory
                        \/ Return \/ create_hard_link_file
                        \/ create_soft_link_file)

-----------------------------------------------------------------------------
Searched == pc \in {"hard_link.txt", "soft_link.txt", "exit"}

(* The directory the user's path leads to from where the program started.  *)
Named == IF dir = <<>> THEN None ELSE Follow(Home, dir)

(* Type invariant.                                                         *)
TypeOK ==
  /\ cwd \in Dir /\ matched \in Dir \union {None}
  /\ pc \in {"input", "call", "read", "exit"} \union Links
  /\ dir \in Typed /\ call \in Typed \union {<<hello>>}
  /\ ret_dir \in {<<>>} \union {Append(p, hello) : p \in Typed \ {<<>>}}
  /\ Len(stack) <= MaxOpen
  /\ \A i \in DOMAIN stack :
       /\ stack[i].dir \in Dir /\ stack[i].path \in Typed
       /\ stack[i].rest \subseteq Name \union {".", "..", hello}
       /\ stack[i].statbuf \in {"any", "directory", "file"}
  /\ \A l \in Links : link[l] = <<>> \/ link[l][1] \in Dir

(* The user's path could be opened at all.                                 *)
Opens == Named # None /\ Named \in read /\ MaxOpen # 0

(* What is left of the search when it is over.                             *)
Returned == Searched \/ (pc = "read" /\ stack = <<>>)

(* Nobody looks at what chdir() returns.  If the directory the user named  *)
(* can be entered, the search never works beside or below the directory it *)
(* reads, only in it or above it, and ends at or above the one named.  If  *)
(* every directory that can be listed can be entered as well, it works in  *)
(* the one it reads, and ends in the parent of the one named: where it was *)
(* started only if that was a plain name.                                  *)
CwdFollowsSearch ==
  /\ Returned /\ ~Opens => cwd = Home
  /\ Named \in enter =>
       /\ pc = "read" /\ stack # <<>> => cwd \in Ancestors(Frame.dir)
       /\ Returned /\ Opens => cwd \in Ancestors(Named)
  /\ read \subseteq enter =>
       /\ pc = "read" /\ stack # <<>> => cwd = Frame.dir
       /\ Returned /\ Opens => cwd = Up(Named)

(* A search that finds nothing has missed nothing, where every directory   *)
(* that can be listed can be entered: there is no file of the name that is *)
(* as near to the directory the user named as the process can have         *)
(* directories open, with a way to it that can be listed.                  *)
Within(d) == Ancestors(d) \ (Ancestors(Named) \ {Named})
SearchIsComplete ==
  Searched /\ ret_dir = <<>> /\ Named # None /\ read \subseteq enter =>
    \A d \in Dir : version[d] # 0 /\ Named \in Ancestors(d) /\ Within(d) \subseteq read =>
      Cardinality(Within(d)) > MaxOpen

(* Where every directory that can be listed can be entered, the links lead *)
(* to the file that was found if the user gave a plain name or a full path *)
(* and the file is in that directory itself.  Otherwise ret_dir is looked  *)
(* up from a directory it is not relative to, and what is linked may be    *)
(* another file of that name.                                              *)
LinksWhatWasFound ==
  read \subseteq enter /\ matched # None /\ matched = Named
  /\ (is_valid_file_name(dir) \/ dir[1] = "/") =>
    \A l \in Links : link[l] # <<>> => link[l][1] = matched

(* What a soft link is for: it leads to the file that has the name now.    *)
SoftLinkFollowsName ==
  link["soft_link.txt"] # <<>> =>
    link["soft_link.txt"][2] = version[link["soft_link.txt"][1]]

(* The program ends: directories that cannot be entered, whose entries it  *)
(* then looks up somewhere else, do not keep it going.                     *)
Ends == <>(pc = "exit")
=============================================================================
