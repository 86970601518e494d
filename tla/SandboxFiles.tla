---- MODULE SandboxFiles ----
(* A sandbox's directory (src/filesystem/sandbox_fs.rs) and the REST calls
   on it.  Every call resolves its path first, and a path that does not
   exist is resolved to a place of its own: the components of the whole
   path, those of the sandbox's directory included, are appended to the
   sandbox's directory.  Only what files hold counts as usage here: the
   length of a link's target is left out. *)
EXTENDS Naturals, Sequences, FiniteSets, SequencesExt, FiniteSetsExt

CONSTANTS Callers,
          Paths,       \* the paths callers use, as sequences of names
          Standard,    \* the directories that new makes
          Home,        \* the components of the sandbox's own directory
          Content,     \* caller -> the size of what it writes, in chunks
          TotalLimit,  \* total_limit_bytes
          FileLimit,   \* file_limit_bytes
          NoPath,
          Hole         \* what a chunk is that was skipped over

ASSUME SandboxFilesAssumption ==
  /\ TotalLimit \in Nat /\ FileLimit \in Nat /\ Content \in [Callers -> Nat \ {0}]
  /\ Home # <<>> /\ <<>> \notin Paths /\ Standard \subseteq Paths

VARIABLES
  tree,   \* place -> [is: "dir" | "file" | "link", and who wrote each of the
          \* file's chunks, or the link's target]
  call,   \* what each caller is at: free, or between two steps of write_file
  wrote   \* path -> whose content its readers were promised last, or Hole

fileVars == <<tree, call, wrote>>

Resting == [at |-> "rest"]
Dir == [is |-> "dir"]

SbInit ==
  /\ tree = [x \in {<<>>} \cup Standard |-> Dir]
  /\ call = [c \in Callers |-> Resting]
  /\ wrote = [x \in Paths |-> Hole]

----
(* Where a place leads once links are followed; NoPath if in circles. *)
IsLink(x) == x \in DOMAIN tree /\ tree[x].is = "link"
Followed(x) ==
  IF ~IsLink(x) THEN x
  ELSE LET after[n \in 0 .. Cardinality(Paths)] ==
               IF n = 0 THEN x ELSE IF IsLink(after[n - 1]) THEN tree[after[n - 1]].to ELSE after[n - 1]
           end == after[Cardinality(Paths)]
       IN  IF IsLink(end) THEN NoPath ELSE end

There(x) == Followed(x) \in DOMAIN tree
IsDir(x) == There(x) /\ tree[Followed(x)].is = "dir"
IsFile(x) == There(x) /\ tree[Followed(x)].is = "file"

(* The components of a path, with each ".." taking the one before it. *)
Normal(x) ==
  IF ".." \notin Range(x) THEN x
  ELSE FoldLeft(LAMBDA acc, name : IF name # ".." THEN Append(acc, name)
                                   ELSE IF acc = <<>> THEN acc ELSE Front(acc),
                <<>>, x)

\* What the names become that callers use, and those of the directories above.
NewPlace == [x \in Paths \cup {Front(y) : y \in Paths} |-> Normal(Home \o x)]

(* resolve_path.  Nothing beside the sandbox's directory bears a name that
   callers use, so what exists lies inside. *)
Resolve(x) == IF There(x) THEN Followed(x) ELSE NewPlace[x]

Above(x) == {SubSeq(x, 1, n) : n \in 0 .. Len(x) - 1}
CanMakeAbove(x) == \A y \in Above(x) : y \in DOMAIN tree => IsDir(y)
WithDirs(f, dirs) == [x \in DOMAIN f \cup dirs |-> IF x \in DOMAIN f THEN f[x] ELSE Dir]

UsedBytes == MapThenSumSet(LAMBDA x : Len(tree[x].data),
                           {x \in DOMAIN tree : tree[x].is = "file"})

(* The place of the file that a caller's path leads to, and what reading it
   yields.  Nothing is renamed: the place tells the file until it is deleted. *)
FileAt(x) == IF IsFile(Resolve(x)) THEN Followed(Resolve(x)) ELSE NoPath
Read(x) == IF FileAt(x) = NoPath THEN <<>> ELSE tree[FileAt(x)].data

(* list_directory: the names under the place the path resolves to. *)
NamesIn(x) == {Last(y) : y \in {z \in DOMAIN tree : z # <<>> /\ Front(z) = Followed(Resolve(x))}}

----
(* The defect: the size of the new content is not added. *)
FitsBefore(n) == n <= FileLimit /\ UsedBytes <= TotalLimit

(* Both limits, the total one against the usage found now: the content that
   is to be replaced counts as well. *)
Fits(n) == n <= FileLimit /\ UsedBytes + n <= TotalLimit

BeginWrite(c, x) ==
  /\ call[c] = Resting
  /\ Fits(Content[c])
  /\ call' = [call EXCEPT ![c] = [at |-> "create", place |-> Resolve(x)]]
  /\ UNCHANGED <<tree, wrote>>

(* The parents are made, then the file is opened for writing, which follows
   links and truncates it: unless the path leads in circles, to a directory
   or, by a link, into one that does not exist.  The parents stay then. *)
CanOpen(x, dirs) ==
  IF There(x) THEN IsFile(x)
  ELSE Followed(x) # NoPath /\ Front(Followed(x)) \in dirs

File(data) == [is |-> "file", data |-> data]
Filling(c, y) == call[c].at = "fill" /\ call[c].file = y

Open(c) ==
  /\ call[c].at = "create"
  /\ LET x == call[c].place
         made == IF CanMakeAbove(x) THEN WithDirs(tree, Above(x)) ELSE tree
         n == Followed(x)
     IN  IF CanMakeAbove(x) /\ CanOpen(x, {y \in DOMAIN made : made[y] = Dir})
         THEN /\ tree' = [y \in DOMAIN made \cup {n} |-> IF y = n THEN File(<<>>) ELSE made[y]]
              /\ wrote' = [y \in Paths |-> IF FileAt(y) = n THEN Hole ELSE wrote[y]]
              /\ call' = [d \in Callers |->
                    IF d = c THEN [at |-> "fill", file |-> n, pos |-> 1,
                                   alone |-> \A e \in Callers : ~Filling(e, n)]
                    ELSE IF Filling(d, n) THEN [call[d] EXCEPT !.alone = FALSE] ELSE call[d]]
         ELSE /\ tree' = made
              /\ call' = [call EXCEPT ![c] = Resting]
              /\ UNCHANGED wrote

\* One chunk at an offset; what a truncation took before it becomes a hole.
Overlay(s, at, c) ==
  [k \in 1 .. (IF at > Len(s) THEN at ELSE Len(s)) |->
      IF k = at THEN c ELSE IF k <= Len(s) THEN s[k] ELSE Hole]

(* write_all, chunk by chunk from the start of the file, whoever else writes
   there: several writers leave a mixture, to which nobody is promised
   anything. *)
WriteChunk(c) ==
  /\ call[c].at = "fill"
  /\ LET n == call[c].file
         last == call[c].pos = Content[c]
     IN  /\ tree' = IF n = NoPath THEN tree
                    ELSE [tree EXCEPT ![n].data = Overlay(@, call[c].pos, c)]
         /\ wrote' = [y \in Paths |->
                         IF last /\ call[c].alone /\ FileAt(y) = n THEN c ELSE wrote[y]]
         /\ call' = [call EXCEPT ![c] = IF last THEN Resting ELSE [@ EXCEPT !.pos = @ + 1]]

(* The write fails, or its handler is dropped: what is there stays. *)
Abandon(c) ==
  /\ call[c] # Resting
  /\ call' = [call EXCEPT ![c] = Resting]
  /\ UNCHANGED <<tree, wrote>>

(* remove_file takes the link, not what it leads to; a link that leads
   nowhere is "not found" and stays.  Who still writes to a file that is
   deleted writes to one that has no name. *)
DeleteFile(x) ==
  LET y == Resolve(x)
  IN  /\ There(y) /\ tree[y].is # "dir"
      /\ tree' = [z \in DOMAIN tree \ {y} |-> tree[z]]
      /\ call' = [c \in Callers |->
                    IF Filling(c, y) THEN [call[c] EXCEPT !.file = NoPath, !.alone = FALSE] ELSE call[c]]
      /\ wrote' = [z \in Paths |-> IF FileAt(z) = FileAt(x) THEN Hole ELSE wrote[z]]

CreateDirectory(x, recursive) ==
  LET y == Resolve(x)
  IN  /\ y \notin DOMAIN tree
      /\ IF recursive THEN CanMakeAbove(y) ELSE IsDir(Front(y))
      /\ tree' = WithDirs(tree, Above(y) \cup {y})
      /\ UNCHANGED <<call, wrote>>

(* The defect: a link takes the place of what is there. *)
CreateSymlinkOver(x, target) ==
  LET y == Resolve(x)
  IN  /\ y # <<>> /\ IsDir(Front(y))
      /\ tree' = [z \in DOMAIN tree \cup {y} |->
                      IF z = y THEN [is |-> "link", to |-> Resolve(target)] ELSE tree[z]]
      /\ UNCHANGED <<call, wrote>>

CreateSymlink(x, target) ==
  LET y == Resolve(x)
  IN  /\ y \notin DOMAIN tree /\ IsDir(Front(y))
      /\ tree' = [z \in DOMAIN tree \cup {y} |->
                      IF z = y THEN [is |-> "link", to |-> Resolve(target)] ELSE tree[z]]
      /\ UNCHANGED <<call, wrote>>

(* Links are made where no caller goes on below them. *)
Leaves == {x \in Paths : \A y \in Paths : x \notin Above(y)}

SbNext ==
  \/ \E c \in Callers :
        \/ \E x \in Leaves : BeginWrite(c, x)
        \/ Open(c)
        \/ WriteChunk(c) \/ Abandon(c)
  \/ \E x \in Leaves : DeleteFile(x)
  \/ \E x \in Paths : CreateDirectory(x, TRUE) \/ CreateDirectory(x, FALSE)
  \/ \E x, y \in Leaves : CreateSymlink(x, y)

----
SbTypeOK ==
  /\ \A x \in DOMAIN tree : tree[x].is \in {"dir", "file", "link"} /\ (x # <<>> => Front(x) \in DOMAIN tree)
  /\ \A x \in {y \in DOMAIN tree : tree[y].is = "file"} :
        Len(tree[x].data) <= FileLimit /\ Range(tree[x].data) \subseteq Callers \cup {Hole}
  /\ wrote \in [Paths -> Callers \cup {Hole}]

(* A path that goes up past the sandbox's directory is resolved to a place
   inside, which may be that of another path, or of a directory above it:
   what is made there hides what the other path meant while nothing was. *)
Hidden(x) ==
  \E y \in Paths \ {x} : LET z == NewPlace[y] IN z \in Above(x) \cup {x} /\ z \in DOMAIN tree

(* Wherever a path is resolved to, once one writer alone has written its
   content it is what a reader gets, until somebody opens the same file for
   writing or deletes a name of it: making other files, directories and
   links neither hides nor redirects it, but by a path that climbs to it. *)
ReadsBack ==
  \A x \in Paths : wrote[x] # Hole /\ ~Hidden(x) =>
      Read(x) = [k \in 1 .. Content[wrote[x]] |-> wrote[x]]

(* Writers look at the usage before they write: together they may pass the
   limit by one file for each of them but the last. *)
UsageOvershoot == UsedBytes <= TotalLimit + (Cardinality(Callers) - 1) * FileLimit

FilesInv == SbTypeOK /\ ReadsBack /\ UsageOvershoot

(* tests/filesystem_isolation_tests.rs:311 lists /workspace after files
   were written to it, and expects them there. *)
ListingShowsFiles ==
  \A x \in Paths : Read(x) # <<>> /\ IsDir(Resolve(Front(x))) => Last(x) \in NamesIn(Front(x))
====
