------------------------------ MODULE CodeSync ------------------------------
(***************************************************************************)
(* The incremental index of the source code: every poll asks git for the   *)
(* files of each project changed since the commit in its state file, reads *)
(* them, writes the new commit to the state file, and only when all        *)
(* projects are through stores the files, while developers edit, commit,   *)
(* amend and drop commits.                                                 *)
(***************************************************************************)
EXTENDS Naturals, Sequences, FiniteSets

CONSTANTS
    Projects,     \* names in projects.yaml
    Order,        \* the same in the order of the file
    Files,        \* paths with an extension and a prefix the project includes
    ProjectOf,    \* ProjectOf[f]: the project of f
    Depth,        \* commits a first poll looks back (20)
    MaxCommits,   \* MaxCommits[p]: bound on the commits of p
    MaxVersions   \* MaxVersions[f]: bound on the versions of f

ASSUME CodeSyncAssumption ==
    /\ Order \in Seq(Projects) /\ Order # <<>> /\ Projects = {Order[i] : i \in DOMAIN Order}
    /\ ProjectOf \in [Files -> Projects]
    /\ Depth \in Nat /\ MaxCommits \in [Projects -> Nat \ {0}]
    /\ MaxVersions \in [Files -> Nat \ {0}]

Versions == UNION {0..MaxVersions[f] : f \in Files}      \* 0: there is no such file
Commits  == UNION {1..MaxCommits[p] : p \in Projects}
Unknown  == 0                   \* the state file is missing or empty
Trees    == [Files -> Versions]

VARIABLES
    made,       \* made[p]: commits made so far; their trees are
    tree,       \* tree[p][c], where only the files of p count
    branch,     \* branch[p]: the commits HEAD reaches, the last one is HEAD
    gone,       \* gone[p]: commits git has collected
    work,       \* work[f]: the version in the working tree
    newest,     \* newest[f]: the last version made
    saved,      \* saved[p]: the commit in code-sync-<p>.txt
    pc, at,     \* what the poll does next, in which project
    changed,    \* changed_files
    docs,       \* all_docs: <<file, version>>
    indexed,    \* files and versions with rows in events
    lost        \* those this code does not come back to: they could not be read or stored,
                \* were in hand when a poll ended, were committed during a scan, had an
                \* uncommitted change over them, or were not in the answer of git

repo  == <<made, tree, branch, gone>>
poll  == <<pc, at, changed, docs>>
vars  == <<made, tree, branch, gone, work, newest, saved, pc, at, changed, docs, indexed,
           lost>>

FileVersions == Files \X Versions

TypeOK ==
    /\ made \in [Projects -> Commits] /\ tree \in [Projects -> [Commits -> Trees]]
    /\ branch \in [Projects -> Seq(Commits)] /\ gone \in [Projects -> SUBSET Commits]
    /\ \A p \in Projects :
          /\ branch[p] # <<>> /\ gone[p] \subseteq 1..made[p]
          /\ \A i \in DOMAIN branch[p] : branch[p][i] \in 1..made[p] \ gone[p]
    /\ work \in Trees /\ newest \in Trees /\ saved \in [Projects -> Commits \cup {Unknown}]
    /\ \A p \in Projects : saved[p] <= made[p]
    /\ pc \in {"idle", "diff", "work", "read", "head", "store"} /\ at \in 1..Len(Order) + 1
    /\ (pc \notin {"idle", "store"} => at <= Len(Order))
    /\ changed \subseteq Files /\ (pc \in {"idle", "store"} => changed = {})
    /\ docs \subseteq FileVersions /\ (pc = "idle" => docs = {})
    /\ indexed \subseteq FileVersions /\ lost \subseteq FileVersions

Init ==
    /\ made = [p \in Projects |-> 1]
    /\ tree = [p \in Projects |-> [c \in Commits |-> [f \in Files |-> IF c = 1 THEN 1 ELSE 0]]]
    /\ branch = [p \in Projects |-> <<1>>] /\ gone = [p \in Projects |-> {}]
    /\ work = [f \in Files |-> 1] /\ newest = [f \in Files |-> 1]
    /\ saved = [p \in Projects |-> Unknown]
    /\ pc = "idle" /\ at = 1 /\ changed = {} /\ docs = {}
    /\ indexed = {} /\ lost = {}

-----------------------------------------------------------------------------
(* git.                                                                    *)
FilesOf(p)    == {f \in Files : ProjectOf[f] = p}
HeadOf(p)       == branch[p][Len(branch[p])]
HeadTree(p)   == tree[p][HeadOf(p)]
Differ(p, c, d) == {f \in FilesOf(p) : tree[p][c][f] # tree[p][d][f]}

(* git log --name-only -<Depth>; the first commit touches all its files.   *)
Touched(p, i) == IF i = 1 THEN {f \in FilesOf(p) : tree[p][branch[p][1]][f] # 0}
                 ELSE Differ(p, branch[p][i - 1], branch[p][i])
Logged(p) ==
    UNION {Touched(p, i) : i \in {j \in DOMAIN branch[p] : j + Depth > Len(branch[p])}}

(* git diff --name-only HEAD.                                              *)
Uncommitted(p) == {f \in FilesOf(p) : work[f] # HeadTree(p)[f]}

-----------------------------------------------------------------------------
(* The developers.                                                         *)
Edit(f) ==
    /\ newest[f] < MaxVersions[f]
    /\ newest' = [newest EXCEPT ![f] = @ + 1]
    /\ work' = [work EXCEPT ![f] = newest[f] + 1]
    /\ UNCHANGED <<repo, saved, poll, indexed, lost>>

Restore(f) ==
    /\ f \in Uncommitted(ProjectOf[f])
    /\ work' = [work EXCEPT ![f] = HeadTree(ProjectOf[f])[f]]
    /\ UNCHANGED <<repo, newest, saved, poll, indexed, lost>>

Delete(f) ==
    /\ work[f] # 0 /\ work' = [work EXCEPT ![f] = 0]
    /\ UNCHANGED <<repo, newest, saved, poll, indexed, lost>>

(* A new HEAD; what changes between the first diff of a scan and the       *)
(* reading of HEAD is noted.                                               *)
Scanning(p) == pc \in {"work", "read", "head"} /\ Order[at] = p

NewHead(p, line) ==
    LET c == made[p] + 1 IN
    /\ made[p] < MaxCommits[p]
    /\ made' = [made EXCEPT ![p] = c]
    /\ tree' = [tree EXCEPT ![p][c] = [f \in Files |-> IF ProjectOf[f] = p THEN work[f] ELSE 0]]
    /\ branch' = [branch EXCEPT ![p] = line \o <<c>>]
    /\ lost' = IF Scanning(p)
               THEN lost \cup {<<f, work[f]>> : f \in Uncommitted(p)} ELSE lost
    /\ UNCHANGED <<gone, work, newest, saved, poll, indexed>>

Commit(p) == Uncommitted(p) # {} /\ NewHead(p, branch[p])
Amend(p)  == NewHead(p, SubSeq(branch[p], 1, Len(branch[p]) - 1))

(* Commits HEAD does not reach are collected, or left behind by a new clone. *)
Collect(p) ==
    /\ ~Scanning(p)
    /\ gone' = [gone EXCEPT ![p] = 1..made[p] \ {branch[p][i] : i \in DOMAIN branch[p]}]
    /\ gone' # gone
    /\ UNCHANGED <<made, tree, branch, work, newest, saved, poll, indexed, lost>>

-----------------------------------------------------------------------------
(* _code_poll_loop and ingest_incremental.                                 *)
Begin ==
    /\ pc = "idle" /\ pc' = "diff" /\ at' = 1
    /\ UNCHANGED <<repo, work, newest, saved, changed, docs, indexed, lost>>

NextProject ==
    /\ changed' = {}
    /\ IF at < Len(Order) THEN at' = at + 1 /\ pc' = "diff" ELSE at' = at /\ pc' = "store"

(* The files git names for the commit in the state file: none when it does *)
(* not know that commit, since its exit code is not looked at.             *)
Since(p) ==
    IF saved[p] = Unknown THEN Logged(p)
    ELSE IF saved[p] \in gone[p] THEN {} ELSE Differ(p, saved[p], HeadOf(p))

DiffCommits ==
    /\ pc = "diff" /\ pc' = "work"
    /\ changed' = Since(Order[at])
    /\ UNCHANGED <<repo, work, newest, saved, at, docs, indexed, lost>>

(* Without changes the commit in the state file stays.                     *)
DiffWork ==
    LET all == changed \cup Uncommitted(Order[at]) IN
    /\ pc = "work"
    /\ IF all = {} THEN NextProject ELSE changed' = all /\ pc' = "read" /\ at' = at
    /\ UNCHANGED <<repo, work, newest, saved, docs, indexed, lost>>

(* Mutation: a project that was passed over is marked as done.             *)
GitFails_Saves ==
    /\ pc \in {"diff", "work"} /\ NextProject
    /\ saved' = [saved EXCEPT ![Order[at]] = HeadOf(Order[at])]
    /\ UNCHANGED <<repo, work, newest, docs, indexed, lost>>

(* No repository, no git, or no answer in time: the project is passed over. *)
GitFails ==
    /\ pc \in {"diff", "work"} /\ NextProject
    /\ UNCHANGED <<repo, work, newest, saved, docs, indexed, lost>>

ReadFiles ==
    LET p     == Order[at]
        there == {<<f, work[f]>> : f \in {g \in changed : work[g] # 0}}
    IN
    /\ pc = "read" /\ pc' = "head"
    /\ \E unreadable \in SUBSET there :
          /\ docs' = docs \cup (there \ unreadable)
          /\ lost' = lost \cup unreadable
                \cup {<<f, HeadTree(p)[f]>> : f \in changed \cap Uncommitted(p)}
    /\ UNCHANGED <<repo, work, newest, saved, at, changed, indexed>>

(* HEAD goes to the state file; an error is passed over.                   *)
SaveHead ==
    LET p == Order[at] IN
    /\ pc = "head" /\ NextProject
    /\ \/ /\ saved' = [saved EXCEPT ![p] = HeadOf(p)]
          /\ lost' = IF saved[p] \in gone[p] \cup {Unknown}
                     THEN lost \cup {<<f, HeadTree(p)[f]>> : f \in FilesOf(p) \ changed}
                     ELSE lost
       \/ UNCHANGED <<saved, lost>>
    /\ UNCHANGED <<repo, work, newest, docs, indexed>>

(* _ingest_docs: the rows of a file, or an error that is only counted.     *)
StoreFile ==
    /\ pc = "store"
    /\ \E d \in docs :
          /\ docs' = docs \ {d}
          /\ \/ indexed' = indexed \cup {d} /\ UNCHANGED lost
             \/ lost' = lost \cup {d} /\ UNCHANGED indexed
    /\ UNCHANGED <<repo, work, newest, saved, pc, at, changed>>

EndPoll ==
    /\ pc = "store" /\ docs = {} /\ pc' = "idle" /\ at' = 1
    /\ UNCHANGED <<repo, work, newest, saved, changed, docs, indexed, lost>>

(* The process stops, or a project raises an error, which ends the poll    *)
(* for all of them; a stop within write_text leaves the file empty.        *)
Abandon ==
    /\ pc # "idle" /\ pc' = "idle" /\ at' = 1 /\ changed' = {} /\ docs' = {}
    /\ lost' = lost \cup docs
    /\ \/ UNCHANGED saved
       \/ pc = "head" /\ saved' = [saved EXCEPT ![Order[at]] = Unknown]
    /\ UNCHANGED <<repo, work, newest, indexed>>

-----------------------------------------------------------------------------
(* seed-code.py, a process of its own: it reads all files of a project and *)
(* then stores them, and leaves the state file alone.  The scan may be     *)
(* older than what the poll knows by the time a file is stored.            *)
Scanned(f) == 1..newest[f]

IndexFile(f) ==
    /\ \E v \in Scanned(f) : indexed' = indexed \cup {<<f, v>>}
    /\ UNCHANGED <<repo, work, newest, saved, poll, lost>>

-----------------------------------------------------------------------------
Poll == Begin \/ DiffCommits \/ DiffWork \/ GitFails \/ ReadFiles \/ SaveHead \/ StoreFile \/ EndPoll

Next ==
    \/ \E f \in Files : Edit(f) \/ Restore(f) \/ Delete(f) \/ IndexFile(f)
    \/ \E p \in Projects : Commit(p) \/ Amend(p) \/ Collect(p)
    \/ Poll \/ Abandon

Spec == Init /\ [][Next]_vars

-----------------------------------------------------------------------------
(* What HEAD holds is indexed, in hand, or among the files the next poll   *)
(* will be told of.  The exceptions are what the code does not recover:    *)
(* files that could not be read or stored, or were in hand when a poll was *)
(* abandoned; versions that had an uncommitted change over them, which may *)
(* be undone; commits made during a scan; and all changes once git does    *)
(* not know the commit of the state file, or a first poll looked back too  *)
(* few commits.                                                            *)
IndexedOrPending ==
    \A f \in Files :
        LET p == ProjectOf[f]
            d == <<f, HeadTree(p)[f]>>
        IN \/ d[2] = 0
           \/ d \in indexed \cup docs \cup lost
           \/ f \in Since(p)
           \/ saved[p] \in gone[p] \cup {Unknown}
=============================================================================
