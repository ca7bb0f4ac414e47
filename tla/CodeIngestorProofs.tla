------------------------- MODULE CodeIngestorProofs -------------------------
(* Proofs about the ingestor of the source code.  CodeSync: no version     *)
(* that HEAD holds is passed over unnoticed, for any projects and files,   *)
(* and whatever the developers do, with every interleaving of their steps  *)
(* with those of the poll.  Chunking: every text is cut into pieces        *)
(* without a gap or an overlap, whatever its length and the size of a      *)
(* piece.                                                                  *)
EXTENDS CodeSync, Chunking, FiniteSetTheorems, FunctionTheorems, WellFoundedInduction, TLAPS

Covered(f, v) == v = 0 \/ <<f, v>> \in indexed \cup docs \cup lost

(* Everything in the commit of the state file has been dealt with.         *)
SavedCovered ==
    \A f \in Files : saved[ProjectOf[f]] # Unknown =>
        Covered(f, tree[ProjectOf[f]][saved[ProjectOf[f]]][f])

(* While a project is scanned, a file that is not on the list is as it was *)
(* in that commit, or it was dealt with.                                   *)
Known(p) == saved[p] \notin gone[p] \cup {Unknown}

ListComplete ==
    \A f \in Files :
        Scanning(ProjectOf[f]) /\ Known(ProjectOf[f]) /\ f \notin changed =>
            \/ HeadTree(ProjectOf[f])[f] = tree[ProjectOf[f]][saved[ProjectOf[f]]][f]
            \/ Covered(f, HeadTree(ProjectOf[f])[f])

(* When HEAD is about to be saved, the files on the list were dealt with.  *)
ListOfOne == \A f \in changed : pc \in {"work", "read", "head"} /\ ProjectOf[f] = Order[at]

ListRead == \A f \in changed : pc = "head" => Covered(f, HeadTree(ProjectOf[f])[f])

(* The typing, by parts.                                                   *)
RepoTyped ==
    /\ made \in [Projects -> Commits] /\ tree \in [Projects -> [Commits -> Trees]]
    /\ branch \in [Projects -> Seq(Commits)] /\ gone \in [Projects -> SUBSET Commits]
    /\ \A p \in Projects :
          /\ branch[p] # <<>> /\ gone[p] \subseteq 1..made[p]
          /\ \A i \in DOMAIN branch[p] : branch[p][i] \in 1..made[p] \ gone[p]

FilesTyped ==
    /\ work \in Trees /\ newest \in Trees /\ saved \in [Projects -> Commits \cup {Unknown}]
    /\ \A p \in Projects : saved[p] <= made[p]

PollTyped ==
    /\ pc \in {"idle", "diff", "work", "read", "head", "store"} /\ at \in 1..Len(Order) + 1
    /\ (pc \notin {"idle", "store"} => at <= Len(Order))
    /\ changed \subseteq Files /\ (pc \in {"idle", "store"} => changed = {})
    /\ docs \subseteq FileVersions /\ (pc = "idle" => docs = {})
    /\ indexed \subseteq FileVersions /\ lost \subseteq FileVersions

IInv == RepoTyped /\ FilesTyped /\ PollTyped /\ SavedCovered /\ ListOfOne /\ ListComplete /\ ListRead

LEMMA Typed == IInv => TypeOK
  BY DEF IInv, TypeOK, RepoTyped, FilesTyped, PollTyped

LEMMA InitHolds == Init => IInv
<1> SUFFICES ASSUME Init PROVE IInv
  OBVIOUS
<1>1. \A p \in Projects : 1 \in Commits
  BY CodeSyncAssumption DEF Commits
<1>2. \A f \in Files : 0 \in Versions /\ 1 \in Versions
  BY CodeSyncAssumption DEF Versions
<1>3. RepoTyped
  <2>1. made \in [Projects -> Commits]
    BY <1>1 DEF Init
  <2>2. tree \in [Projects -> [Commits -> Trees]]
    BY <1>2 DEF Init, Trees
  <2>3. branch \in [Projects -> Seq(Commits)]
    BY <1>1 DEF Init
  <2>4. \A p \in Projects :
          /\ branch[p] # <<>> /\ gone[p] \subseteq 1..made[p]
          /\ \A i \in DOMAIN branch[p] : branch[p][i] \in 1..made[p] \ gone[p]
    BY DEF Init
  <2>5. gone \in [Projects -> SUBSET Commits]
    BY DEF Init
  <2>6. QED
    BY <2>1, <2>2, <2>3, <2>4, <2>5 DEF RepoTyped
<1>4. FilesTyped
  BY <1>2 DEF Init, FilesTyped, Trees, Unknown
<1>5. PollTyped
  BY CodeSyncAssumption DEF Init, PollTyped
<1>6. SavedCovered /\ ListOfOne /\ ListComplete /\ ListRead
  BY CodeSyncAssumption DEF Init, SavedCovered, ListOfOne, ListComplete, ListRead, Scanning
<1>7. QED
  BY <1>3, <1>4, <1>5, <1>6 DEF IInv

-----------------------------------------------------------------------------
LEMMA Heads ==
    ASSUME IInv, NEW p \in Projects
    PROVE  /\ HeadOf(p) \in Commits /\ HeadOf(p) \in 1..made[p] /\ HeadOf(p) \notin gone[p]
           /\ HeadTree(p) \in Trees /\ \A c \in Commits : tree[p][c] \in Trees
<1>1. branch[p] \in Seq(Commits) /\ branch[p] # <<>>
  BY DEF IInv, RepoTyped
<1>2. Len(branch[p]) \in DOMAIN branch[p]
  BY <1>1
<1>3. HeadOf(p) \in Commits /\ HeadOf(p) \in 1..made[p] \ gone[p]
  BY <1>1, <1>2 DEF HeadOf, IInv, RepoTyped
<1>4. \A c \in Commits : tree[p][c] \in Trees
  BY DEF IInv, RepoTyped
<1>5. QED
  BY <1>3, <1>4 DEF HeadTree

LEMMA RepoKept ==
    ASSUME IInv, UNCHANGED repo
    PROVE  /\ RepoTyped' /\ UNCHANGED <<made, tree, branch, gone>>
           /\ \A p \in Projects : HeadTree(p)' = HeadTree(p) /\ HeadOf(p)' = HeadOf(p)
  BY DEF IInv, RepoTyped, repo, HeadTree, HeadOf

(* A step that leaves git and the poll alone, and takes nothing back.      *)
LEMMA BesideThePoll ==
    ASSUME IInv, FilesTyped', PollTyped', UNCHANGED <<repo, saved, pc, at, changed>>,
           indexed \cup docs \cup lost \subseteq indexed' \cup docs' \cup lost'
    PROVE  IInv'
<1>1. RepoTyped' /\ UNCHANGED <<made, tree, branch, gone>>
      /\ \A p \in Projects : HeadTree(p)' = HeadTree(p)
  BY RepoKept
<1>2. \A f \in Files : ProjectOf[f] \in Projects
  BY CodeSyncAssumption
<1>3. SavedCovered'
  BY <1>1 DEF IInv, SavedCovered, Covered
<1>4. ListOfOne'
  BY DEF IInv, ListOfOne
<1>5. ListComplete'
  BY <1>1, <1>2 DEF IInv, ListComplete, Scanning, Known, Covered
<1>6. ListRead'
  <2>1. changed \subseteq Files
    BY DEF IInv, PollTyped
  <2>2. QED
    BY <1>1, <1>2, <2>1 DEF IInv, ListRead, Covered
<1>7. QED
  BY <1>1, <1>3, <1>4, <1>5, <1>6 DEF IInv

LEMMA EditKeeps ==
    ASSUME IInv, NEW f \in Files, Edit(f) \/ Restore(f) \/ Delete(f)
    PROVE  IInv'
<1>1. UNCHANGED <<repo, saved, poll, indexed, lost>>
  BY DEF Edit, Restore, Delete
<1>2. FilesTyped'
  <2>1. work \in [Files -> Versions] /\ newest \in [Files -> Versions]
    BY DEF IInv, FilesTyped, Trees
  <2>2. CASE Edit(f)
    <3>1. newest[f] \in Nat
      BY <2>1, CodeSyncAssumption DEF Versions
    <3>2. newest[f] + 1 \in 0..MaxVersions[f]
      BY <2>2, <3>1, CodeSyncAssumption DEF Edit
    <3>3. newest[f] + 1 \in Versions
      BY <3>2 DEF Versions
    <3>4. QED
      BY <1>1, <2>1, <2>2, <3>3 DEF Edit, IInv, FilesTyped, Trees, repo
  <2>3. CASE Restore(f)
    <3>1. HeadTree(ProjectOf[f])[f] \in Versions
      BY Heads, CodeSyncAssumption DEF Trees
    <3>2. QED
      BY <1>1, <2>1, <2>3, <3>1 DEF Restore, IInv, FilesTyped, Trees, repo
  <2>4. CASE Delete(f)
    <3>1. 0 \in Versions
      BY CodeSyncAssumption DEF Versions
    <3>2. newest' = newest /\ work' = [work EXCEPT ![f] = 0]
      BY <2>4 DEF Delete
    <3>3. QED
      BY <1>1, <2>1, <3>1, <3>2 DEF IInv, FilesTyped, Trees, repo
  <2>5. QED
    BY <2>2, <2>3, <2>4
<1>3. PollTyped'
  BY <1>1 DEF IInv, PollTyped, poll
<1>4. QED
  BY <1>1, <1>2, <1>3, BesideThePoll DEF poll

LEMMA CommitsAreNumbers == \A c \in Commits : c \in Nat \ {0}
<1> SUFFICES ASSUME NEW c \in Commits PROVE c \in Nat \ {0}
  OBVIOUS
<1>1. PICK p \in Projects : c \in 1..MaxCommits[p]
  BY DEF Commits
<1>2. MaxCommits[p] \in Nat
  BY CodeSyncAssumption
<1>3. QED
  BY <1>1, <1>2

LEMMA NoFile == \A f \in Files : 0 \in Versions
  BY CodeSyncAssumption DEF Versions

LEMMA NewHeadKeeps ==
    ASSUME IInv, NEW p \in Projects, NEW line \in Seq(Commits), NewHead(p, line),
           \A i \in DOMAIN line : line[i] \in 1..made[p] \ gone[p]
    PROVE  IInv'
<1> DEFINE c   == made[p] + 1
           new == [f \in Files |-> IF ProjectOf[f] = p THEN work[f] ELSE 0]
<1>1. /\ made[p] < MaxCommits[p] /\ made' = [made EXCEPT ![p] = c]
      /\ tree' = [tree EXCEPT ![p][c] = new] /\ branch' = [branch EXCEPT ![p] = line \o <<c>>]
      /\ lost' = (IF Scanning(p) THEN lost \cup {<<f, work[f]>> : f \in Uncommitted(p)} ELSE lost)
      /\ UNCHANGED <<gone, work, newest, saved, poll, indexed>>
  BY DEF NewHead
<1>2. made[p] \in Nat \ {0} /\ c \in Commits /\ c \in 1..c
  <2>1. MaxCommits[p] \in Nat
    BY CodeSyncAssumption
  <2>2. made[p] \in Nat \ {0}
    BY CommitsAreNumbers DEF IInv, RepoTyped
  <2>3. c \in 1..MaxCommits[p]
    BY <1>1, <2>1, <2>2
  <2>4. QED
    BY <2>2, <2>3 DEF Commits
<1>3. new \in Trees
  BY NoFile DEF IInv, FilesTyped, Trees
<1>4. \A f \in Files : ProjectOf[f] = p => new[f] = work[f]
  OBVIOUS
<1> HIDE DEF c, new
<1>5. \A q \in Projects, d \in Commits : tree'[q][d] = IF q = p /\ d = c THEN new ELSE tree[q][d]
  BY <1>1, <1>2 DEF IInv, RepoTyped
<1>6. \A q \in Projects : q # p => HeadTree(q)' = HeadTree(q)
  <2>1. ASSUME NEW q \in Projects, q # p PROVE HeadTree(q)' = HeadTree(q)
    <3>1. branch'[q] = branch[q] /\ tree'[q] = tree[q]
      BY <1>1, <2>1 DEF IInv, RepoTyped
    <3>2. QED
      BY <3>1 DEF HeadTree, HeadOf
  <2>2. QED
    BY <2>1
<1>7. branch'[p] = line \o <<c>>
  BY <1>1 DEF IInv, RepoTyped
<1>8. /\ line \o <<c>> \in Seq(Commits) /\ Len(line \o <<c>>) = Len(line) + 1
      /\ (line \o <<c>>)[Len(line) + 1] = c
      /\ \A i \in DOMAIN (line \o <<c>>) :
            (i \in DOMAIN line /\ (line \o <<c>>)[i] = line[i]) \/ (line \o <<c>>)[i] = c
  BY <1>2
<1>9. HeadTree(p)' = new
  BY <1>2, <1>5, <1>7, <1>8 DEF HeadTree, HeadOf
<1>10. RepoTyped'
  <2>1. made' \in [Projects -> Commits] /\ gone' \in [Projects -> SUBSET Commits]
    BY <1>1, <1>2 DEF IInv, RepoTyped
  <2>2. tree' \in [Projects -> [Commits -> Trees]]
    BY <1>1, <1>2, <1>3 DEF IInv, RepoTyped
  <2>3. branch' \in [Projects -> Seq(Commits)]
    BY <1>1, <1>8 DEF IInv, RepoTyped
  <2>4. ASSUME NEW q \in Projects
        PROVE  /\ branch'[q] # <<>> /\ gone'[q] \subseteq 1..made'[q]
               /\ \A i \in DOMAIN branch'[q] : branch'[q][i] \in 1..made'[q] \ gone'[q]
    <3>1. CASE q = p
      <4>1. made'[p] = c /\ gone'[p] = gone[p] /\ gone[p] \subseteq 1..made[p]
        BY <1>1 DEF IInv, RepoTyped
      <4>2. 1..made[p] \subseteq 1..c /\ c \notin 1..made[p]
        BY <1>2 DEF c
      <4>3. branch'[p] # <<>>
        BY <1>7, <1>8
      <4>4. \A i \in DOMAIN branch'[p] : branch'[p][i] \in 1..c \ gone[p]
        BY <1>2, <1>7, <1>8, <4>1, <4>2
      <4>5. QED
        BY <3>1, <4>1, <4>2, <4>3, <4>4
    <3>2. CASE q # p
      BY <1>1, <3>2 DEF IInv, RepoTyped
    <3>3. QED
      BY <3>1, <3>2
  <2>5. QED
    BY <2>1, <2>2, <2>3, <2>4 DEF RepoTyped
<1>11. FilesTyped'
  <2>1. \A q \in Projects : saved[q] <= made[q] /\ saved[q] \in Nat /\ made[q] \in Nat
    BY CommitsAreNumbers DEF IInv, RepoTyped, FilesTyped, Unknown
  <2>2. \A q \in Projects : made'[q] = IF q = p THEN c ELSE made[q]
    BY <1>1 DEF IInv, RepoTyped
  <2>3. \A q \in Projects : saved'[q] <= made'[q]
    BY <1>1, <2>1, <2>2 DEF c
  <2>4. QED
    BY <1>1, <2>3 DEF IInv, FilesTyped
<1>12. PollTyped'
  <2>1. lost' \subseteq FileVersions
    BY <1>1 DEF IInv, PollTyped, FilesTyped, Trees, FileVersions, Uncommitted, FilesOf
  <2>2. QED
    BY <1>1, <2>1 DEF IInv, PollTyped, poll
<1>13. \A f \in Files, v \in Versions : Covered(f, v) => Covered(f, v)'
  BY <1>1 DEF Covered, poll
<1>14. SavedCovered'
  <2> SUFFICES ASSUME NEW f \in Files, saved[ProjectOf[f]] # Unknown
               PROVE  Covered(f, tree[ProjectOf[f]][saved[ProjectOf[f]]][f])'
    BY <1>1 DEF SavedCovered
  <2> DEFINE q == ProjectOf[f]
  <2>1. q \in Projects
    BY CodeSyncAssumption
  <2>2. saved[q] \in Commits /\ saved[q] <= made[q]
    BY <2>1 DEF IInv, FilesTyped
  <2>3. q = p => saved[q] # c
    BY <1>2, <2>2 DEF c
  <2>4. tree'[q][saved[q]] = tree[q][saved[q]]
    BY <1>5, <2>1, <2>2, <2>3
  <2>5. Covered(f, tree[q][saved[q]][f])
    BY DEF IInv, SavedCovered
  <2>6. tree[q][saved[q]][f] \in Versions
    BY <2>1, <2>2, Heads DEF Trees
  <2>7. QED
    BY <1>1, <1>13, <2>4, <2>5, <2>6 DEF Covered
<1>15. ListOfOne'
  BY <1>1 DEF IInv, ListOfOne, poll
(* What was changed since the list was made is noted in lost.              *)
<1>16. ASSUME NEW f \in Files, Scanning(ProjectOf[f])
       PROVE  \/ HeadTree(ProjectOf[f])'[f] = HeadTree(ProjectOf[f])[f]
              \/ Covered(f, HeadTree(ProjectOf[f])[f])'
  <2>1. CASE ProjectOf[f] # p
    BY <1>6, <2>1, CodeSyncAssumption
  <2>2. CASE ProjectOf[f] = p
    <3>1. HeadTree(p)'[f] = work[f]
      BY <1>4, <1>9, <2>2
    <3>2. CASE f \in Uncommitted(p)
      <4>1. <<f, work[f]>> \in lost'
        BY <1>1, <1>16, <2>2, <3>2
      <4>2. QED
        BY <2>2, <3>1, <4>1 DEF Covered
    <3>3. CASE f \notin Uncommitted(p)
      BY <2>2, <3>1, <3>3 DEF Uncommitted, FilesOf
    <3>4. QED
      BY <3>2, <3>3
  <2>3. QED
    BY <2>1, <2>2
<1>17. ListComplete'
  <2> SUFFICES ASSUME NEW f \in Files, Scanning(ProjectOf[f]), Known(ProjectOf[f]), f \notin changed
               PROVE  \/ HeadTree(ProjectOf[f])'[f] = tree'[ProjectOf[f]][saved[ProjectOf[f]]][f]
                      \/ Covered(f, HeadTree(ProjectOf[f])[f])'
    BY <1>1 DEF ListComplete, Scanning, Known, poll
  <2> DEFINE q == ProjectOf[f]
  <2>1. q \in Projects
    BY CodeSyncAssumption
  <2>2. saved[q] \in Commits /\ saved[q] <= made[q]
    BY <2>1 DEF IInv, FilesTyped, Known
  <2>3. tree'[q][saved[q]] = tree[q][saved[q]]
    BY <1>2, <1>5, <2>1, <2>2 DEF c
  <2>4. HeadTree(q)[f] = tree[q][saved[q]][f] \/ Covered(f, HeadTree(q)[f])
    BY DEF IInv, ListComplete
  <2>5. HeadTree(q)[f] \in Versions
    BY <2>1, Heads DEF Trees
  <2>6. CASE HeadTree(q)'[f] = HeadTree(q)[f]
    BY <1>13, <2>3, <2>4, <2>5, <2>6 DEF Covered
  <2>7. CASE Covered(f, HeadTree(q)[f])'
    BY <2>7
  <2>8. QED
    BY <1>16, <2>6, <2>7
<1>18. ListRead'
  <2> SUFFICES ASSUME NEW f \in changed, pc = "head"
               PROVE  Covered(f, HeadTree(ProjectOf[f])[f])'
    BY <1>1 DEF ListRead, poll
  <2>1. f \in Files /\ Scanning(ProjectOf[f]) /\ ProjectOf[f] \in Projects
    BY CodeSyncAssumption DEF IInv, PollTyped, ListOfOne, Scanning
  <2>2. Covered(f, HeadTree(ProjectOf[f])[f]) /\ HeadTree(ProjectOf[f])[f] \in Versions
    BY <2>1, Heads DEF IInv, ListRead, Trees
  <2>3. QED
    BY <1>13, <1>16, <2>1, <2>2 DEF Covered
<1>19. QED
  BY <1>10, <1>11, <1>12, <1>14, <1>15, <1>17, <1>18 DEF IInv

LEMMA CommitKeeps ==
    ASSUME IInv, NEW p \in Projects, Commit(p) \/ Amend(p)
    PROVE  IInv'
<1>1. branch[p] \in Seq(Commits) /\ branch[p] # <<>>
      /\ \A i \in DOMAIN branch[p] : branch[p][i] \in 1..made[p] \ gone[p]
  BY DEF IInv, RepoTyped
<1>2. CASE Commit(p)
  BY <1>1, <1>2, NewHeadKeeps DEF Commit
<1>3. CASE Amend(p)
  <2> DEFINE line == SubSeq(branch[p], 1, Len(branch[p]) - 1)
  <2>1. line \in Seq(Commits) /\ \A i \in DOMAIN line : i \in DOMAIN branch[p] /\ line[i] = branch[p][i]
    BY <1>1
  <2>2. \A i \in DOMAIN line : line[i] \in 1..made[p] \ gone[p]
    BY <1>1, <2>1
  <2>3. NewHead(p, line)
    BY <1>3 DEF Amend
  <2> HIDE DEF line
  <2>4. QED
    BY <2>1, <2>2, <2>3, NewHeadKeeps
<1>4. QED
  BY <1>2, <1>3

LEMMA CollectKeeps ==
    ASSUME IInv, NEW p \in Projects, Collect(p)
    PROVE  IInv'
<1> DEFINE dropped == 1..made[p] \ {branch[p][i] : i \in DOMAIN branch[p]}
<1>1. /\ ~Scanning(p) /\ gone' = [gone EXCEPT ![p] = dropped]
      /\ UNCHANGED <<made, tree, branch, work, newest, saved, poll, indexed, lost>>
  BY DEF Collect
<1>2. \A q \in Projects : gone'[q] = IF q = p THEN dropped ELSE gone[q]
  BY <1>1 DEF IInv, RepoTyped
<1>3. dropped \subseteq Commits
  <2>1. made[p] \in Nat /\ made[p] \in Commits
    BY CommitsAreNumbers DEF IInv, RepoTyped
  <2>2. PICK q \in Projects : made[p] \in 1..MaxCommits[q]
    BY <2>1 DEF Commits
  <2>3. 1..made[p] \subseteq 1..MaxCommits[q]
    BY <2>1, <2>2, CodeSyncAssumption
  <2>4. QED
    BY <2>3 DEF Commits
<1>4. RepoTyped'
  <2>1. gone' \in [Projects -> SUBSET Commits]
    BY <1>1, <1>3 DEF IInv, RepoTyped
  <2>2. ASSUME NEW q \in Projects
        PROVE  /\ gone'[q] \subseteq 1..made[q]
               /\ \A i \in DOMAIN branch[q] : branch[q][i] \in 1..made[q] \ gone'[q]
    <3>1. \A i \in DOMAIN branch[q] : branch[q][i] \in 1..made[q] \ gone[q]
      BY DEF IInv, RepoTyped
    <3>2. CASE q = p
      <4>1. gone'[q] = dropped /\ \A i \in DOMAIN branch[q] : branch[q][i] \notin dropped
        BY <1>2, <3>2
      <4>2. QED
        BY <3>1, <3>2, <4>1
    <3>3. CASE q # p
      BY <1>2, <3>1, <3>3 DEF IInv, RepoTyped
    <3>4. QED
      BY <3>2, <3>3
  <2>3. QED
    BY <1>1, <2>1, <2>2 DEF IInv, RepoTyped
<1>5. FilesTyped' /\ PollTyped'
  BY <1>1 DEF IInv, FilesTyped, PollTyped, poll
<1>6. SavedCovered' /\ ListOfOne' /\ ListRead'
  BY <1>1 DEF IInv, SavedCovered, ListOfOne, ListRead, Covered, HeadTree, HeadOf, poll
<1>7. ListComplete'
  <2> SUFFICES ASSUME NEW f \in Files, Scanning(ProjectOf[f]), Known(ProjectOf[f])', f \notin changed
               PROVE  \/ HeadTree(ProjectOf[f])[f] = tree[ProjectOf[f]][saved[ProjectOf[f]]][f]
                      \/ Covered(f, HeadTree(ProjectOf[f])[f])
    BY <1>1 DEF ListComplete, Scanning, Covered, HeadTree, HeadOf, poll
  <2>1. ProjectOf[f] # p
    BY <1>1
  <2>2. Known(ProjectOf[f])
    BY <1>1, <1>2, <2>1, CodeSyncAssumption DEF Known
  <2>3. QED
    BY <2>2 DEF IInv, ListComplete
<1>8. QED
  BY <1>4, <1>5, <1>6, <1>7 DEF IInv

-----------------------------------------------------------------------------
(* The poll.                                                               *)

(* A step that leaves no list of files behind it.                          *)
LEMMA ListGone ==
    ASSUME IInv, UNCHANGED repo, FilesTyped', PollTyped', SavedCovered',
           changed' = {}, pc' \in {"idle", "diff", "store"}
    PROVE  IInv'
<1>1. RepoTyped'
  BY RepoKept
<1>2. ListOfOne' /\ ListComplete' /\ ListRead'
  BY DEF ListOfOne, ListComplete, ListRead, Scanning
<1>3. QED
  BY <1>1, <1>2 DEF IInv

LEMMA SavedStays ==
    ASSUME IInv, UNCHANGED <<repo, saved>>,
           indexed \cup docs \cup lost \subseteq indexed' \cup docs' \cup lost'
    PROVE  SavedCovered'
  BY RepoKept DEF IInv, SavedCovered, Covered

LEMMA NextProjectTyped ==
    ASSUME IInv, pc \in {"diff", "work", "head"}, NextProject,
           UNCHANGED <<docs, indexed>>, lost' \subseteq FileVersions
    PROVE  PollTyped' /\ changed' = {} /\ pc' \in {"diff", "store"}
<1>1. at \in 1..Len(Order) /\ Len(Order) \in Nat
  BY CodeSyncAssumption DEF IInv, PollTyped
<1>2. QED
  BY <1>1 DEF NextProject, IInv, PollTyped

LEMMA BeginKeeps == IInv /\ (Begin \/ EndPoll) => IInv'
<1> SUFFICES ASSUME IInv, Begin \/ EndPoll PROVE IInv'
  OBVIOUS
<1>1. UNCHANGED <<repo, work, newest, saved, changed, docs, indexed, lost>>
  BY DEF Begin, EndPoll
<1>2. FilesTyped' /\ SavedCovered'
  BY <1>1, SavedStays DEF IInv, FilesTyped, repo
<1>3. changed' = {} /\ pc' \in {"idle", "diff"}
  BY <1>1 DEF Begin, EndPoll, IInv, PollTyped
<1>4. PollTyped'
  <2>1. CASE Begin
    <3>1. Len(Order) \in Nat /\ Len(Order) >= 1
      BY CodeSyncAssumption
    <3>2. QED
      BY <1>1, <2>1, <3>1 DEF Begin, IInv, PollTyped
  <2>2. CASE EndPoll
    BY <1>1, <2>2, CodeSyncAssumption DEF EndPoll, IInv, PollTyped
  <2>3. QED
    BY <2>1, <2>2
<1>5. QED
  BY <1>1, <1>2, <1>3, <1>4, ListGone

LEMMA InProject ==
    ASSUME IInv, pc \notin {"idle", "store"}
    PROVE  Order[at] \in Projects
  BY CodeSyncAssumption DEF IInv, PollTyped

LEMMA GitFailsKeeps == IInv /\ GitFails => IInv'
<1> SUFFICES ASSUME IInv, GitFails PROVE IInv'
  OBVIOUS
<1>1. /\ pc \in {"diff", "work"} /\ NextProject
      /\ UNCHANGED <<repo, work, newest, saved, docs, indexed, lost>>
  BY DEF GitFails
<1>2. FilesTyped' /\ SavedCovered'
  BY <1>1, SavedStays DEF IInv, FilesTyped, repo
<1>3. lost' \subseteq FileVersions
  BY <1>1 DEF IInv, PollTyped
<1>4. PollTyped' /\ changed' = {} /\ pc' \in {"diff", "store"}
  BY <1>1, <1>3, NextProjectTyped
<1>5. QED
  BY <1>1, <1>2, <1>4, ListGone

LEMMA DiffCommitsKeeps == IInv /\ DiffCommits => IInv'
<1> SUFFICES ASSUME IInv, DiffCommits PROVE IInv'
  OBVIOUS
<1> DEFINE p == Order[at]
<1>1. /\ pc = "diff" /\ pc' = "work" /\ changed' = Since(p)
      /\ UNCHANGED <<repo, work, newest, saved, at, docs, indexed, lost>>
  BY DEF DiffCommits
<1>2. p \in Projects
  BY <1>1, InProject
<1>3. Since(p) \subseteq FilesOf(p)
  <2>1. \A c, d \in Commits \cup {Unknown} : Differ(p, c, d) \subseteq FilesOf(p)
    BY DEF Differ
  <2>2. \A i \in DOMAIN branch[p] : Touched(p, i) \subseteq FilesOf(p)
    BY DEF Touched, Differ
  <2>3. Logged(p) \subseteq FilesOf(p)
    BY <2>2 DEF Logged
  <2>4. QED
    BY <2>3 DEF Since, Differ
<1>4. RepoTyped' /\ FilesTyped' /\ SavedCovered' /\ UNCHANGED <<made, tree, branch, gone>>
      /\ \A q \in Projects : HeadTree(q)' = HeadTree(q)
  BY <1>1, RepoKept, SavedStays DEF IInv, FilesTyped
<1>5. PollTyped' /\ ListOfOne'
  BY <1>1, <1>3 DEF IInv, PollTyped, ListOfOne, FilesOf
<1>6. ListComplete'
  <2> SUFFICES ASSUME NEW f \in Files, ProjectOf[f] = p, Known(p), f \notin Since(p)
               PROVE  HeadTree(p)[f] = tree[p][saved[p]][f]
    BY <1>1, <1>2, <1>4 DEF ListComplete, Scanning, Known, HeadTree, HeadOf
  <2>1. f \notin Differ(p, saved[p], HeadOf(p))
    BY DEF Since, Known
  <2>2. QED
    BY <2>1 DEF Differ, FilesOf, HeadTree
<1>7. ListRead'
  BY <1>1 DEF ListRead
<1>8. QED
  BY <1>4, <1>5, <1>6, <1>7 DEF IInv

LEMMA DiffWorkKeeps == IInv /\ DiffWork => IInv'
<1> SUFFICES ASSUME IInv, DiffWork PROVE IInv'
  OBVIOUS
<1> DEFINE all == changed \cup Uncommitted(Order[at])
<1>1. /\ pc = "work" /\ UNCHANGED <<repo, work, newest, saved, docs, indexed, lost>>
      /\ IF all = {} THEN NextProject ELSE changed' = all /\ pc' = "read" /\ at' = at
  BY DEF DiffWork
<1>2. RepoTyped' /\ FilesTyped' /\ SavedCovered' /\ UNCHANGED <<made, tree, branch, gone>>
      /\ \A q \in Projects : HeadTree(q)' = HeadTree(q)
  BY <1>1, RepoKept, SavedStays DEF IInv, FilesTyped
<1>3. CASE all = {}
  <2>1. NextProject /\ lost' \subseteq FileVersions
    BY <1>1, <1>3 DEF IInv, PollTyped
  <2>2. PollTyped' /\ changed' = {} /\ pc' \in {"diff", "store"}
    BY <1>1, <2>1, NextProjectTyped
  <2>3. QED
    BY <1>1, <1>2, <2>2, ListGone
<1>4. CASE all # {}
  <2>1. changed' = all /\ pc' = "read" /\ at' = at
    BY <1>1, <1>4
  <2>2. all \subseteq Files /\ \A f \in all : ProjectOf[f] = Order[at]
    BY DEF IInv, PollTyped, ListOfOne, Uncommitted, FilesOf
  <2>3. PollTyped' /\ ListOfOne'
    BY <1>1, <2>1, <2>2 DEF IInv, PollTyped, ListOfOne
  <2>4. ListComplete'
    <3>1. \A f \in Files : ProjectOf[f] \in Projects
      BY CodeSyncAssumption
    <3>2. QED
      BY <1>1, <1>2, <2>1, <3>1 DEF IInv, ListComplete, Scanning, Known, Covered
  <2>5. ListRead'
    BY <2>1 DEF ListRead
  <2>6. QED
    BY <1>2, <2>3, <2>4, <2>5 DEF IInv
<1>5. QED
  BY <1>3, <1>4

LEMMA ReadFilesKeeps == IInv /\ ReadFiles => IInv'
<1> SUFFICES ASSUME IInv, ReadFiles PROVE IInv'
  OBVIOUS
<1> DEFINE p     == Order[at]
           there == {<<f, work[f]>> : f \in {g \in changed : work[g] # 0}}
           over  == {<<f, HeadTree(p)[f]>> : f \in changed \cap Uncommitted(p)}
<1>1. /\ pc = "read" /\ pc' = "head"
      /\ UNCHANGED <<repo, work, newest, saved, at, changed, indexed>>
  BY DEF ReadFiles
<1>2. PICK unreadable \in SUBSET there :
          docs' = docs \cup (there \ unreadable) /\ lost' = lost \cup unreadable \cup over
  BY DEF ReadFiles
<1>3. p \in Projects
  BY <1>1, InProject
<1>4. there \subseteq FileVersions /\ over \subseteq FileVersions
  BY <1>3, Heads DEF IInv, PollTyped, FilesTyped, Trees, FileVersions
<1>5. there \subseteq docs' \cup lost' /\ over \subseteq lost'
      /\ indexed \cup docs \cup lost \subseteq indexed' \cup docs' \cup lost'
  BY <1>1, <1>2
<1>6. RepoTyped' /\ FilesTyped' /\ SavedCovered' /\ UNCHANGED <<made, tree, branch, gone>>
      /\ \A q \in Projects : HeadTree(q)' = HeadTree(q)
  BY <1>1, <1>5, RepoKept, SavedStays DEF IInv, FilesTyped
<1>7. PollTyped' /\ ListOfOne'
  BY <1>1, <1>2, <1>4 DEF IInv, PollTyped, ListOfOne
<1>8. ListComplete'
  <2>1. \A f \in Files : ProjectOf[f] \in Projects
    BY CodeSyncAssumption
  <2>2. QED
    BY <1>1, <1>5, <1>6, <2>1 DEF IInv, ListComplete, Scanning, Known, Covered
<1>9. ListRead'
  <2> SUFFICES ASSUME NEW f \in changed
               PROVE  HeadTree(p)[f] = 0 \/ <<f, HeadTree(p)[f]>> \in docs' \cup lost'
    BY <1>1, <1>3, <1>6 DEF IInv, ListOfOne, ListRead, Covered
  <2>1. f \in FilesOf(p)
    BY DEF IInv, PollTyped, ListOfOne, FilesOf
  <2>2. CASE f \in Uncommitted(p)
    BY <1>5, <2>2
  <2>3. CASE f \notin Uncommitted(p)
    <3>1. work[f] = HeadTree(p)[f]
      BY <2>1, <2>3 DEF Uncommitted
    <3>2. QED
      BY <1>5, <3>1
  <2>4. QED
    BY <2>2, <2>3
<1>10. QED
  BY <1>6, <1>7, <1>8, <1>9 DEF IInv

LEMMA SaveHeadKeeps == IInv /\ SaveHead => IInv'
<1> SUFFICES ASSUME IInv, SaveHead PROVE IInv'
  OBVIOUS
<1> DEFINE p      == Order[at]
           missed == {<<f, HeadTree(p)[f]>> : f \in FilesOf(p) \ changed}
<1>1. pc = "head" /\ NextProject /\ UNCHANGED <<repo, work, newest, docs, indexed>>
  BY DEF SaveHead
<1>2. p \in Projects
  BY <1>1, InProject
<1>3. missed \subseteq FileVersions
  BY <1>2, Heads DEF Trees, FileVersions, FilesOf
<1>4. lost' = lost \/ lost' = lost \cup missed
  BY DEF SaveHead
<1>5. lost' \subseteq FileVersions
  BY <1>3, <1>4 DEF IInv, PollTyped
<1>6. PollTyped' /\ changed' = {} /\ pc' \in {"diff", "store"}
  BY <1>1, <1>5, NextProjectTyped
<1>7. indexed \cup docs \cup lost \subseteq indexed' \cup docs' \cup lost'
  BY <1>1, <1>4
<1>8. CASE UNCHANGED saved
  BY <1>1, <1>6, <1>7, <1>8, SavedStays, ListGone DEF IInv, FilesTyped, repo
<1>9. CASE /\ saved' = [saved EXCEPT ![p] = HeadOf(p)]
           /\ lost' = IF saved[p] \in gone[p] \cup {Unknown} THEN lost \cup missed ELSE lost
  <2>1. HeadOf(p) \in Commits /\ HeadOf(p) <= made[p]
    BY <1>2, Heads, CommitsAreNumbers DEF IInv, RepoTyped
  <2>2. \A q \in Projects : saved'[q] = IF q = p THEN HeadOf(p) ELSE saved[q]
    BY <1>9 DEF IInv, FilesTyped
  <2>3. FilesTyped'
    BY <1>1, <1>2, <1>9, <2>1, <2>2 DEF IInv, FilesTyped, repo
  <2>4. ASSUME NEW f \in Files, ProjectOf[f] = p
        PROVE  HeadTree(p)[f] = 0 \/ <<f, HeadTree(p)[f]>> \in indexed \cup docs \cup lost'
    <3>1. Scanning(p) /\ f \in FilesOf(p)
      BY <1>1, <2>4 DEF Scanning, FilesOf
    <3>2. CASE f \in changed
      BY <1>1, <1>4, <2>4, <3>2 DEF IInv, ListRead, Covered
    <3>3. CASE f \notin changed /\ ~Known(p)
      BY <1>9, <3>1, <3>3 DEF Known
    <3>4. CASE f \notin changed /\ Known(p)
      <4>1. HeadTree(p)[f] = tree[p][saved[p]][f] \/ Covered(f, HeadTree(p)[f])
        BY <2>4, <3>1, <3>4 DEF IInv, ListComplete
      <4>2. Covered(f, tree[p][saved[p]][f])
        BY <2>4, <3>4 DEF IInv, SavedCovered, Known
      <4>3. QED
        BY <1>4, <4>1, <4>2 DEF Covered
    <3>5. QED
      BY <3>2, <3>3, <3>4
  <2>5. SavedCovered'
    <3> SUFFICES ASSUME NEW f \in Files, saved'[ProjectOf[f]] # Unknown
                 PROVE  Covered(f, tree[ProjectOf[f]][saved[ProjectOf[f]]][f])'
      BY DEF SavedCovered
    <3>1. ProjectOf[f] \in Projects /\ tree' = tree
      BY <1>1, CodeSyncAssumption DEF repo
    <3>2. CASE ProjectOf[f] = p
      BY <1>1, <2>2, <2>4, <3>1, <3>2 DEF Covered, HeadTree
    <3>3. CASE ProjectOf[f] # p
      BY <1>7, <2>2, <3>1, <3>3 DEF IInv, SavedCovered, Covered
    <3>4. QED
      BY <3>2, <3>3
  <2>6. QED
    BY <1>1, <1>6, <2>3, <2>5, ListGone
<1>10. QED
  BY <1>8, <1>9 DEF SaveHead

LEMMA StoreFileKeeps == IInv /\ StoreFile => IInv'
<1> SUFFICES ASSUME IInv, StoreFile PROVE IInv'
  OBVIOUS
<1>1. /\ pc = "store" /\ UNCHANGED <<repo, work, newest, saved, pc, at, changed>>
  BY DEF StoreFile
<1>2. PICK d \in docs : /\ docs' = docs \ {d}
                        /\ \/ indexed' = indexed \cup {d} /\ UNCHANGED lost
                           \/ lost' = lost \cup {d} /\ UNCHANGED indexed
  BY DEF StoreFile
<1>3. FilesTyped' /\ PollTyped'
  BY <1>1, <1>2 DEF IInv, FilesTyped, PollTyped, repo
<1>4. indexed \cup docs \cup lost \subseteq indexed' \cup docs' \cup lost'
  BY <1>2
<1>5. QED
  BY <1>1, <1>3, <1>4, BesideThePoll

LEMMA AbandonKeeps == IInv /\ Abandon => IInv'
<1> SUFFICES ASSUME IInv, Abandon PROVE IInv'
  OBVIOUS
<1>1. /\ pc' = "idle" /\ at' = 1 /\ changed' = {} /\ docs' = {} /\ lost' = lost \cup docs
      /\ UNCHANGED <<repo, work, newest, indexed>>
  BY DEF Abandon
<1>2. PollTyped'
  BY <1>1, CodeSyncAssumption DEF IInv, PollTyped
<1>3. CASE UNCHANGED saved
  BY <1>1, <1>2, <1>3, SavedStays, ListGone DEF IInv, FilesTyped, repo
<1>4. CASE saved' = [saved EXCEPT ![Order[at]] = Unknown]
  <2>1. \A q \in Projects : saved'[q] = saved[q] \/ saved'[q] = Unknown
    BY <1>4 DEF IInv, FilesTyped
  <2>2. \A q \in Projects : made[q] \in Nat
    BY CommitsAreNumbers DEF IInv, RepoTyped
  <2>3. saved' \in [Projects -> Commits \cup {Unknown}]
    BY <1>4 DEF IInv, FilesTyped
  <2>4. FilesTyped'
    BY <1>1, <2>1, <2>2, <2>3 DEF IInv, FilesTyped, repo, Unknown
  <2>5. \A f \in Files : ProjectOf[f] \in Projects
    BY CodeSyncAssumption
  <2>6. SavedCovered'
    BY <1>1, <2>1, <2>5 DEF IInv, SavedCovered, Covered, repo
  <2>7. QED
    BY <1>1, <1>2, <2>4, <2>6, ListGone
<1>5. QED
  BY <1>3, <1>4 DEF Abandon

LEMMA IndexFileKeeps ==
    ASSUME IInv, NEW f \in Files, IndexFile(f)
    PROVE  IInv'
<1>1. UNCHANGED <<repo, work, newest, saved, poll, lost>>
  BY DEF IndexFile
<1>2. PICK v \in Scanned(f) : indexed' = indexed \cup {<<f, v>>}
  BY DEF IndexFile
<1>3. v \in Versions
  <2>1. newest[f] \in Versions
    BY DEF IInv, FilesTyped, Trees
  <2>2. PICK g \in Files : newest[f] \in 0..MaxVersions[g]
    BY <2>1 DEF Versions
  <2>3. v \in 0..MaxVersions[g]
    BY <2>2, CodeSyncAssumption DEF Scanned
  <2>4. QED
    BY <2>3 DEF Versions
<1>4. FilesTyped' /\ PollTyped'
  BY <1>1, <1>2, <1>3 DEF IInv, FilesTyped, PollTyped, FileVersions, repo, poll
<1>5. QED
  BY <1>1, <1>2, <1>4, BesideThePoll DEF poll

-----------------------------------------------------------------------------
LEMMA StepKeeps == IInv /\ [Next]_vars => IInv'
<1> SUFFICES ASSUME IInv, [Next]_vars PROVE IInv'
  OBVIOUS
<1>1. CASE UNCHANGED vars
  <2>1. UNCHANGED <<repo, saved, pc, at, changed, work, newest, docs, indexed, lost>>
    BY <1>1 DEF vars, repo
  <2>2. FilesTyped' /\ PollTyped'
    BY <2>1 DEF IInv, FilesTyped, PollTyped, repo
  <2>3. QED
    BY <2>1, <2>2, BesideThePoll
<1>2. ASSUME NEW f \in Files, Edit(f) \/ Restore(f) \/ Delete(f) \/ IndexFile(f) PROVE IInv'
  BY <1>2, EditKeeps, IndexFileKeeps
<1>3. ASSUME NEW p \in Projects, Commit(p) \/ Amend(p) \/ Collect(p) PROVE IInv'
  BY <1>3, CommitKeeps, CollectKeeps
<1>4. CASE Poll
  BY <1>4, BeginKeeps, DiffCommitsKeeps, DiffWorkKeeps, GitFailsKeeps, ReadFilesKeeps,
     SaveHeadKeeps, StoreFileKeeps DEF Poll
<1>5. CASE Abandon
  BY <1>5, AbandonKeeps
<1>6. QED
  BY <1>1, <1>2, <1>3, <1>4, <1>5 DEF Next

LEMMA Invariance == Spec => []IInv
<1>1. Init => IInv
  BY InitHolds
<1>2. IInv /\ [Next]_vars => IInv'
  BY StepKeeps
<1>3. QED
  BY <1>1, <1>2, PTL DEF Spec

(* Every reachable state of git, of the working tree and of the poll is    *)
(* well typed, for any projects, files and histories.                      *)
THEOREM Typing == Spec => []TypeOK
<1>1. IInv => TypeOK
  BY Typed
<1>2. QED
  BY <1>1, Invariance, PTL

(* A version that HEAD holds is indexed, in hand, among the files the next *)
(* poll is told of, or one of the exceptions that are named, whatever the  *)
(* developers do meanwhile, and wherever a poll ends.                      *)
THEOREM IndexedOrPendingHolds == Spec => []IndexedOrPending
<1>1. IInv => IndexedOrPending
  <2> SUFFICES ASSUME IInv, NEW f \in Files, Known(ProjectOf[f]), f \notin Since(ProjectOf[f])
               PROVE  Covered(f, HeadTree(ProjectOf[f])[f])
    BY DEF IndexedOrPending, Covered, Known
  <2> DEFINE p == ProjectOf[f]
  <2>1. p \in Projects /\ f \in FilesOf(p)
    BY CodeSyncAssumption DEF FilesOf
  <2>2. f \notin Differ(p, saved[p], HeadOf(p))
    BY DEF Since, Known
  <2>3. HeadTree(p)[f] = tree[p][saved[p]][f]
    BY <2>1, <2>2 DEF Differ, HeadTree
  <2>4. QED
    BY <2>3 DEF IInv, SavedCovered, Known
<1>2. QED
  BY <1>1, Invariance, PTL

-----------------------------------------------------------------------------
(* Chunking.  Least and Greatest are what their names say, of sets of      *)
(* positions.                                                              *)
LEMMA NotLess == \A x, y \in Nat : ~(y < x) => x <= y
OBVIOUS

LEMMA LessThan ==
    ASSUME NEW x \in Nat, NEW y \in Nat, ~(<<y, x>> \in OpToRel(<, Nat))
    PROVE  x <= y
<1>1. ~(y < x)
  BY DEF OpToRel
<1>2. QED
  BY <1>1, NotLess, Zenon

LEMMA LeastOf ==
    ASSUME NEW S \in SUBSET Nat, S # {}
    PROVE  Least(S) \in S /\ \A y \in S : Least(S) <= y
<1>1. PICK x \in S : \A y \in S : ~(<<y, x>> \in OpToRel(<, Nat))
  BY NatLessThanWellFounded, WFMin
<1>2. \A y \in S : x <= y
  BY <1>1, LessThan
<1>3. QED
  BY <1>1, <1>2 DEF Least

LEMMA GreatestOf ==
    ASSUME NEW S \in SUBSET Nat, S # {}, NEW n \in Nat, \A y \in S : y <= n
    PROVE  Greatest(S) \in S /\ \A y \in S : Greatest(S) >= y
<1> DEFINE D == {n - y : y \in S}
<1>1. D \in SUBSET Nat /\ D # {}
  <2>1. \A y \in S : n - y \in Nat
    OBVIOUS
  <2>2. QED
    BY <2>1
<1>2. PICK d \in D : \A e \in D : ~(<<e, d>> \in OpToRel(<, Nat))
  <2> HIDE DEF D
  <2>1. QED
    BY <1>1, NatLessThanWellFounded, WFMin
<1>3. \A e \in D : d <= e
  <2> HIDE DEF D
  <2>1. QED
    BY <1>1, <1>2, LessThan
<1>4. PICK x \in S : d = n - x
  BY <1>2
<1>5. ASSUME NEW y \in S PROVE x >= y
  <2>1. n - x <= n - y
    BY <1>3, <1>4
  <2>2. QED
    BY <1>4, <2>1
<1>6. QED
  BY <1>4, <1>5 DEF Greatest

(* Pieces in the order of the text, without an overlap, between lo and hi. *)
Tiled(s, lo, hi) ==
    /\ s \in Seq(Nat \X Nat)
    /\ \A i \in DOMAIN s : lo <= s[i][1] /\ s[i][1] <= s[i][2] /\ s[i][2] <= hi
    /\ \A i, j \in DOMAIN s : i < j => s[i][2] < s[j][1]

InSome(s, k) == \E i \in DOMAIN s : k \in s[i][1]..s[i][2]

LEMMA NoPieces ==
    ASSUME NEW lo, NEW hi
    PROVE  Tiled(<<>>, lo, hi)
BY DEF Tiled

LEMMA OnePiece ==
    ASSUME NEW a \in Nat, NEW b \in Nat, a <= b, NEW lo \in Nat, lo <= a, NEW hi \in Nat, b <= hi
    PROVE  /\ Tiled(<< <<a, b>> >>, lo, hi)
           /\ \A k \in a..b : InSome(<< <<a, b>> >>, k)
<1> DEFINE s == << <<a, b>> >>
<1>1. s \in Seq(Nat \X Nat) /\ DOMAIN s = {1} /\ s[1] = <<a, b>>
  OBVIOUS
<1>2. Tiled(s, lo, hi)
  BY <1>1 DEF Tiled
<1>3. ASSUME NEW k \in a..b PROVE InSome(s, k)
  BY <1>1 DEF InSome
<1>4. QED
  BY <1>2, <1>3

LEMMA Joined ==
    ASSUME NEW lo \in Nat, NEW mid \in Nat, NEW hi \in Nat, lo <= mid, mid <= hi + 1,
           NEW s, NEW t, Tiled(s, lo, mid - 1), Tiled(t, mid, hi)
    PROVE  /\ Tiled(s \o t, lo, hi)
           /\ \A k : InSome(s, k) \/ InSome(t, k) => InSome(s \o t, k)
<1>1. s \in Seq(Nat \X Nat) /\ t \in Seq(Nat \X Nat)
  BY DEF Tiled
<1>2. /\ s \o t \in Seq(Nat \X Nat) /\ Len(s \o t) = Len(s) + Len(t)
      /\ Len(s) \in Nat /\ Len(t) \in Nat
  BY <1>1
<1>3. \A i \in DOMAIN s : i \in DOMAIN (s \o t) /\ (s \o t)[i] = s[i]
  BY <1>1
<1>4. \A i \in DOMAIN t : i + Len(s) \in DOMAIN (s \o t) /\ (s \o t)[i + Len(s)] = t[i]
  BY <1>1
<1>5. ASSUME NEW i \in DOMAIN (s \o t)
      PROVE  \/ i \in DOMAIN s /\ (s \o t)[i] = s[i]
             \/ i > Len(s) /\ i - Len(s) \in DOMAIN t /\ (s \o t)[i] = t[i - Len(s)]
  BY <1>1
<1>6. \A i \in DOMAIN s : s[i][1] \in Nat /\ s[i][2] \in Nat /\ i \in 1..Len(s)
  BY <1>1
<1>7. \A i \in DOMAIN t : t[i][1] \in Nat /\ t[i][2] \in Nat
  BY <1>1
<1>8. ASSUME NEW i \in DOMAIN (s \o t)
      PROVE  lo <= (s \o t)[i][1] /\ (s \o t)[i][1] <= (s \o t)[i][2] /\ (s \o t)[i][2] <= hi
  <2>1. CASE i \in DOMAIN s /\ (s \o t)[i] = s[i]
    BY <1>6, <2>1 DEF Tiled
  <2>2. CASE i - Len(s) \in DOMAIN t /\ (s \o t)[i] = t[i - Len(s)]
    BY <1>7, <2>2 DEF Tiled
  <2>3. QED
    BY <1>5, <2>1, <2>2
<1>9. ASSUME NEW i \in DOMAIN (s \o t), NEW j \in DOMAIN (s \o t), i < j
      PROVE  (s \o t)[i][2] < (s \o t)[j][1]
  <2>1. CASE j \in DOMAIN s /\ (s \o t)[j] = s[j]
    <3>1. i \in DOMAIN s /\ (s \o t)[i] = s[i]
      BY <1>2, <1>5, <1>6, <1>9, <2>1
    <3>2. QED
      BY <1>9, <2>1, <3>1 DEF Tiled
  <2>2. CASE j > Len(s) /\ j - Len(s) \in DOMAIN t /\ (s \o t)[j] = t[j - Len(s)]
    <3>1. CASE i \in DOMAIN s /\ (s \o t)[i] = s[i]
      <4>1. s[i][2] <= mid - 1 /\ mid <= t[j - Len(s)][1]
        BY <2>2, <3>1 DEF Tiled
      <4>2. s[i][2] \in Nat /\ t[j - Len(s)][1] \in Nat
        BY <1>6, <1>7, <2>2, <3>1
      <4>3. QED
        BY <2>2, <3>1, <4>1, <4>2
    <3>2. CASE i > Len(s) /\ i - Len(s) \in DOMAIN t /\ (s \o t)[i] = t[i - Len(s)]
      <4>1. i - Len(s) < j - Len(s)
        BY <1>2, <1>9
      <4>2. QED
        BY <2>2, <3>2, <4>1 DEF Tiled
    <3>3. QED
      BY <1>5, <3>1, <3>2
  <2>3. QED
    BY <1>5, <2>1, <2>2
<1>10. Tiled(s \o t, lo, hi)
  BY <1>2, <1>8, <1>9 DEF Tiled
<1>11. \A k : InSome(s, k) \/ InSome(t, k) => InSome(s \o t, k)
  BY <1>3, <1>4 DEF InSome
<1>12. QED
  BY <1>10, <1>11

-----------------------------------------------------------------------------
(* A stripped interval is one piece with all its characters that are not   *)
(* blank, and it begins where the interval does if that is not blank.      *)
LEMMA StripTiles ==
    ASSUME NEW a \in Nat, NEW b \in Nat
    PROVE  /\ Tiled(Strip(a, b), a, b)
           /\ \A k \in Full(a, b) : InSome(Strip(a, b), k)
           /\ a <= b /\ text[a] # "blank" =>
                  \E e \in Full(a, b) :
                      Strip(a, b) = << <<a, e>> >> /\ \A k \in Full(a, b) : k <= e
<1>1. CASE Full(a, b) = {}
  <2>1. Strip(a, b) = <<>>
    BY <1>1 DEF Strip
  <2>2. a <= b => a \in a..b
    OBVIOUS
  <2>3. QED
    BY <1>1, <2>1, <2>2, NoPieces DEF Full
<1>2. CASE Full(a, b) # {}
  <2> DEFINE first == Least(Full(a, b))
             last  == Greatest(Full(a, b))
  <2>1. Full(a, b) \subseteq a..b /\ Full(a, b) \in SUBSET Nat /\ \A y \in Full(a, b) : y <= b
    BY DEF Full
  <2>2. first \in Full(a, b) /\ \A y \in Full(a, b) : first <= y
    BY <1>2, <2>1, LeastOf
  <2>3. last \in Full(a, b) /\ \A y \in Full(a, b) : last >= y
    BY <1>2, <2>1, GreatestOf
  <2>4. Strip(a, b) = << <<first, last>> >>
    BY <1>2 DEF Strip
  <2> HIDE DEF first, last
  <2>5. first \in Nat /\ last \in Nat /\ first <= last /\ a <= first /\ last <= b
    BY <2>1, <2>2, <2>3
  <2>6. Tiled(Strip(a, b), a, b) /\ \A k \in first..last : InSome(Strip(a, b), k)
    BY <2>4, <2>5, OnePiece
  <2>7. \A k \in Full(a, b) : k \in first..last
    BY <2>1, <2>2, <2>3, <2>5
  <2>8. ASSUME a <= b, text[a] # "blank" PROVE first = a
    <3>1. a \in Full(a, b)
      BY <2>8 DEF Full
    <3>2. QED
      BY <2>2, <2>5, <3>1
  <2>9. \A k \in Full(a, b) : k <= last
    BY <2>1, <2>3, <2>5
  <2>10. QED
    BY <2>3, <2>4, <2>6, <2>7, <2>8, <2>9
<1>3. QED
  BY <1>1, <1>2

(* Slices of Size characters follow one another from a to b.               *)
LEMMA Quotient ==
    ASSUME NEW x \in Nat, NEW d \in Nat \ {0}
    PROVE  x \div d \in Nat /\ (x \div d) * d <= x /\ x < (x \div d) * d + d
OBVIOUS

LEMMA Multiples ==
    ASSUME NEW p \in Nat, NEW q \in Nat, p <= q, NEW d \in Nat
    PROVE  p * d \in Nat /\ p * d <= q * d /\ (p + 1) * d = p * d + d
OBVIOUS

LEMMA SlicesTile ==
    ASSUME NEW a \in Nat, NEW b \in Nat, a <= b
    PROVE  /\ Tiled(Slices(a, b), a, b)
           /\ \A k \in a..b : InSome(Slices(a, b), k)
           /\ \A i \in DOMAIN Slices(a, b) : Slices(a, b)[i][2] - Slices(a, b)[i][1] < Size
<1> DEFINE last  == (b - a) \div Size
           s     == Slices(a, b)
           From(i) == a + (i - 1) * Size
           To(i)   == IF a + i * Size - 1 < b THEN a + i * Size - 1 ELSE b
<1>1. Size \in Nat \ {0} /\ b - a \in Nat
  BY ChunkingAssumption
<1>2. last \in Nat /\ last * Size <= b - a /\ b - a < last * Size + Size
  BY <1>1, Quotient
<1>3. DOMAIN s = 1..(last + 1) /\ \A i \in 1..(last + 1) : s[i] = <<From(i), To(i)>>
  BY DEF Slices
<1> HIDE DEF last, s
<1>4. ASSUME NEW i \in 1..(last + 1)
      PROVE  /\ (i - 1) * Size \in Nat /\ (i - 1) * Size <= last * Size
             /\ i * Size = (i - 1) * Size + Size /\ i * Size \in Nat
  <2>1. i - 1 \in Nat /\ i - 1 <= last /\ i = (i - 1) + 1
    BY <1>2
  <2>2. QED
    BY <1>1, <1>2, <2>1, Multiples
<1>5. ASSUME NEW i \in 1..(last + 1)
      PROVE  /\ From(i) \in Nat /\ To(i) \in Nat
             /\ a <= From(i) /\ From(i) <= To(i) /\ To(i) <= b /\ To(i) - From(i) < Size
             /\ To(i) < a + i * Size
  <2> DEFINE m == (i - 1) * Size
  <2>1. m \in Nat /\ m <= b - a /\ i * Size = m + Size
    BY <1>1, <1>2, <1>4
  <2> HIDE DEF m
  <2>2. From(i) = a + m
    BY DEF m
  <2>3. To(i) = IF a + m + Size - 1 < b THEN a + m + Size - 1 ELSE b
    BY <1>1, <2>1
  <2>4. QED
    BY <1>1, <2>1, <2>2, <2>3
<1>6. ASSUME NEW i \in 1..(last + 1), NEW j \in 1..(last + 1), i < j
      PROVE  To(i) < From(j)
  <2>1. i \in Nat /\ j - 1 \in Nat /\ i <= j - 1
    BY <1>2, <1>6
  <2>2. i * Size <= (j - 1) * Size
    BY <1>1, <2>1, Multiples
  <2>3. i * Size \in Nat /\ (j - 1) * Size \in Nat /\ To(i) \in Nat /\ To(i) < a + i * Size
    BY <1>4, <1>5
  <2>4. QED
    BY <2>2, <2>3
<1> HIDE DEF From, To
<1>7. Tiled(s, a, b)
  <2>1. s \in Seq(Nat \X Nat)
    <3>1. s = [i \in 1..(last + 1) |-> s[i]]
      BY DEF s, Slices, last
    <3>2. ASSUME NEW i \in 1..(last + 1) PROVE s[i] \in Nat \X Nat
      <4>1. From(i) \in Nat /\ To(i) \in Nat
        BY <1>5
      <4>2. s[i] = <<From(i), To(i)>>
        BY <1>3
      <4>3. QED
        BY <4>1, <4>2
    <3>3. QED
      BY <1>2, <3>1, <3>2
  <2>2. QED
    BY <1>3, <1>5, <1>6, <2>1 DEF Tiled
<1>8. ASSUME NEW k \in a..b PROVE InSome(s, k)
  <2> DEFINE q == (k - a) \div Size
  <2>1. k - a \in Nat /\ k - a <= b - a
    OBVIOUS
  <2>2. q \in Nat /\ q * Size <= k - a /\ k - a < q * Size + Size
    BY <1>1, <2>1, Quotient
  <2> HIDE DEF q
  <2>3. q <= last
    <3>1. CASE last + 1 <= q
      <4>1. (last + 1) * Size <= q * Size /\ (last + 1) * Size = last * Size + Size
        BY <1>1, <1>2, <2>2, <3>1, Multiples
      <4>2. last * Size \in Nat /\ q * Size \in Nat
        BY <1>1, <1>2, <2>2, Multiples
      <4>3. QED
        BY <1>1, <1>2, <2>1, <2>2, <4>1, <4>2
    <3>2. QED
      BY <1>2, <2>2, <3>1
  <2>4. q + 1 \in 1..(last + 1) /\ (q + 1) - 1 = q
    BY <1>2, <2>2, <2>3
  <2>5. q * Size \in Nat /\ (q + 1) * Size = q * Size + Size
    BY <1>1, <2>2, Multiples
  <2>6. From(q + 1) <= k /\ k <= To(q + 1)
    <3> DEFINE m == q * Size
    <3>1. m \in Nat /\ m <= k - a /\ k - a < m + Size
      BY <2>2, <2>5
    <3>2. From(q + 1) = a + m
      BY <2>4 DEF From
    <3>3. To(q + 1) = IF a + (m + Size) - 1 < b THEN a + (m + Size) - 1 ELSE b
      BY <2>5 DEF To
    <3> HIDE DEF m
    <3>4. QED
      BY <1>1, <2>1, <3>1, <3>2, <3>3
  <2>7. k \in s[q + 1][1]..s[q + 1][2]
    BY <1>3, <1>5, <2>4, <2>6
  <2>8. QED
    BY <1>3, <2>4, <2>7 DEF InSome
<1>9. \A i \in DOMAIN s : s[i][2] - s[i][1] < Size
  BY <1>3, <1>5
<1>10. QED
  BY <1>7, <1>8, <1>9 DEF s

-----------------------------------------------------------------------------
(* The elements of a set in their order: the i-th is the one with i        *)
(* elements up to it.                                                      *)
UpTo(S, f) == {g \in S : g <= f}
NthOf(S, i) == CHOOSE f \in S : Cardinality(UpTo(S, f)) = i

LEMMA RankGrows ==
    ASSUME NEW S \in SUBSET Nat, IsFiniteSet(S), NEW f \in S, NEW g \in S, f < g
    PROVE  Cardinality(UpTo(S, f)) < Cardinality(UpTo(S, g))
<1>1. UpTo(S, f) \in SUBSET UpTo(S, g) /\ g \in UpTo(S, g) /\ g \notin UpTo(S, f)
  <2>1. f \in Nat /\ g \in Nat /\ ~(g <= f) /\ g <= g
    OBVIOUS
  <2>2. \A x \in S : x <= f => x <= g
    OBVIOUS
  <2>3. QED
    BY <2>1, <2>2 DEF UpTo
<1>2. IsFiniteSet(UpTo(S, g)) /\ UpTo(S, g) \in SUBSET S
  BY FS_Subset DEF UpTo
<1>3. /\ Cardinality(UpTo(S, f)) <= Cardinality(UpTo(S, g))
      /\ Cardinality(UpTo(S, f)) # Cardinality(UpTo(S, g))
      /\ IsFiniteSet(UpTo(S, f))
  BY <1>1, <1>2, FS_Subset
<1>4. Cardinality(UpTo(S, f)) \in Nat /\ Cardinality(UpTo(S, g)) \in Nat
  BY <1>2, <1>3, FS_CardinalityType
<1>5. QED
  BY <1>3, <1>4

LEMMA RankInRange ==
    ASSUME NEW S \in SUBSET Nat, IsFiniteSet(S), NEW f \in S
    PROVE  Cardinality(UpTo(S, f)) \in 1..Cardinality(S) /\ Cardinality(S) \in Nat
<1>1. UpTo(S, f) \in SUBSET S /\ f \in UpTo(S, f)
  BY DEF UpTo
<1>2. /\ IsFiniteSet(UpTo(S, f)) /\ Cardinality(UpTo(S, f)) <= Cardinality(S)
      /\ Cardinality(S) \in Nat
  BY <1>1, FS_Subset, FS_CardinalityType
<1>3. Cardinality(UpTo(S, f)) \in Nat /\ Cardinality(UpTo(S, f)) # 0
  BY <1>1, <1>2, FS_CardinalityType, FS_EmptySet
<1>4. QED
  BY <1>2, <1>3

LEMMA NthOfRank ==
    ASSUME NEW S \in SUBSET Nat, IsFiniteSet(S)
    PROVE  /\ \A i \in 1..Cardinality(S) :
                  NthOf(S, i) \in S /\ Cardinality(UpTo(S, NthOf(S, i))) = i
           /\ \A f \in S : NthOf(S, Cardinality(UpTo(S, f))) = f
<1> DEFINE rank == [f \in S |-> Cardinality(UpTo(S, f))]
           T    == 1..Cardinality(S)
<1>1. Cardinality(S) \in Nat
  BY FS_CardinalityType
<1>2. rank \in [S -> T]
  BY RankInRange
<1>3. ASSUME NEW f \in S, NEW g \in S, Cardinality(UpTo(S, f)) = Cardinality(UpTo(S, g))
      PROVE  f = g
  <2>1. Cardinality(UpTo(S, f)) \in Nat /\ Cardinality(UpTo(S, g)) \in Nat
    BY <1>1, RankInRange
  <2>2. ~(f < g) /\ ~(g < f)
    BY <1>3, <2>1, RankGrows
  <2>3. QED
    BY <2>2
<1>4. IsFiniteSet(T) /\ Cardinality(T) = Cardinality(S)
  BY <1>1, FS_Interval
<1>5. rank \in Injection(S, T)
  BY <1>2, <1>3 DEF Injection, IsInjective
<1>6. rank \in Surjection(S, T)
  <2> HIDE DEF rank, T
  <2>1. QED
    BY <1>4, <1>5, FS_Injection
<1>7. ASSUME NEW i \in T PROVE \E f \in S : Cardinality(UpTo(S, f)) = i
  BY <1>6 DEF Surjection
<1>8. ASSUME NEW i \in T PROVE NthOf(S, i) \in S /\ Cardinality(UpTo(S, NthOf(S, i))) = i
  BY <1>7 DEF NthOf
<1>9. ASSUME NEW f \in S PROVE NthOf(S, Cardinality(UpTo(S, f))) = f
  <2>1. Cardinality(UpTo(S, f)) \in T
    BY RankInRange
  <2>2. QED
    BY <1>3, <1>8, <2>1
<1>10. QED
  BY <1>8, <1>9

LEMMA NthOfGrows ==
    ASSUME NEW S \in SUBSET Nat, IsFiniteSet(S),
           NEW i \in 1..Cardinality(S), NEW j \in 1..Cardinality(S), i < j
    PROVE  NthOf(S, i) < NthOf(S, j)
<1>1. /\ NthOf(S, i) \in S /\ Cardinality(UpTo(S, NthOf(S, i))) = i
      /\ NthOf(S, j) \in S /\ Cardinality(UpTo(S, NthOf(S, j))) = j
  BY NthOfRank
<1>2. Cardinality(S) \in Nat
  BY FS_CardinalityType
<1>3. CASE NthOf(S, j) < NthOf(S, i)
  <2>1. j < i
    BY <1>1, <1>3, RankGrows
  <2>2. QED
    BY <1>2, <2>1
<1>4. CASE NthOf(S, j) = NthOf(S, i)
  <2>1. i = j
    BY <1>1, <1>4
  <2>2. QED
    BY <1>2, <2>1
<1>5. NthOf(S, i) \in Nat /\ NthOf(S, j) \in Nat
  BY <1>1
<1>6. QED
  BY <1>3, <1>4, <1>5

(* From one method to the next, or to the end of the class.                *)
UpToNext(S, f, b) == IF \E g \in S : g > f THEN Least({g \in S : g > f}) - 1 ELSE b

LEMMA NextOf ==
    ASSUME NEW S \in SUBSET Nat, NEW b \in Nat, \A g \in S : g <= b, NEW f \in S
    PROVE  /\ UpToNext(S, f, b) \in f..b
           /\ \A g \in S : g > f => UpToNext(S, f, b) < g
           /\ UpToNext(S, f, b) = b \/ UpToNext(S, f, b) + 1 \in S
<1> DEFINE later == {g \in S : g > f}
<1>1. CASE later = {}
  <2>1. UpToNext(S, f, b) = b
    BY <1>1 DEF UpToNext
  <2>2. QED
    BY <1>1, <2>1
<1>2. CASE later # {}
  <2>1. UpToNext(S, f, b) = Least(later) - 1
    BY <1>2 DEF UpToNext
  <2>2. Least(later) \in later /\ \A g \in later : Least(later) <= g
    <3>1. later \in SUBSET Nat
      OBVIOUS
    <3> HIDE DEF later
    <3>2. QED
      BY <1>2, <3>1, LeastOf
  <2>3. Least(later) \in S /\ Least(later) > f /\ Least(later) \in Nat /\ Least(later) <= b
    BY <2>2
  <2>4. QED
    BY <2>1, <2>2, <2>3
<1>3. QED
  BY <1>1, <1>2

FunPieces(S, b) ==
    [i \in 1..Cardinality(S) |-> Strip(NthOf(S, i), UpToNext(S, NthOf(S, i), b))[1]]

LEMMA MethodsDef ==
    ASSUME NEW a, NEW b
    PROVE  Methods(a, b) =
               IF At("fun", a, b) = {} THEN Slices(a, b)
               ELSE (IF Least(At("fun", a, b)) - a > Short
                     THEN Strip(a, Least(At("fun", a, b)) - 1) ELSE <<>>)
                    \o FunPieces(At("fun", a, b), b)
BY DEF Methods, FunPieces, NthOf, UpTo, UpToNext

LEMMA FunPiecesTile ==
    ASSUME NEW a \in Nat, NEW b \in Nat, NEW S, S = At("fun", a, b), S # {}
    PROVE  /\ Tiled(FunPieces(S, b), Least(S), b)
           /\ \A k \in Full(Least(S), b) : InSome(FunPieces(S, b), k)
           /\ \A i \in DOMAIN FunPieces(S, b) : text[FunPieces(S, b)[i][1]] = "fun"
           /\ 1 \in DOMAIN FunPieces(S, b)
<1> DEFINE c == Cardinality(S)
           t == FunPieces(S, b)
           N(i) == NthOf(S, i)
           U(i) == UpToNext(S, NthOf(S, i), b)
<1>1. /\ S \in SUBSET Nat /\ S \subseteq a..b /\ (\A f \in S : f <= b /\ text[f] = "fun")
      /\ IsFiniteSet(S)
  <2>1. S \in SUBSET (a..b) /\ \A f \in S : text[f] = "fun"
    BY DEF At
  <2>2. IsFiniteSet(S)
    BY <2>1, FS_Interval, FS_Subset
  <2>3. QED
    BY <2>1, <2>2
<1>2. c \in Nat /\ c # 0
  BY <1>1, FS_CardinalityType, FS_EmptySet
<1>3. Least(S) \in S /\ \A f \in S : Least(S) <= f
  BY <1>1, LeastOf
<1>4. DOMAIN t = 1..c /\ \A i \in 1..c : t[i] = Strip(N(i), U(i))[1]
  BY DEF FunPieces
<1>5. ASSUME NEW i \in 1..c
      PROVE  /\ N(i) \in S /\ U(i) \in N(i)..b /\ (\A g \in S : g > N(i) => U(i) < g)
             /\ \E e \in Full(N(i), U(i)) :
                    t[i] = <<N(i), e>> /\ \A k \in Full(N(i), U(i)) : k <= e
  <2>1. N(i) \in S
    BY <1>1, NthOfRank
  <2>2. U(i) \in N(i)..b /\ \A g \in S : g > N(i) => U(i) < g
    BY <1>1, <2>1, NextOf
  <2>3. N(i) \in Nat /\ U(i) \in Nat /\ N(i) <= U(i) /\ text[N(i)] # "blank"
    BY <1>1, <2>1, <2>2
  <2>4. PICK e \in Full(N(i), U(i)) :
            Strip(N(i), U(i)) = << <<N(i), e>> >> /\ \A k \in Full(N(i), U(i)) : k <= e
    BY <2>3, StripTiles
  <2>5. t[i] = <<N(i), e>>
    BY <1>4, <2>4
  <2>6. QED
    BY <2>1, <2>2, <2>4, <2>5
<1> HIDE DEF t, c, N, U
<1>6. ASSUME NEW i \in 1..c
      PROVE  /\ t[i] \in Nat \X Nat /\ t[i][1] = N(i) /\ t[i][2] \in N(i)..U(i) /\ N(i) \in Nat
             /\ U(i) \in Nat /\ U(i) <= b /\ \A k \in Full(N(i), U(i)) : k <= t[i][2]
  <2>1. PICK e \in Full(N(i), U(i)) :
            t[i] = <<N(i), e>> /\ \A k \in Full(N(i), U(i)) : k <= e
    BY <1>5
  <2>2. N(i) \in Nat /\ U(i) \in N(i)..b
    BY <1>1, <1>5
  <2>3. e \in N(i)..U(i)
    BY <2>1 DEF Full
  <2>4. e \in Nat /\ U(i) \in Nat /\ U(i) <= b
    BY <2>2, <2>3
  <2>5. t[i] \in Nat \X Nat /\ t[i][1] = N(i) /\ t[i][2] = e
    BY <2>1, <2>2, <2>4
  <2>6. QED
    BY <2>1, <2>2, <2>3, <2>4, <2>5
<1>7. ASSUME NEW i \in 1..c, NEW j \in 1..c, i < j
      PROVE  t[i][2] < t[j][1]
  <2>1. N(i) < N(j)
    BY <1>1, <1>7, NthOfGrows DEF N, c
  <2>2. U(i) < N(j)
    <3>1. N(j) \in S /\ N(i) \in Nat /\ N(j) \in Nat
      BY <1>5, <1>6
    <3>2. N(j) > N(i)
      BY <2>1, <3>1
    <3>3. QED
      BY <1>5, <3>1, <3>2
  <2>3. t[i][2] \in N(i)..U(i) /\ t[j][1] = N(j) /\ N(i) \in Nat /\ N(j) \in Nat /\ U(i) \in Nat
    BY <1>6
  <2>4. QED
    BY <2>2, <2>3
<1>8. ASSUME NEW i \in 1..c
      PROVE  Least(S) <= t[i][1] /\ t[i][1] <= t[i][2] /\ t[i][2] <= b
  <2>1. Least(S) <= N(i)
    BY <1>3, <1>5
  <2>2. t[i][1] = N(i) /\ t[i][2] \in N(i)..U(i) /\ N(i) \in Nat /\ U(i) \in Nat /\ U(i) <= b
    BY <1>6
  <2>3. QED
    BY <2>1, <2>2
<1>9. t \in Seq(Nat \X Nat)
  <2>1. t = [i \in 1..c |-> t[i]]
    BY DEF t, c, FunPieces
  <2>2. \A i \in 1..c : t[i] \in Nat \X Nat
    BY <1>6
  <2>3. QED
    BY <1>2, <2>1, <2>2
<1>10. DOMAIN t = 1..c
  BY <1>4
<1>11. Tiled(t, Least(S), b)
  BY <1>7, <1>8, <1>9, <1>10 DEF Tiled
<1>12. ASSUME NEW k \in Full(Least(S), b) PROVE InSome(t, k)
  <2> DEFINE G == {g \in S : g <= k}
  <2>1. k \in Nat /\ k <= b /\ Least(S) <= k /\ text[k] # "blank"
    <3>1. Least(S) \in Nat
      BY <1>1, <1>3
    <3>2. QED
      BY <3>1 DEF Full
  <2>2. G \in SUBSET Nat /\ G # {} /\ \A g \in G : g <= k
    BY <1>1, <1>3, <2>1
  <2>3. Greatest(G) \in G /\ \A g \in G : Greatest(G) >= g
    <3> HIDE DEF G
    <3>1. QED
      BY <2>1, <2>2, GreatestOf
  <2>4. PICK f \in S : f <= k /\ \A g \in S : g <= k => f >= g
    BY <2>3
  <2>5. PICK i \in 1..c : N(i) = f
    BY <1>1, RankInRange, NthOfRank DEF N, c
  <2>6. k <= U(i)
    <3>1. U(i) = b \/ U(i) + 1 \in S
      BY <1>1, <2>5, NextOf DEF U, N
    <3>2. U(i) \in Nat /\ N(i) \in Nat /\ N(i) <= U(i)
      BY <1>5, <1>6, <1>1
    <3>3. CASE U(i) + 1 \in S
      <4>1. ~(U(i) + 1 <= k)
        BY <2>4, <2>5, <3>2, <3>3
      <4>2. QED
        BY <2>1, <3>2, <4>1
    <3>4. QED
      BY <2>1, <3>1, <3>3
  <2>7. k \in Full(N(i), U(i))
    <3>1. U(i) \in Nat /\ N(i) \in Nat /\ N(i) <= k
      BY <1>6, <2>4, <2>5
    <3>2. QED
      BY <2>1, <2>6, <3>1 DEF Full
  <2>8. t[i][1] = N(i) /\ t[i][2] \in N(i)..U(i) /\ k <= t[i][2] /\ N(i) \in Nat /\ U(i) \in Nat
    BY <1>6, <2>7
  <2>9. k \in t[i][1]..t[i][2]
    BY <2>1, <2>4, <2>5, <2>8
  <2>10. QED
    BY <1>10, <2>9 DEF InSome
<1>13. \A i \in 1..c : text[t[i][1]] = "fun"
  BY <1>1, <1>5, <1>6
<1>14. 1 \in 1..c
  BY <1>2
<1>15. QED
  BY <1>10, <1>11, <1>12, <1>13, <1>14 DEF t

-----------------------------------------------------------------------------
(* A piece of s is as long as Fits allows.                                 *)
FitAt(s, i) ==
    \/ s[i][2] - s[i][1] < Size
    \/ kind \in {"section", "markdown"}
    \/ kind \in {"blocks", "kotlin"} /\ s[i][2] < NextDecl(1) /\ NextDecl(1) <= Total
    \/ kind = "kotlin" /\ text[s[i][1]] = "fun"
    \/ kind = "kotlin" /\ text[s[i][1]] = "decl" /\ i < Len(s) /\ text[s[i + 1][1]] = "fun"
    \/ OfLines /\ \A e \in At("blank", s[i][1], Total) : e < s[i][2] => e + 1 - s[i][1] < Size

AllFit(s) == \A i \in DOMAIN s : FitAt(s, i)

LEMMA JoinAt ==
    ASSUME NEW s \in Seq(Nat \X Nat), NEW t \in Seq(Nat \X Nat)
    PROVE  /\ Len(s \o t) = Len(s) + Len(t) /\ Len(s) \in Nat /\ Len(t) \in Nat
           /\ DOMAIN (s \o t) = 1..(Len(s) + Len(t))
           /\ \A i \in 1..Len(s) : (s \o t)[i] = s[i]
           /\ \A i \in 1..Len(t) : (s \o t)[i + Len(s)] = t[i]
<1>1. /\ Len(s \o t) = Len(s) + Len(t) /\ Len(s) \in Nat /\ Len(t) \in Nat
      /\ DOMAIN (s \o t) = 1..(Len(s) + Len(t))
  OBVIOUS
<1>2. \A i \in 1..Len(s) : (s \o t)[i] = s[i]
  OBVIOUS
<1>3. \A i \in 1..Len(t) : (s \o t)[i + Len(s)] = t[i]
  OBVIOUS
<1>4. QED
  BY <1>1, <1>2, <1>3

LEMMA JoinedFit ==
    ASSUME NEW s \in Seq(Nat \X Nat), NEW t \in Seq(Nat \X Nat), AllFit(s), AllFit(t)
    PROVE  AllFit(s \o t)
<1>1. /\ Len(s \o t) = Len(s) + Len(t) /\ Len(s) \in Nat /\ Len(t) \in Nat
      /\ DOMAIN (s \o t) = 1..(Len(s) + Len(t))
  BY JoinAt
<1>2. \A i \in 1..Len(s) : (s \o t)[i] = s[i]
  BY JoinAt
<1>3. \A i \in 1..Len(t) : (s \o t)[i + Len(s)] = t[i]
  BY JoinAt
<1>4. ASSUME NEW i \in 1..Len(s) PROVE FitAt(s \o t, i)
  <2>1. FitAt(s, i)
    BY DEF AllFit
  <2>2. (s \o t)[i] = s[i] /\ (i < Len(s) => i < Len(s \o t) /\ (s \o t)[i + 1] = s[i + 1])
    BY <1>1, <1>2
  <2>3. QED
    BY <2>1, <2>2 DEF FitAt
<1>5. ASSUME NEW i \in 1..Len(t) PROVE FitAt(s \o t, i + Len(s))
  <2>1. FitAt(t, i)
    BY DEF AllFit
  <2>2. /\ (s \o t)[i + Len(s)] = t[i]
        /\ i < Len(t) => i + Len(s) < Len(s \o t) /\ (s \o t)[(i + Len(s)) + 1] = t[i + 1]
    <3>1. i < Len(t) => i + 1 \in 1..Len(t) /\ (i + 1) + Len(s) = (i + Len(s)) + 1
      BY <1>1
    <3>2. i < Len(t) => (s \o t)[(i + 1) + Len(s)] = t[i + 1]
      BY <1>3, <3>1
    <3>3. i < Len(t) => i + Len(s) < Len(s \o t)
      BY <1>1
    <3>4. (s \o t)[i + Len(s)] = t[i]
      BY <1>3
    <3>5. QED
      BY <3>1, <3>2, <3>3, <3>4
  <2>3. QED
    BY <2>1, <2>2 DEF FitAt
<1>6. ASSUME NEW i \in 1..(Len(s) + Len(t)), i \notin 1..Len(s) PROVE FitAt(s \o t, i)
  <2>1. i - Len(s) \in 1..Len(t) /\ (i - Len(s)) + Len(s) = i
    BY <1>1, <1>6
  <2>2. QED
    BY <1>5, <2>1
<1>7. QED
  BY <1>1, <1>4, <1>6 DEF AllFit

(* The methods of a large class with its head.                             *)
LEMMA MethodsTile ==
    ASSUME NEW a \in Nat, NEW b \in Nat, 1 <= a, a <= b, b <= Total, Total \in Nat,
           kind = "kotlin", text[a] = "decl"
    PROVE  /\ Tiled(Methods(a, b), a, b) /\ AllFit(Methods(a, b))
           /\ \A k \in Full(a, b) : InSome(Methods(a, b), k) \/ ShortPrefix(k)
<1> DEFINE S    == At("fun", a, b)
           head == IF Least(S) - a > Short THEN Strip(a, Least(S) - 1) ELSE <<>>
           t    == FunPieces(S, b)
<1>1. CASE S = {}
  <2>1. Methods(a, b) = Slices(a, b)
    BY <1>1, MethodsDef
  <2>2. AllFit(Methods(a, b)) /\ Tiled(Methods(a, b), a, b)
    BY <2>1, SlicesTile DEF AllFit, FitAt
  <2>3. \A k \in Full(a, b) : InSome(Methods(a, b), k)
    BY <2>1, SlicesTile DEF Full
  <2>4. QED
    BY <2>2, <2>3
<1>2. CASE S # {}
  <2>1. S \in SUBSET Nat /\ S \subseteq a..b /\ \A f \in S : text[f] = "fun"
    BY DEF At
  <2>2. Least(S) \in S /\ \A f \in S : Least(S) <= f
    BY <1>2, <2>1, LeastOf
  <2>3. /\ Least(S) \in Nat /\ a < Least(S) /\ Least(S) <= b /\ text[Least(S)] = "fun"
        /\ Least(S) - 1 \in Nat /\ a <= Least(S) - 1
    <3>1. Least(S) \in a..b /\ text[Least(S)] = "fun" /\ Least(S) # a
      BY <2>1, <2>2
    <3>2. QED
      BY <3>1
  <2>4. Methods(a, b) = head \o t
    BY <1>2, MethodsDef
  <2>5. /\ Tiled(t, Least(S), b) /\ (\A k \in Full(Least(S), b) : InSome(t, k))
        /\ (\A i \in DOMAIN t : text[t[i][1]] = "fun") /\ 1 \in DOMAIN t
    BY <1>2, FunPiecesTile
  <2>6. AllFit(t)
    BY <2>5 DEF AllFit, FitAt
  <2>7. t \in Seq(Nat \X Nat)
    BY <2>5 DEF Tiled
  <2> HIDE DEF t, S
  <2>8. CASE Least(S) - a > Short
    <3>1. PICK e \in Full(a, Least(S) - 1) : head = << <<a, e>> >>
      <4>1. Strip(a, Least(S) - 1) = head /\ text[a] # "blank"
        BY <2>8
      <4>2. QED
        BY <2>3, <4>1, StripTiles
    <3>2. /\ Tiled(head, a, Least(S) - 1)
          /\ \A k \in Full(a, Least(S) - 1) : InSome(head, k)
      BY <2>3, <2>8, StripTiles
    <3> HIDE DEF head
    <3>3. e \in Nat
      BY <3>1 DEF Full
    <3>4. head \in Seq(Nat \X Nat) /\ Len(head) = 1 /\ DOMAIN head = {1} /\ head[1][1] = a
      BY <3>1, <3>3
    <3>5. /\ Tiled(head \o t, a, b)
          /\ \A k : InSome(head, k) \/ InSome(t, k) => InSome(head \o t, k)
      BY <2>3, <2>5, <3>2, Joined
    <3>6. \A k \in Full(a, b) : k \in Full(a, Least(S) - 1) \/ k \in Full(Least(S), b)
      BY <2>3 DEF Full
    <3>7. AllFit(head \o t)
      <4>1. /\ Len(head \o t) = 1 + Len(t) /\ Len(t) \in Nat /\ Len(t) >= 1
            /\ (head \o t)[1] = head[1]
            /\ \A i \in DOMAIN (head \o t) : i # 1 =>
                   i - 1 \in DOMAIN t /\ (head \o t)[i] = t[i - 1]
        <5>1. Len(t) \in Nat /\ Len(t) >= 1 /\ DOMAIN t = 1..Len(t)
          BY <2>5, <2>7
        <5>2. /\ Len(head \o t) = 1 + Len(t) /\ DOMAIN (head \o t) = 1..(1 + Len(t))
              /\ 1 \in 1..Len(head)
              /\ \A i \in 1..Len(head) : (head \o t)[i] = head[i]
              /\ \A i \in 1..Len(t) : (head \o t)[i + 1] = t[i]
          <6>1. head \in Seq(Nat \X Nat) /\ Len(head) = 1
            BY <3>4
          <6>2. /\ Len(head \o t) = Len(head) + Len(t) /\ DOMAIN (head \o t) = 1..(Len(head) + Len(t))
                /\ \A i \in 1..Len(head) : (head \o t)[i] = head[i]
                /\ \A i \in 1..Len(t) : (head \o t)[i + Len(head)] = t[i]
            BY <2>7, <6>1, JoinAt
          <6>3. QED
            BY <6>1, <6>2
        <5>3. ASSUME NEW i \in DOMAIN (head \o t), i # 1
              PROVE  i - 1 \in DOMAIN t /\ (head \o t)[i] = t[i - 1]
          <6>1. i - 1 \in 1..Len(t) /\ (i - 1) + 1 = i
            BY <5>1, <5>2, <5>3
          <6>2. QED
            BY <5>1, <5>2, <6>1
        <5>4. QED
          BY <5>1, <5>2, <5>3
      <4>2. FitAt(head \o t, 1)
        <5>1. 2 \in DOMAIN (head \o t) /\ (head \o t)[1 + 1] = t[1]
          BY <2>7, <3>4, <4>1
        <5>2. 1 < Len(head \o t)
          BY <4>1
        <5>3. QED
          BY <2>5, <3>4, <4>1, <5>1, <5>2 DEF FitAt
      <4>3. ASSUME NEW i \in DOMAIN (head \o t), i # 1 PROVE FitAt(head \o t, i)
        BY <2>5, <4>1, <4>3 DEF FitAt
      <4>4. QED
        BY <4>2, <4>3 DEF AllFit
    <3>8. QED
      BY <2>4, <2>5, <3>2, <3>5, <3>6, <3>7
  <2>9. CASE ~(Least(S) - a > Short)
    <3>1. head = <<>>
      BY <2>9
    <3>2. Tiled(head, a, Least(S) - 1) /\ head \in Seq(Nat \X Nat) /\ AllFit(head)
      <4>1. Tiled(<<>>, a, Least(S) - 1)
        BY NoPieces
      <4>2. <<>> \in Seq(Nat \X Nat) /\ DOMAIN <<>> = {}
        OBVIOUS
      <4>3. AllFit(<<>>)
        BY <4>2 DEF AllFit
      <4>4. QED
        BY <3>1, <4>1, <4>2, <4>3
    <3> HIDE DEF head
    <3>3. /\ Tiled(head \o t, a, b)
          /\ \A k : InSome(head, k) \/ InSome(t, k) => InSome(head \o t, k)
      BY <2>3, <2>5, <3>2, Joined
    <3>4. AllFit(head \o t)
      BY <2>6, <2>7, <3>2, JoinedFit
    <3>5. ASSUME NEW k \in Full(a, Least(S) - 1) PROVE ShortPrefix(k)
      <4>1. /\ k \in a..(Least(S) - 1) /\ a \in 1..k /\ Least(S) - 1 \in k..Total
            /\ (Least(S) - 1) + 1 = Least(S)
        BY <2>3 DEF Full
      <4>2. (Least(S) - 1) + 1 - a <= Short
        BY <2>3, <2>9, ChunkingAssumption
      <4>3. Least(S) \in At("fun", 1, Total)
        BY <2>3 DEF At
      <4>4. QED
        BY <4>1, <4>2, <4>3 DEF ShortPrefix
    <3>6. \A k \in Full(a, b) : k \in Full(a, Least(S) - 1) \/ k \in Full(Least(S), b)
      BY <2>3 DEF Full
    <3>7. QED
      BY <2>4, <2>5, <3>3, <3>4, <3>5, <3>6
  <2>10. QED
    BY <2>8, <2>9
<1>3. QED
  BY <1>1, <1>2

-----------------------------------------------------------------------------
(* The inductive invariant: the pieces tile what has been cut, and cover   *)
(* all of it that is not blank, but for the short prefixes.                *)
CutTyped == kind \in Kinds /\ text \in Texts /\ start \in 1..Total + 1

CutInv ==
    /\ CutTyped
    /\ Tiled(pieces, 1, start - 1)
    /\ \A k \in Full(1, start - 1) : InSome(pieces, k) \/ ShortPrefix(k)
    /\ AllFit(pieces)

LEMMA TextTyped == text \in Texts => Total \in Nat /\ 1 <= Total
<1>1. SUFFICES ASSUME NEW n \in 1..MaxLen, text \in [1..n -> Units]
               PROVE  Total \in Nat /\ 1 <= Total
  BY DEF Texts
<1>2. n \in Nat /\ 1 <= n
  BY ChunkingAssumption
<1>3. Len(text) = n
  BY <1>1, <1>2
<1>4. QED
  BY <1>2, <1>3 DEF Total

LEMMA NextDeclIs ==
    ASSUME Total \in Nat, NEW x \in Nat, 1 <= x, x <= Total + 1
    PROVE  /\ NextDecl(x) \in Nat /\ x <= NextDecl(x) /\ NextDecl(x) <= Total + 1
           /\ NextDecl(x) <= Total => NextDecl(x) \in At("decl", 1, Total)
           /\ At("decl", x, Total) # {} => NextDecl(x) <= Total
<1>1. CASE At("decl", x, Total) = {}
  BY <1>1 DEF NextDecl
<1>2. CASE At("decl", x, Total) # {}
  <2>1. At("decl", x, Total) \in SUBSET Nat
    BY DEF At
  <2>2. NextDecl(x) \in At("decl", x, Total)
    BY <1>2, <2>1, LeastOf DEF NextDecl
  <2>3. QED
    BY <2>2 DEF At
<1>3. QED
  BY <1>1, <1>2

(* Pieces of start..end are appended, and what follows end is next.        *)
LEMMA Appended ==
    ASSUME CutInv, NEW t, NEW end \in Nat, start <= end, end <= Total,
           Tiled(t, start, end), AllFit(t),
           \A k \in Full(start, end) : InSome(t, k) \/ ShortPrefix(k),
           pieces' = pieces \o t, start' = end + 1, UNCHANGED <<kind, text>>
    PROVE  CutInv'
<1>1. Total \in Nat /\ start \in Nat /\ 1 <= start
  BY TextTyped DEF CutInv, CutTyped
<1>2. /\ Tiled(pieces \o t, 1, end)
      /\ \A k : InSome(pieces, k) \/ InSome(t, k) => InSome(pieces \o t, k)
  <2>1. Tiled(pieces, 1, start - 1) /\ start <= end + 1
    BY <1>1 DEF CutInv
  <2>2. QED
    BY <1>1, <2>1, Joined
<1>3. AllFit(pieces \o t)
  BY JoinedFit DEF CutInv, Tiled
<1>4. ASSUME NEW k \in Full(1, end) PROVE InSome(pieces \o t, k) \/ ShortPrefix(k)
  <2>1. k \in Full(1, start - 1) \/ k \in Full(start, end)
    BY <1>1 DEF Full
  <2>2. QED
    BY <1>2, <2>1 DEF CutInv
<1>5. start' - 1 = end /\ start' \in 1..Total + 1
  BY <1>1
<1>6. CutTyped'
  BY <1>5 DEF CutInv, CutTyped, Total
<1>7. Tiled(pieces, 1, start - 1)'
  BY <1>2, <1>5
<1>8. AllFit(pieces)'
  <2>1. NextDecl(1)' = NextDecl(1) /\ Total' = Total /\ OfLines' = OfLines
    BY DEF NextDecl, At, Total, OfLines
  <2>2. \A a : At("blank", a, Total)' = At("blank", a, Total)
    BY DEF At, Total
  <2>3. QED
    BY <1>3, <2>1, <2>2 DEF AllFit, FitAt
<1>9. (\A k \in Full(1, start - 1) : InSome(pieces, k) \/ ShortPrefix(k))'
  <2>1. Full(1, start - 1)' = Full(1, end)
    BY <1>5 DEF Full
  <2>2. \A k : ShortPrefix(k) => ShortPrefix(k)'
    BY DEF ShortPrefix, At, Total
  <2>3. QED
    BY <1>4, <2>1, <2>2
<1>10. QED
  BY <1>6, <1>7, <1>8, <1>9 DEF CutInv

LEMMA Wider ==
    ASSUME NEW s, NEW lo \in Nat, NEW mid \in Nat, lo <= mid, NEW hi, Tiled(s, mid, hi)
    PROVE  Tiled(s, lo, hi)
<1>1. \A i \in DOMAIN s : s[i][1] \in Nat /\ mid <= s[i][1]
  BY DEF Tiled
<1>2. \A i \in DOMAIN s : lo <= s[i][1]
  BY <1>1
<1>3. QED
  BY <1>2 DEF Tiled

LEMMA CutInitHolds == CutInit => CutInv
<1>1. SUFFICES ASSUME CutInit PROVE CutInv
  OBVIOUS
<1>2. CutTyped
  BY <1>1, TextTyped DEF CutInit, CutTyped
<1>3. pieces = <<>> /\ DOMAIN <<>> = {} /\ start = 1
  BY <1>1 DEF CutInit
<1>4. Tiled(pieces, 1, start - 1)
  BY <1>3, NoPieces
<1>5. Full(1, start - 1) = {}
  BY <1>3 DEF Full
<1>6. AllFit(pieces)
  BY <1>3 DEF AllFit
<1>7. QED
  BY <1>2, <1>4, <1>5, <1>6 DEF CutInv

(* chunk_by_size.                                                          *)
LEMMA EndOfIs ==
    ASSUME NEW a \in Nat, 1 <= a, Ends \in Nat, a <= Ends
    PROVE  EndOf(a) \in Nat /\ a <= EndOf(a) /\ EndOf(a) <= Ends /\ EndOf(a) - a < Size
<1> DEFINE end   == IF a + Size - 1 < Ends THEN a + Size - 1 ELSE Ends
           stops == At("stop", a + 1, end)
<1>1. Size \in Nat \ {0}
  BY ChunkingAssumption
<1>2. end \in Nat /\ a <= end /\ end <= Ends /\ end - a < Size
  BY <1>1
<1>3. EndOf(a) = IF end < Ends /\ stops # {} THEN Greatest(stops) ELSE end
  BY DEF EndOf
<1> HIDE DEF end
<1>4. stops \in SUBSET Nat /\ \A k \in stops : a + 1 <= k /\ k <= end
  BY <1>2 DEF At
<1> HIDE DEF stops
<1>5. CASE stops # {} /\ end < Ends
  <2>1. Greatest(stops) \in stops
    BY <1>2, <1>4, <1>5, GreatestOf
  <2>2. EndOf(a) \in Nat /\ a + 1 <= EndOf(a) /\ EndOf(a) <= end
    BY <1>3, <1>4, <1>5, <2>1
  <2>3. QED
    BY <1>1, <1>2, <2>2
<1>6. QED
  BY <1>2, <1>3, <1>5

LEMMA CutKeeps == CutInv /\ Cut => CutInv'
<1>1. SUFFICES ASSUME CutInv, Cut PROVE CutInv'
  OBVIOUS
<1> DEFINE a == IF start = 1 THEN Least(Full(1, Total)) ELSE start
<1>2. Total \in Nat /\ start \in Nat /\ 1 <= start /\ start <= Total + 1
  BY <1>1, TextTyped DEF CutInv, CutTyped
<1>3. Full(1, Total) \in SUBSET Nat /\ Full(1, Total) # {} /\ \A k \in Full(1, Total) : k <= Total
  <2>1. Full(1, Total) # {}
    BY <1>1, <1>2 DEF Cut, Ends
  <2>2. QED
    BY <2>1 DEF Full
<1>4. /\ Ends \in Full(1, Total) /\ Least(Full(1, Total)) \in Full(1, Total)
      /\ \A k \in Full(1, Total) : Least(Full(1, Total)) <= k
  BY <1>2, <1>3, LeastOf, GreatestOf DEF Ends
<1>5. /\ a \in Nat /\ start <= a /\ a <= Ends /\ Ends \in Nat /\ Ends <= Total
      /\ \A k \in Full(start, Total) : a <= k
  <2>1. Ends \in Nat /\ Ends <= Total
    BY <1>3, <1>4
  <2>2. CASE start = 1
    <3>1. a = Least(Full(1, Total))
      BY <2>2
    <3>2. a \in Full(1, Total) /\ a <= Ends /\ \A k \in Full(1, Total) : a <= k
      BY <1>4, <3>1
    <3>3. a \in Nat /\ 1 <= a
      BY <3>2 DEF Full
    <3>4. QED
      BY <2>1, <2>2, <3>2, <3>3
  <2>3. CASE start # 1
    <3>1. a = start
      BY <2>3
    <3>2. start <= Ends
      BY <1>1 DEF Cut
    <3>3. \A k \in Full(start, Total) : start <= k
      BY DEF Full
    <3>4. QED
      BY <1>2, <2>1, <3>1, <3>2, <3>3
  <2>4. QED
    BY <2>2, <2>3
<1>6. /\ kind = "size" /\ pieces' = pieces \o Strip(a, EndOf(a)) /\ start' = EndOf(a) + 1
      /\ UNCHANGED <<kind, text>>
  BY <1>1 DEF Cut
<1> HIDE DEF a
<1>7. EndOf(a) \in Nat /\ a <= EndOf(a) /\ EndOf(a) <= Ends /\ EndOf(a) - a < Size
  BY <1>2, <1>5, EndOfIs
<1> DEFINE e == EndOf(a)
           t == Strip(a, e)
<1>8. Tiled(t, a, e) /\ \A k \in Full(a, e) : InSome(t, k)
  BY <1>5, <1>7, StripTiles
<1>9. e \in Nat /\ a <= e /\ e <= Total /\ e - a < Size /\ start <= e
  BY <1>2, <1>5, <1>7
<1> HIDE DEF t, e
<1>10. Tiled(t, start, e)
  BY <1>2, <1>5, <1>8, Wider
<1>11. \A k \in Full(start, e) : InSome(t, k)
  <2>1. \A k \in Full(start, e) : k \in Full(start, Total) /\ k \in Nat /\ k <= e /\ text[k] # "blank"
    BY <1>2, <1>9 DEF Full
  <2>2. \A k \in Full(start, e) : k \in Full(a, e)
    BY <1>5, <1>9, <2>1 DEF Full
  <2>3. QED
    BY <1>8, <2>2
<1>12. AllFit(t)
  <2>1. ASSUME NEW i \in DOMAIN t PROVE t[i][2] - t[i][1] < Size
    <3>1. t[i] \in Nat \X Nat /\ a <= t[i][1] /\ t[i][2] <= e
      BY <1>8 DEF Tiled
    <3>2. t[i][1] \in Nat /\ t[i][2] \in Nat
      BY <3>1
    <3>3. QED
      BY <1>5, <1>9, <3>1, <3>2, ChunkingAssumption
  <2>2. QED
    BY <2>1 DEF AllFit, FitAt
<1>13. pieces' = pieces \o t /\ start' = e + 1 /\ UNCHANGED <<kind, text>>
  BY <1>6 DEF t, e
<1>14. QED
  BY <1>1, <1>9, <1>10, <1>11, <1>12, <1>13, Appended

(* chunk_by_section, and _chunk_markdown_doc.                              *)
LEMMA SectionIs ==
    ASSUME CutInv, start <= Total
    PROVE  LET end == NextDecl(start + 1) - 1
           IN  /\ start \in Nat /\ end \in Nat /\ start <= end /\ end <= Total
               /\ Tiled(Strip(start, end), start, end)
               /\ \A k \in Full(start, end) : InSome(Strip(start, end), k)
<1> DEFINE end == NextDecl(start + 1) - 1
<1>1. Total \in Nat /\ start \in Nat /\ 1 <= start
  BY TextTyped DEF CutInv, CutTyped
<1>2. end \in Nat /\ start <= end /\ end <= Total
  BY <1>1, NextDeclIs
<1> HIDE DEF end
<1>3. QED
  BY <1>1, <1>2, StripTiles DEF end

LEMMA SectionKeeps == CutInv /\ Section => CutInv'
<1>1. SUFFICES ASSUME CutInv, Section PROVE CutInv'
  OBVIOUS
<1> DEFINE end == NextDecl(start + 1) - 1
           t   == Strip(start, end)
<1>2. kind = "section" /\ start <= Total /\ pieces' = pieces \o t /\ start' = end + 1
      /\ UNCHANGED <<kind, text>>
  BY <1>1 DEF Section
<1>3. end \in Nat /\ start <= end /\ end <= Total /\ Tiled(t, start, end)
      /\ \A k \in Full(start, end) : InSome(t, k)
  BY <1>1, <1>2, SectionIs
<1>4. AllFit(t)
  BY <1>2 DEF AllFit, FitAt
<1> HIDE DEF end, t
<1>5. QED
  BY <1>1, <1>2, <1>3, <1>4, Appended

LEMMA MarkdownKeeps == CutInv /\ Markdown => CutInv'
<1>1. SUFFICES ASSUME CutInv, Markdown PROVE CutInv'
  OBVIOUS
<1> DEFINE end == NextDecl(start + 1) - 1
           t   == Strip(start, end)
           whole == << <<1, Total>> >>
<1>2. /\ kind = "markdown" /\ start <= Total /\ start' = end + 1 /\ UNCHANGED <<kind, text>>
      /\ pieces' = IF end = Total /\ pieces \o t = <<>> THEN whole ELSE pieces \o t
  BY <1>1 DEF Markdown
<1>3. end \in Nat /\ start <= end /\ end <= Total /\ Tiled(t, start, end)
      /\ \A k \in Full(start, end) : InSome(t, k)
  BY <1>1, <1>2, SectionIs
<1>4. AllFit(t) /\ AllFit(whole)
  BY <1>2 DEF AllFit, FitAt
<1>5. Total \in Nat /\ 1 <= Total /\ Tiled(pieces, 1, start - 1)
  BY <1>1, TextTyped DEF CutInv, CutTyped
<1> HIDE DEF end, t
<1>6. CASE pieces' = pieces \o t
  BY <1>1, <1>2, <1>3, <1>4, <1>6, Appended
<1>7. CASE pieces' = whole /\ end = Total
  <2>1. Tiled(whole, 1, Total) /\ \A k \in 1..Total : InSome(whole, k)
    BY <1>5, OnePiece
  <2> HIDE DEF whole
  <2>2. start' - 1 = Total /\ start' \in 1..Total + 1 /\ Total' = Total
    BY <1>2, <1>5, <1>7 DEF Total
  <2>3. Full(1, Total) \subseteq 1..Total
    BY DEF Full
  <2>4. AllFit(pieces)'
    <3>1. NextDecl(1)' = NextDecl(1)
      BY <1>2, <2>2 DEF NextDecl, At
    <3>2. QED
      BY <1>2, <1>4, <1>7, <2>2, <3>1 DEF AllFit, FitAt
  <2>5. CutTyped'
    BY <1>1, <1>2, <2>2 DEF CutInv, CutTyped
  <2>6. Full(1, start - 1)' = Full(1, Total)
    BY <1>2, <2>2 DEF Full
  <2>7. (\A k \in Full(1, start - 1) : InSome(pieces, k) \/ ShortPrefix(k))'
    BY <1>7, <2>1, <2>3, <2>6
  <2>8. Tiled(pieces, 1, start - 1)'
    BY <1>7, <2>1, <2>2
  <2>9. QED
    BY <2>4, <2>5, <2>7, <2>8 DEF CutInv
<1>8. QED
  BY <1>2, <1>6, <1>7

(* _chunk_by_size of a file without declarations.                          *)
LEMMA LinesKeeps == CutInv /\ Lines => CutInv'
<1>1. SUFFICES ASSUME CutInv, Lines PROVE CutInv'
  OBVIOUS
<1> DEFINE full == FullAt(start)
           end  == IF full = {} THEN Total ELSE Least(full)
           t    == << <<start, end>> >>
<1>2. /\ OfLines /\ start <= Total /\ pieces' = pieces \o t /\ start' = end + 1
      /\ UNCHANGED <<kind, text>>
  BY <1>1 DEF Lines
<1>3. Total \in Nat /\ start \in Nat /\ 1 <= start /\ Size \in Nat \ {0}
  BY <1>1, TextTyped, ChunkingAssumption DEF CutInv, CutTyped
<1>4. full \in SUBSET Nat /\ full \subseteq start..Total
  BY <1>3 DEF FullAt, At
<1> HIDE DEF full
<1>5. /\ end \in Nat /\ start <= end /\ end <= Total
      /\ \A e \in full : end <= e
  <2>1. CASE full = {}
    BY <1>2, <1>3, <2>1
  <2>2. CASE full # {}
    <3>1. end \in full /\ \A e \in full : end <= e
      BY <1>4, <2>2, LeastOf
    <3>2. end \in start..Total
      BY <1>4, <3>1
    <3>3. QED
      BY <1>3, <3>1, <3>2
  <2>3. QED
    BY <2>1, <2>2
<1> HIDE DEF end
<1>6. \A e \in At("blank", start, Total) : e < end => e + 1 - start < Size
  <2>1. SUFFICES ASSUME NEW e \in At("blank", start, Total), e < end
                 PROVE  e + 1 - start < Size
    OBVIOUS
  <2>2. e \in Nat /\ e \notin full
    BY <1>3, <1>5, <2>1 DEF At
  <2>3. ~(e + 1 - start >= Size)
    BY <2>1, <2>2 DEF full, FullAt
  <2>4. QED
    BY <1>3, <2>2, <2>3
<1>7. Tiled(t, start, end) /\ \A k \in start..end : InSome(t, k)
  BY <1>3, <1>5, OnePiece
<1>8. AllFit(t)
  <2>1. DOMAIN t = {1} /\ t[1][1] = start /\ t[1][2] = end
    OBVIOUS
  <2>2. QED
    BY <1>2, <1>6, <2>1 DEF AllFit, FitAt
<1> HIDE DEF t
<1>9. \A k \in Full(start, end) : InSome(t, k)
  BY <1>7 DEF Full
<1>10. QED
  BY <1>1, <1>2, <1>5, <1>7, <1>8, <1>9, Appended

(* What precedes the first declaration.                                    *)
LEMMA HeaderKeeps == CutInv /\ Header => CutInv'
<1>1. SUFFICES ASSUME CutInv, Header PROVE CutInv'
  OBVIOUS
<1> DEFINE first == NextDecl(1)
           t     == IF first - 1 > Short THEN Strip(1, first - 1) ELSE <<>>
<1>2. /\ kind \in {"blocks", "kotlin"} /\ At("decl", 1, Total) # {} /\ start = 1 /\ first > 1
      /\ pieces' = t /\ start' = first /\ UNCHANGED <<kind, text>>
  BY <1>1 DEF Header
<1>3. Total \in Nat /\ 1 <= Total
  BY <1>1, TextTyped DEF CutInv, CutTyped
<1>4. /\ first \in Nat /\ first <= Total /\ first \in At("decl", 1, Total)
  <2>1. 1 \in Nat /\ 1 <= Total + 1
    BY <1>3
  <2>2. QED
    BY <1>2, <1>3, <2>1, NextDeclIs
<1> DEFINE end == first - 1
<1>5. end \in Nat /\ start <= end /\ end < first /\ end <= Total /\ first = end + 1
  BY <1>2, <1>3, <1>4
<1>6. pieces = <<>> /\ pieces \o t = t
  <2>1. pieces \in Seq(Nat \X Nat) /\ DOMAIN pieces = {}
    <3>1. pieces \in Seq(Nat \X Nat)
      BY <1>1 DEF CutInv, Tiled
    <3>2. ASSUME NEW i \in DOMAIN pieces PROVE FALSE
      <4>1. pieces[i][1] \in Nat /\ pieces[i][2] \in Nat
        BY <3>1
      <4>2. 1 <= pieces[i][1] /\ pieces[i][1] <= pieces[i][2] /\ pieces[i][2] <= 0
        BY <1>1, <1>2 DEF CutInv, Tiled
      <4>3. QED
        BY <4>1, <4>2
    <3>3. QED
      BY <3>1, <3>2
  <2>2. pieces = <<>>
    BY <2>1
  <2>3. t \in Seq(Nat \X Nat)
    <3>1. Tiled(Strip(1, first - 1), 1, first - 1)
      BY <1>5, StripTiles
    <3>2. QED
      BY <3>1 DEF Tiled
  <2>4. QED
    BY <2>2, <2>3
<1>7. Tiled(t, start, end)
  <2>1. Tiled(Strip(1, first - 1), 1, first - 1)
    BY <1>5, StripTiles
  <2>2. QED
    BY <1>2, <2>1, NoPieces
<1>8. ASSUME NEW k \in Full(start, end) PROVE InSome(t, k) \/ ShortPrefix(k)
  <2>1. CASE first - 1 > Short
    BY <1>2, <1>5, <2>1, StripTiles
  <2>2. CASE ~(first - 1 > Short)
    <3>1. k \in 1..end /\ 1 \in 1..k /\ end \in k..Total /\ end + 1 - 1 <= Short
      BY <1>2, <1>3, <1>5, <2>2, ChunkingAssumption DEF Full
    <3>2. end + 1 \in At("decl", 1, Total)
      BY <1>4, <1>5
    <3>3. QED
      BY <1>2, <3>1, <3>2 DEF ShortPrefix
  <2>3. QED
    BY <2>1, <2>2
<1>9. AllFit(t)
  <2>1. ASSUME NEW i \in DOMAIN t PROVE t[i][2] < first
    <3>1. t[i] \in Nat \X Nat /\ t[i][2] <= end
      BY <1>7 DEF Tiled
    <3>2. t[i][2] \in Nat
      BY <3>1
    <3>3. QED
      BY <1>5, <3>1, <3>2
  <2>2. QED
    BY <1>2, <1>4, <2>1 DEF AllFit, FitAt
<1>10. pieces' = pieces \o t /\ start' = end + 1
  BY <1>2, <1>5, <1>6
<1> HIDE DEF t, end
<1>11. QED
  BY <1>1, <1>2, <1>5, <1>7, <1>8, <1>9, <1>10, Appended

(* A declaration up to the last character of it that is not blank, in      *)
(* pieces that tile it.                                                    *)
LEMMA DeclarationIs ==
    ASSUME CutInv, start <= Total, text[start] = "decl",
           NEW block, block = Strip(start, NextDecl(start + 1) - 1)[1]
    PROVE  LET end == NextDecl(start + 1) - 1
           IN  /\ block[1] = start /\ start \in Nat /\ 1 <= start
               /\ block[2] \in Nat /\ start <= block[2]
               /\ block[2] <= end /\ end \in Nat /\ start <= end /\ end <= Total /\ Total \in Nat
               /\ block = <<start, block[2]>>
               /\ \A k \in Full(start, end) : k \in Full(start, block[2]) /\ k \in start..block[2]
<1> DEFINE end == NextDecl(start + 1) - 1
<1>1. start \in Nat /\ end \in Nat /\ start <= end /\ end <= Total
  BY SectionIs
<1>2. Total \in Nat /\ 1 <= start
  BY TextTyped DEF CutInv, CutTyped
<1> HIDE DEF end
<1>3. PICK e \in Full(start, end) :
          Strip(start, end) = << <<start, e>> >> /\ \A k \in Full(start, end) : k <= e
  BY <1>1, StripTiles
<1>4. block = <<start, e>> /\ e \in start..end /\ e \in Nat
  BY <1>1, <1>3 DEF end, Full
<1>5. ASSUME NEW k \in Full(start, end) PROVE k \in Full(start, e) /\ k \in start..e
  <2>1. k \in Nat /\ start <= k /\ k <= e /\ text[k] # "blank"
    BY <1>1, <1>3 DEF Full
  <2>2. QED
    BY <1>1, <1>4, <2>1 DEF Full
<1>6. QED
  BY <1>1, <1>2, <1>4, <1>5 DEF end

LEMMA DeclarationKeeps ==
    ASSUME CutInv, start <= Total, text[start] = "decl", NEW block, NEW m,
           block = Strip(start, NextDecl(start + 1) - 1)[1],
           pieces' = pieces \o (IF block[2] - block[1] + 1 > Size THEN m ELSE <<block>>),
           start' = NextDecl(start + 1) - 1 + 1, UNCHANGED <<kind, text>>,
           Tiled(m, block[1], block[2]), AllFit(m),
           \A k \in Full(block[1], block[2]) : InSome(m, k) \/ ShortPrefix(k)
    PROVE  CutInv'
<1> DEFINE end == NextDecl(start + 1) - 1
           e   == block[2]
           t   == IF block[2] - block[1] + 1 > Size THEN m ELSE <<block>>
<1>1. /\ block[1] = start /\ start \in Nat /\ e \in Nat /\ start <= e
      /\ e <= end /\ end \in Nat /\ start <= end /\ end <= Total
      /\ block = <<start, e>>
      /\ \A k \in Full(start, end) : k \in Full(start, e) /\ k \in start..e
  BY DeclarationIs
<1>2. pieces' = pieces \o t /\ start' = end + 1 /\ UNCHANGED <<kind, text>>
  OBVIOUS
<1> HIDE DEF end
<1>3. CASE block[2] - block[1] + 1 > Size
  <2>1. t = m
    BY <1>3
  <2>2. Tiled(m, start, e) /\ \A k \in Full(start, e) : InSome(m, k) \/ ShortPrefix(k)
    BY <1>1
  <2>3. Tiled(m, start, end)
    <3>1. \A i \in DOMAIN m : m[i][2] \in Nat /\ m[i][2] <= e
      BY <2>2 DEF Tiled
    <3>2. \A i \in DOMAIN m : m[i][2] <= end
      BY <1>1, <3>1
    <3>3. QED
      BY <2>2, <3>2 DEF Tiled
  <2>4. \A k \in Full(start, end) : InSome(m, k) \/ ShortPrefix(k)
    BY <1>1, <2>2
  <2> HIDE DEF t
  <2>5. QED
    BY <1>1, <1>2, <2>1, <2>3, <2>4, Appended
<1>4. CASE ~(block[2] - block[1] + 1 > Size)
  <2>1. t = << <<start, e>> >>
    BY <1>1, <1>4
  <2> HIDE DEF t, e
  <2>2. Tiled(t, start, end) /\ \A k \in start..e : InSome(t, k)
    BY <1>1, <2>1, OnePiece
  <2>3. AllFit(t)
    <3>1. DOMAIN t = {1} /\ t[1][1] = start /\ t[1][2] = e
      BY <2>1
    <3>2. e - start < Size
      BY <1>1, <1>4, ChunkingAssumption DEF e
    <3>3. QED
      BY <3>1, <3>2 DEF AllFit, FitAt
  <2>4. \A k \in Full(start, end) : InSome(t, k)
    BY <1>1, <2>2
  <2>5. QED
    BY <1>1, <1>2, <2>2, <2>3, <2>4, Appended
<1>5. QED
  BY <1>3, <1>4

LEMMA BlockKeeps == CutInv /\ Block => CutInv'
<1>1. SUFFICES ASSUME CutInv, Block PROVE CutInv'
  OBVIOUS
<1> DEFINE block == Strip(start, NextDecl(start + 1) - 1)[1]
           m     == Slices(block[1], block[2])
<1>2. /\ kind = "blocks" /\ start <= Total /\ text[start] = "decl" /\ UNCHANGED <<kind, text>>
      /\ start' = NextDecl(start + 1) - 1 + 1
      /\ pieces' = pieces \o (IF block[2] - block[1] + 1 > Size THEN m ELSE <<block>>)
  BY <1>1 DEF Block
<1>3. block[1] \in Nat /\ block[2] \in Nat /\ block[1] <= block[2]
  BY <1>1, <1>2, DeclarationIs
<1> HIDE DEF block
<1>4. Tiled(m, block[1], block[2]) /\ AllFit(m)
  BY <1>3, SlicesTile DEF AllFit, FitAt
<1>5. \A k \in Full(block[1], block[2]) : InSome(m, k)
  BY <1>3, SlicesTile DEF Full
<1> HIDE DEF m
<1>6. block = Strip(start, NextDecl(start + 1) - 1)[1]
  BY DEF block
<1>7. QED
  BY <1>1, <1>2, <1>4, <1>5, <1>6, DeclarationKeeps

LEMMA KotlinKeeps == CutInv /\ Declaration => CutInv'
<1>1. SUFFICES ASSUME CutInv, Declaration PROVE CutInv'
  OBVIOUS
<1> DEFINE block == Strip(start, NextDecl(start + 1) - 1)[1]
           m     == Methods(block[1], block[2])
<1>2. /\ kind = "kotlin" /\ start <= Total /\ text[start] = "decl" /\ UNCHANGED <<kind, text>>
      /\ start' = NextDecl(start + 1) - 1 + 1
      /\ pieces' = pieces \o (IF block[2] - block[1] + 1 > Size THEN m ELSE <<block>>)
  BY <1>1 DEF Declaration
<1>3. /\ block[1] \in Nat /\ block[2] \in Nat /\ block[1] <= block[2] /\ 1 <= block[1]
      /\ block[2] <= Total /\ Total \in Nat /\ text[block[1]] = "decl"
  <2>1. LET end == NextDecl(start + 1) - 1
        IN  /\ block[1] = start /\ start \in Nat /\ 1 <= start
            /\ block[2] \in Nat /\ start <= block[2]
            /\ block[2] <= end /\ end \in Nat /\ end <= Total /\ Total \in Nat
    BY <1>1, <1>2, DeclarationIs
  <2> HIDE DEF block
  <2>2. QED
    BY <1>2, <2>1
<1> HIDE DEF block
<1>4. /\ Tiled(m, block[1], block[2]) /\ AllFit(m)
      /\ \A k \in Full(block[1], block[2]) : InSome(m, k) \/ ShortPrefix(k)
  BY <1>2, <1>3, MethodsTile
<1> HIDE DEF m
<1>5. block = Strip(start, NextDecl(start + 1) - 1)[1]
  BY DEF block
<1>6. QED
  BY <1>1, <1>2, <1>4, <1>5, DeclarationKeeps

LEMMA CutNextKeeps == CutInv /\ [CutNext]_cutVars => CutInv'
<1>1. ASSUME CutInv, UNCHANGED cutVars PROVE CutInv'
  <2>1. /\ kind' = kind /\ text' = text /\ start' = start /\ pieces' = pieces
    BY <1>1 DEF cutVars
  <2>2. /\ Total' = Total /\ NextDecl(1)' = NextDecl(1) /\ OfLines' = OfLines
        /\ \A a : At("blank", a, Total)' = At("blank", a, Total)
    BY <2>1 DEF Total, NextDecl, At, OfLines
  <2>3. CutTyped' /\ Tiled(pieces, 1, start - 1)' /\ AllFit(pieces)'
    BY <1>1, <2>1, <2>2 DEF CutInv, CutTyped, AllFit, FitAt
  <2>4. (\A k \in Full(1, start - 1) : InSome(pieces, k) \/ ShortPrefix(k))'
    BY <1>1, <2>1 DEF CutInv, Full, ShortPrefix, At, Total
  <2>5. QED
    BY <2>3, <2>4 DEF CutInv
<1>2. QED
  BY <1>1, CutKeeps, SectionKeeps, MarkdownKeeps, LinesKeeps, HeaderKeeps, BlockKeeps, KotlinKeeps
     DEF CutNext

(* Pieces without an overlap hold a character at most once.                   *)
LEMMA AtMostOne ==
    ASSUME NEW hi, Tiled(pieces, 1, hi), NEW k \in Nat, InSome(pieces, k)
    PROVE  Cardinality({i \in DOMAIN pieces : k \in Piece(i)}) = 1
<1>1. PICK i \in DOMAIN pieces : k \in Piece(i)
  BY DEF InSome, Piece
<1>2. ASSUME NEW j \in DOMAIN pieces, k \in Piece(j) PROVE i = j
  <2>1. /\ pieces \in Seq(Nat \X Nat) /\ i \in Nat /\ j \in Nat
        /\ pieces[i][1] \in Nat /\ pieces[i][2] \in Nat /\ pieces[j][1] \in Nat /\ pieces[j][2] \in Nat
    BY DEF Tiled
  <2>2. ~(i < j) /\ ~(j < i)
    <3>1. /\ i < j => pieces[i][2] < pieces[j][1]
          /\ j < i => pieces[j][2] < pieces[i][1]
      BY DEF Tiled
    <3>2. /\ pieces[i][1] <= k /\ k <= pieces[i][2] /\ pieces[j][1] <= k /\ k <= pieces[j][2]
      BY <1>1, <1>2, <2>1 DEF Piece
    <3>3. QED
      BY <2>1, <3>1, <3>2
  <2>3. QED
    BY <2>1, <2>2
<1>3. {j \in DOMAIN pieces : k \in Piece(j)} = {i}
  BY <1>1, <1>2
<1>4. QED
  BY <1>3, FS_Singleton

(* No character of a text is lost and none is stored twice: of what has been    *)
(* cut, everything but blanks and short prefixes is in exactly one piece,  *)
(* for every text, strategy, size of a piece and length of a short prefix. *)
THEOREM EachOnceHolds == CutSpec => []EachOnce
<1>1. CutInv => EachOnce
  <2>1. SUFFICES ASSUME CutInv, NEW k \in Full(1, start - 1)
                 PROVE  LET holding == {i \in DOMAIN pieces : k \in Piece(i)}
                        IN  Cardinality(holding) = 1 \/ (holding = {} /\ ShortPrefix(k))
    BY DEF EachOnce
  <2>2. k \in Nat
    BY DEF Full
  <2>3. CASE InSome(pieces, k)
    BY <2>1, <2>2, <2>3, AtMostOne DEF CutInv
  <2>4. CASE ~InSome(pieces, k)
    <3>1. ShortPrefix(k)
      BY <2>1, <2>4 DEF CutInv
    <3>2. {i \in DOMAIN pieces : k \in Piece(i)} = {}
      BY <2>4 DEF InSome, Piece
    <3>3. QED
      BY <3>1, <3>2
  <2>5. QED
    BY <2>3, <2>4
<1>2. QED
  BY <1>1, CutInitHolds, CutNextKeeps, PTL DEF CutSpec

(* A piece is as long as it may be, or of the kinds that the code does not *)
(* cut, or of lines that fit without the last of them, for every text,     *)
(* strategy and size.                                                      *)
THEOREM FitsHolds == CutSpec => []Fits
<1>1. CutInv => Fits
  BY DEF CutInv, AllFit, FitAt, Fits
<1>2. QED
  BY <1>1, CutInitHolds, CutNextKeeps, PTL DEF CutSpec
=============================================================================
