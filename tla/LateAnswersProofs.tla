-------------------------- MODULE LateAnswersProofs --------------------------
(***************************************************************************)
(* The safety of three parts that ask in the background and show what      *)
(* comes back, however late it lands and whatever was asked since: what is *)
(* shown of git and the digest it is compared with, for any folders and    *)
(* statuses; the file picker, for any folders and queries; and the two     *)
(* scans of the workspace, for any folders, texts and edits: one walk of a *)
(* kind at a time, and no findings of a workspace that is not open.        *)
(***************************************************************************)
EXTENDS GitStatus, Picker, WorkspaceScans, SequenceTheorems, TLAPS

-----------------------------------------------------------------------------
(* Git *)

\* The digest a refresh carries is of the folder it was asked for.
DigestIsOfTheJob(j) == j.digest # None => j.digest.root = j.root

GitIInv == /\ GitTypeOK
           /\ SnapshotIsOfTheShown
           /\ job # None => DigestIsOfTheJob(job)

\* What the passes of a refresh make of it.
LEMMA DigestedGood ==
  ASSUME GitTypeOK, NEW j \in Refreshes, DigestIsOfTheJob(j), NEW ok
  PROVE  /\ Digested(j, ok) \in Refreshes
         /\ DigestIsOfTheJob(Digested(j, ok))
         /\ Digested(j, ok).root = j.root /\ Digested(j, ok).previous = j.previous
<1> DEFINE d == IF ok THEN [root |-> j.root, status |-> repo[j.root]] ELSE None
<1>0. j.root \in Roots /\ repo[j.root] \in Statuses \cup {NoRepo}
  BY DEF GitTypeOK, Refreshes
<1>1. CASE repo[j.root] = NoRepo
  <2>1. Digested(j, ok) = [j EXCEPT !.step = "failed"]
    BY <1>1 DEF Digested
  <2> QED BY <2>1 DEF Refreshes, DigestIsOfTheJob
<1>2. CASE repo[j.root] # NoRepo
  <2>1. d \in Reading \cup {None} /\ (d # None => d.root = j.root)
    BY <1>0, <1>2 DEF Reading
  <2>2. \/ Digested(j, ok) = [j EXCEPT !.step = "unchanged", !.digest = d]
        \/ Digested(j, ok) = [j EXCEPT !.step = "digested", !.digest = d]
    BY <1>2 DEF Digested
  <2> HIDE DEF d
  <2> QED BY <2>1, <2>2 DEF Refreshes, DigestIsOfTheJob
<1> QED BY <1>1, <1>2

\* The second pass changes neither folder nor digest of a job.
LEMMA ParsedGood ==
  ASSUME GitTypeOK, NEW j \in Refreshes, DigestIsOfTheJob(j), NEW ok
  PROVE  /\ Parsed(j, ok) \in Refreshes
         /\ DigestIsOfTheJob(Parsed(j, ok))
         /\ Parsed(j, ok).root = j.root /\ Parsed(j, ok).previous = j.previous
<1> DEFINE s == IF ok /\ repo[j.root] # NoRepo THEN repo[j.root] ELSE Empty
<1>1. s \in Statuses
  BY EmptyAssumption DEF GitTypeOK, Refreshes
<1>2. Parsed(j, ok) = [j EXCEPT !.step = "parsed", !.status = s]
  BY DEF Parsed
<1> HIDE DEF s
<1> QED BY <1>1, <1>2 DEF Refreshes, DigestIsOfTheJob

\* Whatever a refresh that is over installs, the snapshot is of what is shown.
LEMMA InstalledGood ==
  ASSUME GitIInv, NEW j \in Refreshes, DigestIsOfTheJob(j), Installed(j),
         j.step \in {"failed", "unchanged", "parsed"}
  PROVE  /\ shown' \in Reading \cup {None} /\ snapshot' \in Reading \cup {None}
         /\ snapshot' # None => shown' # None /\ shown'.root = snapshot'.root
<1>1. CASE j.step = "unchanged"
  BY <1>1 DEF Installed, GitIInv, GitTypeOK, SnapshotIsOfTheShown
<1>2. CASE j.step = "failed"
  BY <1>2 DEF Installed, Cleared, GitIInv, GitTypeOK, SnapshotIsOfTheShown
<1>3. CASE j.step = "parsed"
  <2>1. shown' = [root |-> j.root, status |-> j.status] /\ snapshot' = j.digest
    BY <1>3 DEF Installed
  <2>2. shown' \in Reading /\ snapshot' \in Reading \cup {None}
    BY <2>1 DEF Reading, Refreshes
  <2> QED BY <2>1, <2>2, NoneAssumption DEF DigestIsOfTheJob
<1> QED BY <1>1, <1>2, <1>3

\* A refresh is only asked for while none is out.
LEMMA RefreshGood ==
  ASSUME GitIInv, NEW force, NEW folder \in Roots, Refresh(force, folder),
         repo' = repo, hint' \in Roots, queued' = queued, running' = running
  PROVE  GitIInv'
<1> DEFINE j == [Asked EXCEPT !.root = folder]
<1>1. CASE job # None \/ (recent /\ ~force)
  BY <1>1 DEF Refresh, GitIInv, GitTypeOK, SnapshotIsOfTheShown, DigestIsOfTheJob
<1>2. CASE ~(job # None \/ (recent /\ ~force))
  <2>1. /\ j \in Refreshes /\ j.digest = None /\ j.previous = snapshot
        /\ DigestIsOfTheJob(j) /\ recent' = TRUE
    BY <1>2, EmptyAssumption
       DEF Asked, Refreshes, DigestIsOfTheJob, Refresh, GitIInv, GitTypeOK
  <2>2. CASE queued
    <3>1. job' = j /\ UNCHANGED <<shown, snapshot>>
      BY <1>2, <2>2 DEF Refresh
    <3> HIDE DEF j
    <3> QED
      BY <2>1, <2>2, <3>1 DEF GitIInv, GitTypeOK, SnapshotIsOfTheShown
  <2>3. CASE ~queued
    <3>1. PICK ok \in Outcomes :
            /\ job' = job
            /\ IF Digested(j, ok).step = "digested"
               THEN \E again \in Outcomes : Installed(Parsed(Digested(j, ok), again))
               ELSE Installed(Digested(j, ok))
      BY <1>2, <2>3 DEF Refresh
    <3> DEFINE d == Digested(j, ok)
    <3> HIDE DEF j
    <3>2. d \in Refreshes /\ DigestIsOfTheJob(d)
      BY <2>1, DigestedGood DEF GitIInv
    <3>3. \E k \in Refreshes : /\ Installed(k) /\ DigestIsOfTheJob(k)
                               /\ k.step \in {"failed", "unchanged", "parsed"}
      <4>1. CASE d.step = "digested"
        <5>1. PICK again \in Outcomes : Installed(Parsed(d, again))
          BY <3>1, <4>1
        <5>2. Parsed(d, again).step = "parsed"
          BY <3>2 DEF Parsed, Refreshes
        <5> QED BY <3>2, <5>1, <5>2, ParsedGood DEF GitIInv
      <4>2. CASE d.step # "digested"
        <5>1. d.step \in {"failed", "unchanged", "digested"}
          BY <2>1 DEF Digested, Refreshes
        <5> QED BY <3>1, <3>2, <4>2, <5>1
      <4> QED BY <4>1, <4>2
    <3> QED
      BY <1>2, <2>1, <3>1, <3>3, InstalledGood DEF GitIInv, GitTypeOK, SnapshotIsOfTheShown
  <2> QED BY <2>2, <2>3
<1> QED BY <1>1, <1>2

\* Every step keeps the invariant.
LEMMA GitStep == GitIInv /\ [GitNext]_gitVars => GitIInv'
<1> SUFFICES ASSUME GitIInv, [GitNext]_gitVars PROVE GitIInv'
  OBVIOUS
<1>1. ASSUME NEW r \in Roots, NEW s \in Statuses \cup {NoRepo}, Change(r, s) PROVE GitIInv'
  BY <1>1 DEF Change, GitIInv, GitTypeOK, SnapshotIsOfTheShown, DigestIsOfTheJob
<1>2. CASE Forced
  BY <1>2, RefreshGood DEF Forced, GitIInv, GitTypeOK
<1>3. CASE TimerRefresh
  BY <1>3, RefreshGood DEF TimerRefresh, GitIInv, GitTypeOK
<1>4. CASE Elapse
  BY <1>4 DEF Elapse, GitIInv, GitTypeOK, SnapshotIsOfTheShown, DigestIsOfTheJob
<1>5. ASSUME NEW r \in Roots, RefreshWorkspace(r) PROVE GitIInv'
  BY <1>5, RefreshGood DEF RefreshWorkspace
<1>6. CASE RunLoop
  BY <1>6 DEF RunLoop, GitIInv, GitTypeOK, SnapshotIsOfTheShown, DigestIsOfTheJob
<1>7. ASSUME NEW ok \in Outcomes, Digest(ok) PROVE GitIInv'
  <2>1. job \in Refreshes /\ job # None /\ DigestIsOfTheJob(job) /\ job' = Digested(job, ok)
    BY <1>7 DEF Digest, GitIInv, GitTypeOK
  <2> QED
    BY <1>7, <2>1, DigestedGood DEF Digest, GitIInv, GitTypeOK, SnapshotIsOfTheShown
<1>8. ASSUME NEW ok \in Outcomes, Parse(ok) PROVE GitIInv'
  <2>1. job \in Refreshes /\ job # None /\ DigestIsOfTheJob(job) /\ job' = Parsed(job, ok)
    BY <1>8 DEF Parse, GitIInv, GitTypeOK
  <2> QED
    BY <1>8, <2>1, ParsedGood DEF Parse, GitIInv, GitTypeOK, SnapshotIsOfTheShown
<1>9. CASE Land
  <2>1. job \in Refreshes /\ DigestIsOfTheJob(job)
    BY <1>9 DEF Land, GitIInv, GitTypeOK
  <2>2. CASE running
    BY <1>9, <2>1, <2>2, InstalledGood DEF Land, GitIInv, GitTypeOK, SnapshotIsOfTheShown
  <2>3. CASE ~running
    BY <1>9, <2>3 DEF Land, GitIInv, GitTypeOK, SnapshotIsOfTheShown
  <2> QED BY <2>2, <2>3
<1>10. CASE ShutDown
  BY <1>10 DEF ShutDown, GitIInv, GitTypeOK, SnapshotIsOfTheShown, DigestIsOfTheJob
<1>11. CASE UNCHANGED gitVars
  BY <1>11 DEF gitVars, GitIInv, GitTypeOK, SnapshotIsOfTheShown, DigestIsOfTheJob
<1> QED
  BY <1>1, <1>2, <1>3, <1>4, <1>5, <1>6, <1>7, <1>8, <1>9, <1>10, <1>11 DEF GitNext

\* Every reachable state satisfies it.
THEOREM GitInvariance == GitSpec => []GitIInv
<1>1. GitInit => GitIInv
  BY EmptyAssumption DEF GitInit, GitIInv, GitTypeOK, SnapshotIsOfTheShown
<1> QED
  BY <1>1, GitStep, PTL DEF GitSpec

\* The variables keep their types.
THEOREM GitTypeCorrect == GitSpec => []GitTypeOK
<1>1. GitIInv => GitTypeOK
  BY DEF GitIInv
<1> QED
  BY <1>1, GitInvariance, PTL

\* The digest a refresh is compared with is of the repository on screen, in a
\* session of any folders, however often they are changed and git fails: "the
\* same text" never keeps the status of another repository.
THEOREM SnapshotIsKept == GitSpec => []SnapshotIsOfTheShown
<1>1. GitIInv => SnapshotIsOfTheShown
  BY DEF GitIInv
<1> QED
  BY <1>1, GitInvariance, PTL

-----------------------------------------------------------------------------
(* The picker *)

\* The rows never outlive what they were filtered from by more than a walk: while
\* none is awaited they are of the listing that is kept, that listing is of the
\* folder in the header, and a closed picker has neither rows nor walks to take.
PickerIInv ==
  /\ PickerTypeOK
  /\ entries # NoListing => entries = root /\ ~pending
                       /\ results = Filtered(root, query)
  /\ ~pending /\ entries = NoListing => results = NoListing
  /\ ~active => ~pending /\ entries = NoListing /\ results = NoListing
                /\ \A w \in walks : ~w.latest
  /\ ScanningIsForThisRoot
  /\ ~pending => \A w \in walks : ~w.latest

\* The walks that are overtaken are the walks, none of them the latest.
LEMMA OvertakenType ==
  ASSUME PickerTypeOK
  PROVE  Overtaken \subseteq Walks /\ \A w \in Overtaken : ~w.latest
BY DEF PickerTypeOK, Overtaken, Walks

\* A new walk is the only latest one.
LEMMA ScannedGood ==
  ASSUME PickerTypeOK, NEW r \in Folders, Scanned(r), active', root' = r
  PROVE  walks' \subseteq Walks /\ pending' /\ ScanningIsForThisRoot'
<1> DEFINE new == [root |-> r, latest |-> TRUE, found |-> "walking"]
<1>1. /\ walks' = Overtaken \cup {new} /\ pending' = TRUE
  BY DEF Scanned
<1>2. new \in Walks /\ new.latest /\ new.root = r
  BY DEF Walks
<1>3. \A w \in walks' : w.latest => w = new
  BY <1>1, OvertakenType
<1>4. Accepts(new)'
  BY <1>2 DEF Accepts
<1> QED
  BY <1>1, <1>2, <1>3, <1>4, OvertakenType DEF ScanningIsForThisRoot

\* Every step keeps it.
LEMMA PickerStep == PickerIInv /\ [PickerNext]_pickerVars => PickerIInv'
<1> SUFFICES ASSUME PickerIInv, [PickerNext]_pickerVars PROVE PickerIInv'
  OBVIOUS
<1>0. PickerTypeOK
  BY DEF PickerIInv
<1>1. ASSUME NEW r \in Folders, NEW f \in Folders, Open(r, f) PROVE PickerIInv'
  <2>1. walks' \subseteq Walks /\ pending' /\ ScanningIsForThisRoot'
    BY <1>0, <1>1, ScannedGood DEF Open
  <2> QED
    BY <1>0, <1>1, <2>1, PickerAssumption DEF Open, PickerIInv, PickerTypeOK, Listings, Rows
<1>2. ASSUME NEW q \in Queries, Type(q) PROVE PickerIInv'
  <2>1. CASE NeedsScan
    <3>1. walks' \subseteq Walks /\ pending' /\ ScanningIsForThisRoot'
      BY <1>0, <1>2, <2>1, ScannedGood DEF Type, PickerTypeOK
    <3> QED
      BY <1>0, <1>2, <2>1, <3>1
         DEF Type, PickerIInv, PickerTypeOK, Listings, Rows, NeedsScan, RowsAfterKey, Filtered
  <2>2. CASE ~NeedsScan
    <3>1. UNCHANGED <<active, root, entries, pending, walks>> /\ results' \in Rows
      BY <1>0, <1>2, <2>2 DEF Type, RowsAfterKey, Filtered, PickerTypeOK, Rows, Listings
    <3> QED
      BY <1>0, <1>2, <2>2, <3>1
         DEF Type, PickerIInv, PickerTypeOK, NeedsScan, RowsAfterKey, Filtered,
             ScanningIsForThisRoot, Accepts
  <2> QED BY <2>1, <2>2
<1>3. CASE Close
  BY <1>0, <1>3, OvertakenType, PickerAssumption
     DEF Close, Cancelled, PickerIInv, PickerTypeOK, ScanningIsForThisRoot, Listings, Rows
<1>4. CASE GoParent
  <2>1. Parent[root] \in Folders
    BY <1>0, PickerAssumption DEF PickerTypeOK
  <2>2. walks' \subseteq Walks /\ pending' /\ ScanningIsForThisRoot'
    BY <1>0, <1>4, <2>1, ScannedGood DEF GoParent
  <2> QED
    BY <1>0, <1>4, <2>1, <2>2 DEF GoParent, PickerIInv, PickerTypeOK, Listings
<1>5. CASE Rescan
  <2>1. walks' \subseteq Walks /\ pending' /\ ScanningIsForThisRoot'
    BY <1>0, <1>5, ScannedGood DEF Rescan, PickerTypeOK
  <2> QED
    BY <1>0, <1>5, <2>1 DEF Rescan, PickerIInv, PickerTypeOK, Listings, Rows
<1>6. CASE Walk
  <2>1. PICK w \in walks, found \in {"listing", "nothing"} :
          walks' = (walks \ {w}) \cup {[w EXCEPT !.found = found]}
    BY <1>6 DEF Walk
  <2> DEFINE new == [w EXCEPT !.found = found]
  <2>2. new \in Walks /\ new.root = w.root /\ new.latest = w.latest
    BY <1>0, <2>1 DEF PickerTypeOK, Walks
  <2>3. UNCHANGED <<active, root, floor, query, entries, results, pending, failed, readable>>
    BY <1>6 DEF Walk
  <2>4. ScanningIsForThisRoot'
    <3> SUFFICES ASSUME pending PROVE ScanningIsForThisRoot'
      BY <2>3 DEF ScanningIsForThisRoot
    <3>1. PICK v \in walks : /\ active /\ v.latest /\ v.root = root
                             /\ \A u \in walks : u.latest => u = v
      BY DEF PickerIInv, ScanningIsForThisRoot, Accepts
    <3>2. CASE v = w
      BY <2>1, <2>2, <2>3, <3>1, <3>2 DEF ScanningIsForThisRoot, Accepts
    <3>3. CASE v # w
      BY <2>1, <2>2, <2>3, <3>1, <3>3 DEF ScanningIsForThisRoot, Accepts
    <3> QED BY <3>2, <3>3
  <2> QED
    BY <1>0, <2>1, <2>2, <2>3, <2>4 DEF PickerIInv, PickerTypeOK, Listings, Rows, Filtered
<1>7. CASE LandScan
  <2>1. PICK w \in walks :
          /\ w.found # "walking"
          /\ walks' = walks \ {w}
          /\ IF ~Accepts(w) THEN UNCHANGED <<entries, results, pending, failed>>
             ELSE IF w.found = "nothing" THEN Failed ELSE Listed(w)
          /\ UNCHANGED <<active, root, floor, query, readable>>
    BY <1>7 DEF LandScan
  <2>2. w.root \in Folders
    BY <1>0 DEF PickerTypeOK, Walks
  <2>3. CASE ~Accepts(w)
    <3>1. ScanningIsForThisRoot'
      BY <2>1, <2>3 DEF PickerIInv, ScanningIsForThisRoot, Accepts
    <3> QED
      BY <1>0, <2>1, <2>3, <3>1 DEF PickerIInv, PickerTypeOK, Listings, Rows, Filtered
  <2>4. CASE Accepts(w)
    <3>1. pending /\ w.root = root /\ \A v \in walks' : ~v.latest
      BY <2>1, <2>4 DEF PickerIInv, ScanningIsForThisRoot, Accepts
    <3>2. CASE w.found = "nothing"
      BY <1>0, <2>1, <2>4, <3>1, <3>2
         DEF Failed, PickerIInv, PickerTypeOK, ScanningIsForThisRoot, Listings, Rows
    <3>3. CASE w.found # "nothing"
      <4>1. /\ failed' = FALSE /\ pending' = FALSE
            /\ entries' = root' /\ results' = [root |-> root', query |-> query']
            /\ UNCHANGED <<active, root, floor, query, readable>>
        BY <2>1, <2>4, <3>1, <3>3 DEF Listed, Filtered
      <4>2. PickerTypeOK'
        BY <1>0, <2>1, <4>1 DEF PickerTypeOK, Listings, Rows
      <4>3. active' /\ entries' # NoListing
        BY <2>2, <2>4, <3>1, <4>1, PickerAssumption DEF Accepts
      <4> QED
        BY <3>1, <4>1, <4>2, <4>3 DEF PickerIInv, ScanningIsForThisRoot, Filtered
    <3> QED BY <3>2, <3>3
  <2> QED BY <2>3, <2>4
<1>8. ASSUME NEW r \in Folders, FolderChanges(r) PROVE PickerIInv'
  BY <1>0, <1>8
     DEF FolderChanges, PickerIInv, PickerTypeOK, ScanningIsForThisRoot, Accepts, Filtered, Listings, Rows
<1>9. CASE UNCHANGED pickerVars
  BY <1>9 DEF pickerVars, PickerIInv, PickerTypeOK, ScanningIsForThisRoot, Accepts, Filtered, Listings, Rows
<1> QED
  BY <1>1, <1>2, <1>3, <1>4, <1>5, <1>6, <1>7, <1>8, <1>9 DEF PickerNext, Keys

\* Every reachable state satisfies it.
THEOREM PickerInvariance == PickerSpec => []PickerIInv
<1>1. PickerInit => PickerIInv
  BY PickerAssumption
     DEF PickerInit, PickerIInv, PickerTypeOK, ScanningIsForThisRoot, Listings, Rows
<1> QED
  BY <1>1, PickerStep, PTL DEF PickerSpec

\* The variables keep their types.
THEOREM PickerTypeCorrect == PickerSpec => []PickerTypeOK
<1>1. PickerIInv => PickerTypeOK
  BY DEF PickerIInv
<1> QED
  BY <1>1, PickerInvariance, PTL

\* Enter never opens a row of another folder or for another query, in a picker of
\* any folders, whatever walks were overtaken and however late they land.
THEOREM EnterIsSafe == PickerSpec => []EnterOpensWhatIsAsked
<1>1. PickerIInv => EnterOpensWhatIsAsked
  BY DEF PickerIInv, EnterOpensWhatIsAsked, Filtered
<1> QED
  BY <1>1, PickerInvariance, PTL

\* A picker that says it is scanning has one walk out, for its folder, whose
\* result it will take.
THEOREM OneWalkIsTaken == PickerSpec => []ScanningIsForThisRoot
<1>1. PickerIInv => ScanningIsForThisRoot
  BY DEF PickerIInv
<1> QED
  BY <1>1, PickerInvariance, PTL

-----------------------------------------------------------------------------
(* The scans of the workspace *)

\* One scan, and the flag says so.
Single(b) == /\ \A j, k \in b.jobs : j = k
             /\ b.running <=> b.jobs # {}

\* The state without what the proof says nothing of.
Scene == /\ workspace \in Names
         /\ disk \in [Workspaces -> Texts]
         /\ typed \in Unsaved
         /\ edits \in 0..MaxEdits
         /\ {enabled, up, alive} \subseteq BOOLEAN
         /\ formatting \in Seq(Formatters) /\ Len(formatting) <= MaxFormatters

ScansIInv == /\ Scene
             /\ defs \in DefsBooks /\ Single(defs) /\ FindingsOfThisWorkspace
             /\ web \in Books /\ Single(web)

\* A name names a folder.
LEMMA FolderType == \A r \in Names : Folder(r) \in Workspaces
BY WorkspacesAssumption DEF Names, Folder

-----------------------------------------------------------------------------
(* A request is kept, or starts the only scan.                             *)

\* Asking for a scan starts one or notes the wish; what is shown stays.
LEMMA WantedKeeps ==
  ASSUME NEW b, b \in Books \/ b \in DefsBooks, Single(b),
         NEW r \in Names, NEW queue, NEW unsaved \in Unsaved
  PROVE  /\ b \in Books => Wanted(b, r, queue, unsaved) \in Books
         /\ b \in DefsBooks => Wanted(b, r, queue, unsaved) \in DefsBooks
         /\ Single(Wanted(b, r, queue, unsaved))
         /\ Wanted(b, r, queue, unsaved).shown = b.shown
<1>1. CASE b.running \/ ~queue
  BY <1>1 DEF Wanted, Books, DefsBooks, Single
<1>2. CASE ~(b.running \/ ~queue)
  <2> DEFINE scan == [root |-> r, unsaved |-> unsaved, read |-> Unread, newest |-> TRUE]
             jobs == {[j EXCEPT !.newest = FALSE] : j \in b.jobs} \cup {scan}
  <2>1. scan \in Jobs
    BY DEF Jobs
  <2>2. b.jobs = {}
    BY <1>2 DEF Single
  <2>3. jobs = {scan} /\ jobs \in SUBSET Jobs
    BY <2>1, <2>2
  <2>4. Wanted(b, r, queue, unsaved) =
          [b EXCEPT !.running = TRUE, !.lost = FALSE, !.jobs = jobs]
    BY <1>2 DEF Wanted, Submitted
  <2> HIDE DEF jobs, scan
  <2> QED
    BY <2>3, <2>4 DEF Books, DefsBooks, Single
<1> QED BY <1>1, <1>2

\* The same for the definitions, which may be turned off,
LEMMA DefsWantedKeeps ==
  ASSUME NEW b \in DefsBooks, Single(b), NEW r \in Names, NEW on, NEW queue,
         NEW text \in Unsaved
  PROVE  /\ DefsWanted(b, r, on, queue, text) \in DefsBooks
         /\ Single(DefsWanted(b, r, on, queue, text))
         /\ DefsWanted(b, r, on, queue, text).shown = b.shown
<1> DEFINE c == [b EXCEPT !.signature = text]
<1>1. c \in DefsBooks /\ Single(c) /\ c.shown = b.shown
  BY DEF DefsBooks, Single
<1>2. DefsWanted(b, r, on, queue, text) = IF on THEN Wanted(c, r, queue, text) ELSE b
  BY DEF DefsWanted
<1> HIDE DEF c
<1> QED BY <1>1, <1>2, WantedKeeps

\* and whose findings may be dropped.
LEMMA ClearedKeeps ==
  ASSUME NEW b \in DefsBooks, Single(b)
  PROVE  /\ DefsCleared(b) \in DefsBooks /\ Single(DefsCleared(b))
         /\ DefsCleared(b).shown = Nothing
<1>1. Clean \in Unsaved /\ 0 \in 0..MaxEdits /\ Nothing \in Results
  BY BoundsAssumption DEF Unsaved, Results
<1> QED
  BY <1>1 DEF DefsCleared, DefsBooks, Single

\* What was wanted meanwhile starts when the scan is over.
LEMMA AgainKeeps ==
  ASSUME Scene
  PROVE  /\ \A b \in DefsBooks : Single(b) =>
              DefsAgain(b) \in DefsBooks /\ Single(DefsAgain(b)) /\ DefsAgain(b).shown = b.shown
         /\ \A b \in Books : Single(b) => WebAgain(b) \in Books /\ Single(WebAgain(b))
<1>1. ASSUME NEW b \in DefsBooks, Single(b)
      PROVE  DefsAgain(b) \in DefsBooks /\ Single(DefsAgain(b)) /\ DefsAgain(b).shown = b.shown
  <2> DEFINE c == [b EXCEPT !.pending = FALSE]
  <2>1. c \in DefsBooks /\ Single(c) /\ c.shown = b.shown
    BY <1>1 DEF DefsBooks, Single
  <2> DEFINE queue == TRUE
  <2>2. DefsAgain(b) = IF b.pending THEN DefsWanted(c, workspace, enabled, queue, typed) ELSE b
    BY DEF DefsAgain
  <2>3. workspace \in Names /\ typed \in Unsaved
    BY DEF Scene
  <2> HIDE DEF c, queue
  <2>4. /\ DefsWanted(c, workspace, enabled, queue, typed) \in DefsBooks
        /\ Single(DefsWanted(c, workspace, enabled, queue, typed))
        /\ DefsWanted(c, workspace, enabled, queue, typed).shown = c.shown
    BY <2>1, <2>3, DefsWantedKeeps, SMTT(60)
  <2> QED BY <1>1, <2>1, <2>2, <2>4
<1>2. ASSUME NEW b \in Books, Single(b)
      PROVE  WebAgain(b) \in Books /\ Single(WebAgain(b))
  <2> DEFINE c == [b EXCEPT !.pending = FALSE]
  <2>1. c \in Books /\ Single(c)
    BY <1>2 DEF Books, Single
  <2>2. WebAgain(b) = IF b.pending THEN Wanted(c, workspace, TRUE, Clean) ELSE b
    BY DEF WebAgain, WebWanted
  <2>3. Clean \in Unsaved /\ workspace \in Names
    BY DEF Unsaved, Scene
  <2> HIDE DEF c
  <2>4. Wanted(c, workspace, TRUE, Clean) \in Books /\ Single(Wanted(c, workspace, TRUE, Clean))
    BY <2>1, <2>3, WantedKeeps
  <2> QED BY <1>2, <2>2, <2>4
<1> QED BY <1>1, <1>2

\* The only scan is over.
LEMMA LandedKeeps ==
  ASSUME NEW b, b \in Books \/ b \in DefsBooks, Single(b), NEW j \in b.jobs
  PROVE  /\ b \in Books => Landed(b, j) \in Books
         /\ b \in DefsBooks => Landed(b, j) \in DefsBooks
         /\ Single(Landed(b, j)) /\ Landed(b, j).shown = b.shown
<1>1. b.jobs \ {j} = {}
  BY DEF Single
<1>2. Landed(b, j) = [b EXCEPT !.jobs = {}, !.running = FALSE]
  BY <1>1 DEF Landed, Books, DefsBooks
<1> QED BY <1>2 DEF Books, DefsBooks, Single

\* A worker reads the text.
LEMMA ReadKeeps ==
  ASSUME Scene, NEW b, b \in Books \/ b \in DefsBooks, Single(b), NEW j \in b.jobs
  PROVE  /\ b \in Books => Read(b, j) \in Books
         /\ b \in DefsBooks => Read(b, j) \in DefsBooks
         /\ Single(Read(b, j)) /\ Read(b, j).shown = b.shown
<1> DEFINE text == IF j.unsaved # Clean THEN j.unsaved ELSE disk[Folder(j.root)]
           new == [j EXCEPT !.unsaved = Clean, !.read = text]
           jobs == (b.jobs \ {j}) \cup {new}
<1>1. j \in Jobs
  BY DEF Books, DefsBooks
<1>2. text \in Texts
  BY <1>1, FolderType DEF Jobs, Unsaved, Scene
<1>3. new \in Jobs
  <2> HIDE DEF text
  <2> QED BY <1>1, <1>2 DEF Jobs, Unsaved
<1>4. jobs = {new} /\ jobs \in SUBSET Jobs
  <2> HIDE DEF new
  <2> QED BY <1>3 DEF Single
<1>5. Read(b, j) = [b EXCEPT !.jobs = jobs]
  BY DEF Read
<1>6. b.running
  BY DEF Single
<1> HIDE DEF jobs, new
<1> QED BY <1>4, <1>5, <1>6 DEF Books, DefsBooks, Single

-----------------------------------------------------------------------------
(* The steps that ask for scans: the scene they leave is given.            *)

\* The steps that only ask for scans.
LEMMA AskingKeeps ==
  ASSUME ScansIInv, Scene', Folder(workspace') = Folder(workspace), NEW on, NEW queue,
         NEW text \in Unsaved,
         \/ defs' = defs
         \/ defs' = DefsCleared(defs)
         \/ defs' = DefsWanted(defs, workspace, on, queue, text),
         web' = web \/ web' = WebWanted(web, workspace, queue)
  PROVE  ScansIInv'
<1>1. Clean \in Unsaved /\ workspace \in Names
  BY DEF Unsaved, ScansIInv, Scene
<1>2. web' \in Books /\ Single(web')
  BY <1>1, WantedKeeps DEF ScansIInv, WebWanted
<1>3. /\ defs' \in DefsBooks /\ Single(defs')
      /\ defs'.shown = defs.shown \/ defs'.shown = Nothing
  BY <1>1, ClearedKeeps, DefsWantedKeeps DEF ScansIInv
<1> QED
  BY <1>2, <1>3 DEF ScansIInv, FindingsOfThisWorkspace, Single

\* Opening a workspace.
LEMMA OpenKeeps ==
  ASSUME ScansIInv, NEW r \in Workspaces, OpenWorkspace(r)
  PROVE  ScansIInv'
<1>1. r \in Names /\ Clean \in Unsaved
  BY DEF Names, Unsaved
<1>2. Scene'
  BY <1>1 DEF OpenWorkspace, ScansIInv, Scene
<1>3. web' \in Books /\ Single(web')
  BY <1>1, WantedKeeps DEF OpenWorkspace, WebWanted, ScansIInv
<1>4. /\ DefsCleared(defs) \in DefsBooks /\ Single(DefsCleared(defs))
      /\ DefsCleared(defs).shown = Nothing
  BY ClearedKeeps DEF ScansIInv
<1>5. defs' \in DefsBooks /\ Single(defs') /\ defs'.shown = Nothing
  BY <1>1, <1>4, DefsWantedKeeps, ZenonT(60) DEF OpenWorkspace
<1> QED
  BY <1>2, <1>3, <1>5 DEF ScansIInv, FindingsOfThisWorkspace, Single

\* What lands is published only for the workspace that is open.
LEMMA LandDefsKeeps ==
  ASSUME ScansIInv, LandDefs
  PROVE  ScansIInv'
<1>1. PICK j \in defs.jobs :
        LET b == Landed(defs, j)
        IN /\ j.read # Unread
           /\ defs' = IF Belongs(j, workspace) THEN DefsAgain(Published(b, j))
                      ELSE IF alive /\ b.pending /\ j.root = workspace THEN DefsAgain(b)
                      ELSE Dropped(b)
  BY DEF LandDefs
<1> DEFINE b == Landed(defs, j)
           a == Published(b, j)
<1>2. b \in DefsBooks /\ Single(b) /\ b.shown = defs.shown
  BY LandedKeeps DEF ScansIInv
<1>3. j.root \in Names /\ j.read \in Texts
  BY <1>1 DEF ScansIInv, DefsBooks, Jobs
<1>4. a \in DefsBooks /\ Single(a) /\ a.shown = [folder |-> Folder(j.root), text |-> j.read]
  <2>1. [folder |-> Folder(j.root), text |-> j.read] \in Results
    BY <1>3, FolderType DEF Results
  <2>2. a = [b EXCEPT !.shown = [folder |-> Folder(j.root), text |-> j.read]]
    BY DEF Published
  <2> HIDE DEF a, b
  <2> QED BY <1>2, <2>1, <2>2 DEF DefsBooks, Single
<1>5. Dropped(b) \in DefsBooks /\ Single(Dropped(b)) /\ Dropped(b).shown = b.shown
  <2> HIDE DEF b
  <2> QED BY <1>2 DEF Dropped, DefsBooks, Single
<1>6. /\ defs' \in DefsBooks /\ Single(defs')
      /\ defs'.shown = defs.shown \/ defs'.shown.folder = Folder(workspace)
  <2> HIDE DEF a
  <2>1. CASE Belongs(j, workspace)
    <3>1. j.root = workspace
      BY <2>1 DEF Belongs
    <3>2. defs' = DefsAgain(a)
      BY <1>1, <2>1 DEF a
    <3> QED BY <1>4, <3>1, <3>2, AgainKeeps DEF ScansIInv
  <2>2. CASE ~Belongs(j, workspace)
    <3> HIDE DEF b
    <3>1. defs' = DefsAgain(b) \/ defs' = Dropped(b)
      BY <1>1, <2>2 DEF b
    <3> QED BY <1>2, <1>5, <3>1, AgainKeeps DEF ScansIInv
  <2> QED BY <2>1, <2>2
<1>7. UNCHANGED <<workspace, disk, typed, edits, enabled, up, alive, formatting, web>>
  BY DEF LandDefs
<1> QED
  BY <1>6, <1>7 DEF ScansIInv, Scene, Single, FindingsOfThisWorkspace

\* The web index lands.
LEMMA LandWebKeeps ==
  ASSUME ScansIInv, LandWeb
  PROVE  ScansIInv'
<1>1. PICK j \in web.jobs :
        LET b == Landed(web, j)
        IN /\ j.read # Unread
           /\ web' = IF Belongs(j, workspace) THEN WebAgain(Published(b, j))
                     ELSE IF alive /\ b.pending /\ j.root = workspace THEN WebAgain(b)
                     ELSE Dropped(b)
  BY DEF LandWeb
<1> DEFINE b == Landed(web, j)
           p == Published(b, j)
<1>2. b \in Books /\ Single(b)
  BY LandedKeeps DEF ScansIInv
<1>3. p \in Books /\ Single(p) /\ Dropped(b) \in Books /\ Single(Dropped(b))
  <2>1. [folder |-> Folder(j.root), text |-> j.read] \in Results
    BY <1>1, FolderType DEF ScansIInv, Books, Jobs, Results
  <2>2. p = [b EXCEPT !.shown = [folder |-> Folder(j.root), text |-> j.read]]
    BY DEF Published
  <2> HIDE DEF p, b
  <2> QED BY <1>2, <2>1, <2>2 DEF Dropped, Books, Single
<1>4. web' = WebAgain(p) \/ web' = WebAgain(b) \/ web' = Dropped(b)
  BY <1>1
<1>5. web' \in Books /\ Single(web')
  <2> HIDE DEF p, b
  <2> QED BY <1>2, <1>3, <1>4, AgainKeeps DEF ScansIInv
<1>6. UNCHANGED <<workspace, disk, typed, edits, enabled, up, alive, formatting, defs>>
  BY DEF LandWeb
<1> QED
  BY <1>5, <1>6 DEF ScansIInv, Scene, Single, FindingsOfThisWorkspace

\* One formatter more, or one less.
LEMMA FormattingType ==
  ASSUME Scene
  PROVE  /\ \A f \in Workspaces \cup {Other} : Len(formatting) < MaxFormatters =>
              LET q == Append(formatting, [file |-> f, done |-> FALSE])
              IN q \in Seq(Formatters) /\ Len(q) <= MaxFormatters
         /\ \A k \in DOMAIN formatting :
              LET q == RemoveAt(formatting, k)
              IN q \in Seq(Formatters) /\ Len(q) <= MaxFormatters
         /\ \A k \in DOMAIN formatting :
              LET q == [formatting EXCEPT ![k].done = TRUE]
              IN q \in Seq(Formatters) /\ Len(q) <= MaxFormatters
<1>0. /\ formatting \in Seq(Formatters) /\ Len(formatting) <= MaxFormatters
      /\ MaxFormatters \in Nat /\ Len(formatting) \in Nat
      /\ DOMAIN formatting = 1..Len(formatting)
  BY BoundsAssumption, LenProperties DEF Scene
<1>1. ASSUME NEW f \in Workspaces \cup {Other}, Len(formatting) < MaxFormatters
      PROVE  LET q == Append(formatting, [file |-> f, done |-> FALSE])
             IN q \in Seq(Formatters) /\ Len(q) <= MaxFormatters
  <2>1. [file |-> f, done |-> FALSE] \in Formatters
    BY DEF Formatters
  <2> QED BY <1>0, <1>1, <2>1, AppendProperties
<1>2. ASSUME NEW k \in DOMAIN formatting
      PROVE  LET q == RemoveAt(formatting, k)
             IN q \in Seq(Formatters) /\ Len(q) <= MaxFormatters
  <2> DEFINE a == SubSeq(formatting, 1, k - 1)
             c == SubSeq(formatting, k + 1, Len(formatting))
  <2>1. \A i \in 1..Len(formatting) : formatting[i] \in Formatters
    BY <1>0, ElementOfSeq
  <2>2. k \in 1..Len(formatting)
    BY <1>0
  <2>3. a \in Seq(Formatters) /\ Len(a) = k - 1
    BY <1>0, <2>1, <2>2, SubSeqProperties
  <2>4. c \in Seq(Formatters) /\ Len(c) = Len(formatting) - k
    BY <1>0, <2>1, <2>2, SubSeqProperties
  <2>5. RemoveAt(formatting, k) = a \o c
    BY DEF RemoveAt
  <2> HIDE DEF a, c
  <2>6. a \o c \in Seq(Formatters) /\ Len(a \o c) = Len(a) + Len(c)
    BY <2>3, <2>4, ConcatProperties
  <2> QED BY <1>0, <2>2, <2>3, <2>4, <2>5, <2>6
<1>3. ASSUME NEW k \in DOMAIN formatting
      PROVE  LET q == [formatting EXCEPT ![k].done = TRUE]
             IN q \in Seq(Formatters) /\ Len(q) <= MaxFormatters
  <2> DEFINE one == [formatting[k] EXCEPT !.done = TRUE]
  <2>1. formatting[k] \in Formatters
    BY <1>0, ElementOfSeq
  <2>2. one \in Formatters
    BY <2>1 DEF Formatters
  <2>3. [formatting EXCEPT ![k].done = TRUE] = [formatting EXCEPT ![k] = one]
    BY <1>0
  <2>4. k \in 1..Len(formatting)
    BY <1>0
  <2> HIDE DEF one
  <2>5. /\ [formatting EXCEPT ![k] = one] \in Seq(Formatters)
        /\ Len([formatting EXCEPT ![k] = one]) = Len(formatting)
    BY <1>0, <2>2, <2>4, ExceptSeq
  <2> QED BY <1>0, <2>3, <2>5
<1> QED BY <1>1, <1>2, <1>3

\* What follows a save keeps the formatters' type,
LEMMA EndSaveKeeps ==
  ASSUME Scene, NEW f \in Workspaces \cup {Other}, NEW text, EndSave(f, text)
  PROVE  formatting' \in Seq(Formatters) /\ Len(formatting') <= MaxFormatters
BY FormattingType DEF EndSave, Scene

\* and asks for both scans or for none.
LEMMA EndSaveAsks ==
  ASSUME NEW f, NEW text, EndSave(f, text)
  PROVE  /\ defs' = defs \/ defs' = DefsWanted(defs, workspace, enabled, up, text)
         /\ web' = web \/ web' = WebWanted(web, workspace, up)
BY DEF EndSave, ScansAfterSave

\* A formatter rewrites its file,
LEMMA FormatKeeps ==
  ASSUME ScansIInv, NEW k \in DOMAIN formatting, Format(k)
  PROVE  ScansIInv'
<1>1. formatting[k].file # Other => formatting[k].file \in Workspaces
  <2>1. formatting[k] \in Formatters
    BY ElementOfSeq, LenProperties DEF ScansIInv, Scene
  <2> QED BY <2>1 DEF Formatters
<1>2. disk' \in [Workspaces -> Texts]
  BY <1>1 DEF Format, ScansIInv, Scene
<1>3. formatting' \in Seq(Formatters) /\ Len(formatting') <= MaxFormatters
  BY FormattingType DEF Format, ScansIInv
<1> QED
  BY <1>2, <1>3 DEF Format, ScansIInv, Scene, Single, FindingsOfThisWorkspace

\* its completion asks for the scans,
LEMMA LandFormatKeeps ==
  ASSUME ScansIInv, NEW k \in DOMAIN formatting, LandFormat(k)
  PROVE  ScansIInv'
<1>1. formatting' \in Seq(Formatters) /\ Len(formatting') <= MaxFormatters
  BY FormattingType DEF LandFormat, ScansIInv
<1>2. typed' \in Unsaved
  BY DEF LandFormat, ScansIInv, Scene, Unsaved
<1>3. Scene' /\ workspace' = workspace
  BY <1>1, <1>2 DEF LandFormat, ScansIInv, Scene
<1>4. /\ defs' = DefsWanted(defs, workspace, enabled, up, typed')
      /\ web' = WebWanted(web, workspace, up)
  BY DEF LandFormat, ScansAfterSave
<1> QED BY <1>2, <1>3, <1>4, AskingKeeps

\* or comes too late to ask.
LEMMA TooLateKeeps ==
  ASSUME ScansIInv, NEW k \in DOMAIN formatting, FormatTooLate(k)
  PROVE  ScansIInv'
<1>1. formatting' \in Seq(Formatters) /\ Len(formatting') <= MaxFormatters
  BY FormattingType DEF FormatTooLate, ScansIInv
<1>2. /\ defs' \in DefsBooks /\ Single(defs') /\ defs'.shown = defs.shown
      /\ web' \in Books /\ Single(web')
  BY DEF FormatTooLate, Dropped, ScansIInv, DefsBooks, Books, Single
<1> QED
  BY <1>1, <1>2 DEF FormatTooLate, ScansIInv, Scene, Single, FindingsOfThisWorkspace

\* Every step keeps the invariant.
LEMMA ScansStep == ScansIInv /\ [Next]_vars => ScansIInv'
<1> SUFFICES ASSUME ScansIInv, [Next]_vars PROVE ScansIInv'
  OBVIOUS
<1>0. Clean \in Unsaved /\ Texts \subseteq Unsaved
  BY DEF Unsaved
<1>1. CASE \E r \in Workspaces : OpenWorkspace(r)
  BY <1>1, OpenKeeps
<1>2. CASE \E t \in Texts : Edit(t)
  <2>1. Scene' /\ UNCHANGED <<workspace, defs, web>>
    BY <1>0, <1>2, BoundsAssumption DEF Edit, ScansIInv, Scene
  <2> QED BY <1>0, <2>1, AskingKeeps
<1>3. CASE LoadTree
  <2>1. Scene' /\ UNCHANGED <<defs, web>> /\ Folder(workspace') = Folder(workspace)
    BY <1>3, WorkspacesAssumption DEF LoadTree, ScansIInv, Scene, Names, Folder
  <2> QED BY <1>0, <2>1, AskingKeeps
<1>4. CASE Run
  <2>1. defs' \in DefsBooks /\ Single(defs') /\ defs'.shown = defs.shown
    BY <1>4, AgainKeeps DEF Run, ScansIInv
  <2>2. web' \in Books /\ Single(web')
    BY <1>4, AgainKeeps DEF Run, ScansIInv
  <2> QED
    BY <1>4, <2>1, <2>2 DEF Run, ScansIInv, Scene, Single, FindingsOfThisWorkspace
<1>5. CASE Discard
  <2>1. Scene' /\ UNCHANGED <<workspace, defs, web>>
    BY <1>0, <1>5 DEF Discard, ScansIInv, Scene
  <2> QED BY <1>0, <2>1, AskingKeeps
<1>6. CASE Save
  <2>1. EndSave(Folder(workspace), Clean) /\ Folder(workspace) \in Workspaces
    BY <1>6, FolderType DEF Save, ScansIInv, Scene
  <2>2. Scene' /\ workspace' = workspace
    <3>1. typed \in Texts
      BY <1>6 DEF Save, ScansIInv, Scene, Unsaved
    <3> QED BY <1>0, <1>6, <2>1, <3>1, EndSaveKeeps DEF Save, ScansIInv, Scene
  <2> QED BY <1>0, <2>1, <2>2, EndSaveAsks, AskingKeeps
<1>7. CASE SaveOther
  <2>1. EndSave(Other, typed)
    BY <1>7 DEF SaveOther
  <2>2. Scene' /\ workspace' = workspace /\ typed \in Unsaved
    BY <1>7, <2>1, EndSaveKeeps DEF SaveOther, ScansIInv, Scene
  <2> QED BY <2>1, <2>2, EndSaveAsks, AskingKeeps
<1>8. CASE Check
  <2>1. Scene' /\ workspace' = workspace /\ web' = web /\ typed \in Unsaved
    BY <1>8 DEF Check, ScansIInv, Scene
  <2>2. defs' = DefsWanted(defs, workspace, enabled, up, typed)
    BY <1>8 DEF Check
  <2> QED BY <1>0, <2>1, <2>2, AskingKeeps
<1>9. CASE Switch
  <2>1. Scene' /\ workspace' = workspace /\ web' = web /\ typed \in Unsaved
    BY <1>9 DEF Switch, ScansIInv, Scene
  <2>2. \/ defs' = DefsWanted(defs, workspace, enabled', up, typed)
        \/ defs' = DefsCleared(defs)
    BY <1>9 DEF Switch
  <2> QED BY <1>0, <2>1, <2>2, AskingKeeps
<1>10. CASE Tick
  <2> DEFINE seen == [defs EXCEPT !.revision = Revision]
  <2>0. Revision \in 0..MaxEdits
    BY BoundsAssumption DEF Revision, ScansIInv, Scene
  <2>1. workspace \in Names /\ typed \in Unsaved
    BY DEF ScansIInv, Scene
  <2>2. seen \in DefsBooks /\ Single(seen) /\ seen.shown = defs.shown
    BY <2>0 DEF ScansIInv, DefsBooks, Single
  <2>3. defs' = seen \/ defs' = DefsWanted(seen, workspace, enabled, up, typed)
    BY <1>10 DEF Tick
  <2>4. defs' \in DefsBooks /\ Single(defs') /\ defs'.shown = defs.shown
    <3> HIDE DEF seen
    <3>1. /\ DefsWanted(seen, workspace, enabled, up, typed) \in DefsBooks
          /\ Single(DefsWanted(seen, workspace, enabled, up, typed))
          /\ DefsWanted(seen, workspace, enabled, up, typed).shown = seen.shown
      BY <2>1, <2>2, DefsWantedKeeps, SMTT(60)
    <3> QED BY <2>2, <2>3, <3>1
  <2> QED
    BY <1>10, <2>4 DEF Tick, ScansIInv, Scene, Single, FindingsOfThisWorkspace
<1>11. CASE ReadDefs
  <2>1. defs' \in DefsBooks /\ Single(defs') /\ defs'.shown = defs.shown
    BY <1>11, ReadKeeps DEF ReadDefs, ScansIInv
  <2> QED
    BY <1>11, <2>1 DEF ReadDefs, ScansIInv, Scene, Single, FindingsOfThisWorkspace
<1>12. CASE ReadWeb
  <2>1. web' \in Books /\ Single(web')
    BY <1>12, ReadKeeps DEF ReadWeb, ScansIInv
  <2> QED
    BY <1>12, <2>1 DEF ReadWeb, ScansIInv, Scene, Single, FindingsOfThisWorkspace
<1>13. CASE Quit
  BY <1>13 DEF Quit, ScansIInv, Scene, Single, FindingsOfThisWorkspace
<1>14. CASE \E k \in DOMAIN formatting : Formatting(k)
  BY <1>14, FormatKeeps, LandFormatKeeps, TooLateKeeps DEF Formatting
<1>15. CASE UNCHANGED vars
  BY <1>15 DEF vars, ScansIInv, Scene, Single, FindingsOfThisWorkspace
<1> QED
  BY <1>1, <1>2, <1>3, <1>4, <1>5, <1>6, <1>7, <1>8, <1>9, <1>10, <1>11, <1>12, <1>13,
     <1>14, <1>15, LandDefsKeeps, LandWebKeeps DEF Next

\* Every reachable state satisfies it.
THEOREM ScansInvariance == Spec => []ScansIInv
<1>1. Init => ScansIInv
  <2> SUFFICES ASSUME Init PROVE ScansIInv
    OBVIOUS
  <2>1. Scene
    <3>1. (CHOOSE t \in Texts : TRUE) \in Texts
      BY BoundsAssumption
    <3>2. 0 \in 0..MaxEdits
      BY BoundsAssumption
    <3>3. <<>> \in Seq(Formatters) /\ Len(<<>>) <= MaxFormatters
      BY BoundsAssumption, EmptySeq
    <3> QED BY <3>1, <3>2, <3>3 DEF Init, Scene, Names, Unsaved
  <2>2. IdleDefs \in DefsBooks /\ Single(IdleDefs) /\ IdleDefs.shown = Nothing
    BY BoundsAssumption DEF IdleDefs, DefsBooks, Single, Results, Unsaved
  <2>3. Idle \in Books /\ Single(Idle)
    BY DEF Idle, Books, Single, Results
  <2> QED
    BY <2>1, <2>2, <2>3 DEF Init, ScansIInv, FindingsOfThisWorkspace
<1> QED
  BY <1>1, ScansStep, PTL DEF Spec

\* The variables keep their types.
THEOREM ScansTypeCorrect == Spec => []TypeOK
<1>1. ScansIInv => TypeOK
  BY DEF ScansIInv, Scene, TypeOK
<1> QED
  BY <1>1, ScansInvariance, PTL

\* In any sequence of requests, landings and switches a tree is walked once at a
\* time, for the checks and for the index.
THEOREM NoTwoScans == Spec => []OneScanAtATime
<1>1. ScansIInv => OneScanAtATime
  BY DEF ScansIInv, Single, OneScanAtATime
<1> QED
  BY <1>1, ScansInvariance, PTL

\* No scan publishes findings of a workspace that has been left.
THEOREM FindingsBelong == Spec => []FindingsOfThisWorkspace
<1>1. ScansIInv => FindingsOfThisWorkspace
  BY DEF ScansIInv
<1> QED
  BY <1>1, ScansInvariance, PTL
=============================================================================
