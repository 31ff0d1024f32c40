------------------------------- MODULE Picker -------------------------------
(***************************************************************************)
(* The file picker, Telescope (src/src/extras/telescope.cpp and            *)
(* telescope_async.cpp) with the keys that drive it                        *)
(* (src/src/commands/navigation.cpp).  A tree is walked once on the task   *)
(* queue and cached; typing filters the cache, and while there is none     *)
(* the walk that is out filters for the query it finds when it lands.      *)
(*                                                                         *)
(* A listing is known by the folder it was read from, the rows on screen   *)
(* by that folder and the query they were filtered with.  scan_id_ and     *)
(* scan_generation_ are raised together and compared together: a walk is   *)
(* the latest until they are.                                              *)
(***************************************************************************)
CONSTANTS Folders,  \* folders a picker may list
          Parent,   \* the parent of each, itself at the top
          Queries,  \* what may be typed
          Blank,    \* the empty query
          NoListing \* no listing, no rows

ASSUME PickerAssumption == /\ Parent \in [Folders -> Folders]
                           /\ Blank \in Queries
                           /\ NoListing \notin Folders

VARIABLES
  active,   \* the picker is open
  root,     \* root_dir: the folder listed
  floor,    \* floor_dir_: the folder that is not left
  query,    \* the prompt
  entries,  \* all_entries_ while entries_valid_, by its folder; or NoListing
  results,  \* the rows
  pending,  \* scan_pending_
  failed,   \* scan_error_ is set
  walks,    \* walks submitted to the queue that have not landed
  readable  \* the folders the file system can list now

pickerVars == <<active, root, floor, query, entries, results, pending, failed, walks, readable>>

Listings == Folders \cup {NoListing}
Rows == [root: Folders, query: Queries] \cup {NoListing}
Walks == [root: Folders, latest: BOOLEAN, found: {"walking", "listing", "nothing"}]

-----------------------------------------------------------------------------
\* publish_filtered(): the rows of a listing for a query.
Filtered(listing, q) == [root |-> listing, query |-> q]

\* What a key that changes the prompt does to the rows.
RowsAfterKey(q) == IF entries # NoListing THEN Filtered(entries, q) ELSE results

\* No walk that is out is the latest any more.
Overtaken == {[w EXCEPT !.latest = FALSE] : w \in walks}

\* cancel_scan(), but for its flag.
Cancelled == Overtaken

\* The walk is given the folder that was listed until now.
ScannedBefore(r) ==
  /\ pending' = TRUE
  /\ walks' = Overtaken \cup {[root |-> root, latest |-> TRUE, found |-> "walking"]}

\* scan_async() for a folder: the walks that are out will be dropped.
Scanned(r) ==
  /\ pending' = TRUE
  /\ walks' = Overtaken \cup {[root |-> r, latest |-> TRUE, found |-> "walking"]}

\* set_query() starts a walk only if there is no listing and none is coming.
NeedsScan == entries = NoListing /\ ~pending

\* scan_done() that takes the results of any walk while the picker is open.
AcceptsAny(w) == active

\* scan_done() and land_scan() drop what was overtaken or outlived its picker.
Accepts(w) == active /\ w.latest

\* The root could not be read and the picker goes on waiting for it.
FailedWaiting == failed' = TRUE /\ entries' = NoListing /\ results' = NoListing /\ UNCHANGED pending

\* The root could not be read: an error, no listing, and nothing to wait for.
Failed == failed' = TRUE /\ pending' = FALSE /\ entries' = NoListing /\ results' = NoListing

\* The listing is cached and filtered for the query of now.
Listed(w) == /\ failed' = FALSE /\ pending' = FALSE
             /\ entries' = w.root /\ results' = Filtered(w.root, query)

-----------------------------------------------------------------------------
PickerInit == /\ active = FALSE
              /\ root \in Folders
              /\ floor = root
              /\ query = Blank
              /\ entries = NoListing
              /\ results = NoListing
              /\ pending = FALSE
              /\ failed = FALSE
              /\ walks = {}
              /\ readable = Folders

\* Within n steps up from a folder.
Within(f, r) == r = f \/ Parent[r] = f \/ Parent[Parent[r]] = f

\* :find, from the workspace folder or with a folder of it, or Ctrl+E, perhaps
\* while a picker is open; what is no folder is replaced by one that is.
Open(r, f) == /\ Within(f, r)
              /\ r \in readable
              /\ active' = TRUE
              /\ root' = r
              /\ floor' = f
              /\ query' = Blank
              /\ entries' = NoListing
              /\ results' = NoListing
              /\ failed' = FALSE
              /\ Scanned(r)
              /\ UNCHANGED readable

\* Escape, a press outside, or a row that was opened.
Close == /\ active
         /\ active' = FALSE
         /\ query' = Blank
         /\ entries' = NoListing
         /\ results' = NoListing
         /\ pending' = FALSE
         /\ failed' = FALSE
         /\ walks' = Cancelled
         /\ UNCHANGED <<root, floor, readable>>

\* A key that changes the prompt.
Type(q) == /\ active
           /\ query' = q
           /\ IF NeedsScan THEN Scanned(root) ELSE UNCHANGED <<pending, walks>>
           /\ results' = RowsAfterKey(q)
           /\ UNCHANGED <<active, root, floor, entries, failed, readable>>

\* Backspace with nothing to erase: up one folder, the old rows stay meanwhile.
GoParent == /\ active
            /\ query = Blank
            /\ root # floor
            /\ root' = Parent[root]
            /\ entries' = NoListing
            /\ Scanned(Parent[root])
            /\ UNCHANGED <<active, floor, query, results, failed, readable>>

\* Ctrl+R.
Rescan == /\ active
          /\ entries' = NoListing
          /\ results' = NoListing
          /\ Scanned(root)
          /\ UNCHANGED <<active, root, floor, query, failed, readable>>

\* A walk ends on a worker; one that was overtaken breaks off.
Walk == /\ \E w \in walks :
             /\ w.found = "walking"
             /\ walks' = (walks \ {w}) \cup
                  {[w EXCEPT !.found = IF w.root \in readable THEN "listing" ELSE "nothing"]}
        /\ UNCHANGED <<active, root, floor, query, entries, results, pending, failed, readable>>

\* Its completion on the main thread.
LandScan ==
  \E w \in walks :
    /\ w.found # "walking"
    /\ walks' = walks \ {w}
    /\ IF ~Accepts(w) THEN UNCHANGED <<entries, results, pending, failed>>
       ELSE IF w.found = "nothing" THEN Failed ELSE Listed(w)
    /\ UNCHANGED <<active, root, floor, query, readable>>

\* A folder goes or comes back.
FolderChanges(r) == /\ readable' = IF r \in readable THEN readable \ {r} ELSE readable \cup {r}
                    /\ UNCHANGED <<active, root, floor, query, entries, results, pending, failed, walks>>

Keys == \/ \E r, f \in Folders : Open(r, f)
        \/ \E q \in Queries : Type(q)
        \/ Close \/ GoParent \/ Rescan

PickerNext == Keys \/ Walk \/ LandScan \/ \E r \in Folders : FolderChanges(r)

PickerSpec == PickerInit /\ [][PickerNext]_pickerVars

\* The workers and the event loop go on.
PickerFairSpec == PickerSpec /\ WF_pickerVars(Walk) /\ WF_pickerVars(LandScan)

-----------------------------------------------------------------------------
\* The variables have their types.
PickerTypeOK == /\ {active, pending, failed} \subseteq BOOLEAN
                /\ {root, floor} \subseteq Folders
                /\ query \in Queries
                /\ entries \in Listings
                /\ results \in Rows
                /\ walks \subseteq Walks
                /\ readable \subseteq Folders

\* can_accept_selection(): Enter opens a row of the folder the header names, for
\* the query in the prompt, and never a row that an overtaken walk brought or
\* that was left from before.
EnterOpensWhatIsAsked ==
  ~pending /\ results # NoListing => active /\ results = [root |-> root, query |-> query]

\* While the picker says it is scanning, one walk is out whose result it takes,
\* for the folder it lists: no close, reopening, key or failure leaves it
\* scanning for ever or lets two walks be taken.
ScanningIsForThisRoot ==
  pending => \E w \in walks : /\ Accepts(w) /\ w.root = root
                              /\ \A v \in walks : v.latest => v = w

\* Once no key comes, the picker has its listing or its error.
PickerSettles ==
  <>[][~Keys]_pickerVars => <>[](~active \/ (~pending /\ (failed \/ results # NoListing)))
=============================================================================
