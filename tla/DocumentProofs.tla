---------------------------- MODULE DocumentProofs ----------------------------
(***************************************************************************)
(* What TLC checks of Document on two files and two edits, proved for any  *)
(* number of files, edits, buffers and jobs: no text the user left in a    *)
(* buffer is lost to a clean-up or a formatter, and a buffer of a plain    *)
(* file that reads as saved was written.                                   *)
(***************************************************************************)
EXTENDS Document, SequenceTheorems, FiniteSetTheorems, WellFoundedInduction, TLAPS

\* The texts whose edit is one of w.
SafeTexts(w) == {t \in Texts : t.edit \in w}

Buffers == [file : Files, text : Texts, modified : BOOLEAN,
            past : SUBSET Texts, typed : Texts]

\* What is true of a buffer, open or remembered, when the edits w were written.
GoodBuffers(w) ==
  {b \in Buffers :
     /\ b.typed \in b.past \cup {b.text}
     /\ b.file \notin Formatted /\ ~b.modified => b.text.edit \in w}

\* What a worker has read was written, and it has read what its stage says.
GoodJobs(w) ==
  {j \in Jobs :
     /\ j.kind = "format" => j.file \in Formatted
     /\ j.text # NoText => j.text \in SafeTexts(w)
     /\ j.stage \in {"busy", "rewritten"} => j.kind = "format" /\ j.text # NoText
     /\ j.stage = "done" /\ j.kind = "read" => j.text # NoText}

IndInv ==
  /\ disk \in [Files -> SafeTexts(written)]
  /\ buffers \in Seq(GoodBuffers(written))
  /\ closed \in Seq(GoodBuffers(written))
  /\ jobs \in Seq(GoodJobs(written))
  /\ due \subseteq DOMAIN buffers
  /\ edits \in 0..MaxEdits

-----------------------------------------------------------------------------
(* Sequences                                                               *)

\* An element is taken out of a sequence.
LEMMA RemoveAtType ==
  ASSUME NEW S, NEW s \in Seq(S), NEW k \in 1..Len(s)
  PROVE  RemoveAt(s, k) \in Seq(S)
<1>0. Len(s) \in Nat
  BY LenProperties
<1>1. SubSeq(s, 1, k - 1) \in Seq(S)
  <2>1. \A j \in 1..(k - 1) : s[j] \in S
    BY <1>0, ElementOfSeq
  <2> QED BY <1>0, <2>1, SubSeqProperties
<1>2. SubSeq(s, k + 1, Len(s)) \in Seq(S)
  <2>1. \A j \in (k + 1)..Len(s) : s[j] \in S
    BY <1>0, ElementOfSeq
  <2> QED BY <1>0, <2>1, SubSeqProperties
<1> QED BY <1>1, <1>2, ConcatProperties DEF RemoveAt

\* A set of numbers has a least one.
LEMMA LeastIsIn ==
  ASSUME NEW T \in SUBSET Nat, T # {}
  PROVE  Min(T) \in T
<1>1. PICK x \in T : \A y \in T : <<y, x>> \notin OpToRel(<, Nat)
  BY WFMin, NatLessThanWellFounded
<1>2. ASSUME NEW y \in T, ~(x =< y)
      PROVE  FALSE
  <2>1. <<y, x>> \in Nat \X Nat /\ y < x
    BY <1>2
  <2>2. <<y, x>> \in OpToRel(<, Nat)
    BY <2>1 DEF OpToRel
  <2> QED BY <1>1, <2>2
<1> QED BY <1>2 DEF Min

\* The completion of a formatter finds a buffer of its file, or none.
LEMMA ItsFile ==
  ASSUME NEW S, buffers \in Seq(S), NEW job, ForItsFile(job) \in DOMAIN buffers
  PROVE  buffers[ForItsFile(job)].file = job.file
<1> DEFINE I == {i \in 1..Len(buffers) : buffers[i].file = job.file}
<1>0. Len(buffers) \in Nat /\ DOMAIN buffers = 1..Len(buffers)
  BY LenProperties
<1>1. ForItsFile(job) = IF I # {} THEN Min(I) ELSE 0
  BY DEF ForItsFile, SelectInSeq
<1>2. I # {} /\ I \in SUBSET Nat
  BY <1>0, <1>1
<1>3. ForItsFile(job) \in I
  <2> HIDE DEF I
  <2> QED BY <1>1, <1>2, LeastIsIn
<1> QED BY <1>3

\* What was written stays written.
LEMMA StillGood ==
  ASSUME NEW w, NEW v, w \subseteq v
  PROVE  /\ SafeTexts(w) \subseteq SafeTexts(v)
         /\ \A b \in GoodBuffers(w) : b \in GoodBuffers(v)
         /\ \A j \in GoodJobs(w) : j \in GoodJobs(v)
         /\ \A s \in Seq(GoodBuffers(w)) : s \in Seq(GoodBuffers(v))
         /\ \A s \in Seq(GoodJobs(w)) : s \in Seq(GoodJobs(v))
<1>1. SafeTexts(w) \subseteq SafeTexts(v)
  BY DEF SafeTexts
<1>2. GoodBuffers(w) \subseteq GoodBuffers(v)
  BY DEF GoodBuffers
<1>3. GoodJobs(w) \subseteq GoodJobs(v)
  BY <1>1 DEF GoodJobs
<1> QED BY <1>1, <1>2, <1>3, SeqMonotonic

-----------------------------------------------------------------------------
(* The operations on a buffer                                              *)

\* The editor replaces a text by its own: what was typed can still be reached.
LEMMA RewrittenKeeps ==
  ASSUME NEW b \in Buffers, b.typed \in b.past \cup {b.text}, NEW t \in Texts
  PROVE  /\ Rewritten(b, t) \in Buffers
         /\ Rewritten(b, t).file = b.file
         /\ Rewritten(b, t).text = t
         /\ Rewritten(b, t).modified = b.modified
         /\ Rewritten(b, t).typed \in Rewritten(b, t).past \cup {t}
<1>1. CASE b.text = t
  BY <1>1 DEF Rewritten
<1>2. CASE b.text # t
  BY <1>2 DEF Rewritten, Buffers
<1> QED BY <1>1, <1>2

\* The clean-up changes the form of a text, not the edit it came from.
LEMMA CleanedKeeps ==
  ASSUME NEW t \in Texts
  PROVE  Cleaned(t) \in Texts /\ Cleaned(t).edit = t.edit
BY DEF Cleaned, Texts

\* A new job is a good one.
LEMMA NewJob ==
  ASSUME NEW w, NEW f \in Files, NEW kind \in {"read", "format"},
         kind = "format" => f \in Formatted
  PROVE  Job(kind, f) \in GoodJobs(w)
BY DEF Job, GoodJobs, Jobs

-----------------------------------------------------------------------------
(* The steps                                                               *)

\* What every step is proved from: the invariant, read element by element.
LEMMA ReadGood ==
  ASSUME IndInv
  PROVE  /\ Len(buffers) \in Nat /\ DOMAIN buffers = 1..Len(buffers)
         /\ \A i \in DOMAIN buffers : buffers[i] \in GoodBuffers(written)
         /\ Len(jobs) \in Nat /\ DOMAIN jobs = 1..Len(jobs)
         /\ \A k \in DOMAIN jobs : jobs[k] \in GoodJobs(written)
BY LenProperties, ElementOfSeq DEF IndInv

\* Saving one buffer.
LEMMA SavedGood ==
  ASSUME IndInv, NEW i \in DOMAIN buffers, NEW ok \in BOOLEAN, Saved(i, ok)
  PROVE  /\ written \subseteq written'
         /\ disk' \in [Files -> SafeTexts(written')]
         /\ buffers' \in Seq(GoodBuffers(written')) /\ DOMAIN buffers' = DOMAIN buffers
         /\ jobs' \in Seq(GoodJobs(written'))
<1> DEFINE old == buffers[i]
           b == Rewritten(old, Cleaned(old.text))
<1>0. /\ old \in GoodBuffers(written) /\ old \in Buffers
      /\ old.typed \in old.past \cup {old.text} /\ old.text \in Texts
      /\ i \in 1..Len(buffers) /\ buffers \in Seq(GoodBuffers(written))
      /\ DOMAIN buffers = 1..Len(buffers)
  BY ReadGood DEF GoodBuffers, Buffers, IndInv
<1>1. /\ Cleaned(old.text) \in Texts /\ Cleaned(old.text).edit = old.text.edit
  BY <1>0, CleanedKeeps
<1>2. /\ b \in Buffers /\ b.file = old.file /\ b.text = Cleaned(old.text)
      /\ b.modified = old.modified /\ b.typed \in b.past \cup {b.text}
  <2> HIDE DEF old
  <2> QED BY <1>0, <1>1, RewrittenKeeps
<1>3. CASE ~ok
  <2>1. buffers' = [buffers EXCEPT ![i] = b] /\ UNCHANGED <<disk, written, jobs>>
    BY <1>3 DEF Saved
  <2>2. b \in GoodBuffers(written)
    <3> HIDE DEF b
    <3> QED BY <1>0, <1>1, <1>2 DEF GoodBuffers
  <2>3. /\ buffers' \in Seq(GoodBuffers(written))
        /\ DOMAIN buffers' = DOMAIN buffers
    <3> HIDE DEF b
    <3> QED BY <1>0, <2>1, <2>2, ExceptSeq
  <2> QED BY <2>1, <2>3 DEF IndInv
<1>4. CASE ok
  <2> DEFINE c == [b EXCEPT !.modified = FALSE]
  <2>1. /\ buffers' = [buffers EXCEPT ![i] = c]
        /\ disk' = [disk EXCEPT ![b.file] = b.text]
        /\ written' = written \cup {b.text.edit}
        /\ jobs' = IF b.file \in Formatted THEN Append(jobs, Job("format", b.file)) ELSE jobs
    BY <1>4 DEF Saved
  <2> HIDE DEF b, old
  <2>2. written \subseteq written'
    BY <2>1
  <2>3. /\ c \in GoodBuffers(written')
        /\ b.text \in SafeTexts(written') /\ b.file \in Files
    <3>1. /\ c \in Buffers /\ c.text = b.text /\ c.past = b.past /\ c.typed = b.typed
      BY <1>2 DEF Buffers
    <3>2. b.text \in Texts /\ b.text.edit \in written' /\ b.file \in Files
      BY <1>2, <2>1 DEF Buffers
    <3> HIDE DEF c
    <3> QED BY <1>2, <3>1, <3>2 DEF GoodBuffers, SafeTexts
  <2>4. /\ buffers \in Seq(GoodBuffers(written')) /\ jobs \in Seq(GoodJobs(written'))
        /\ SafeTexts(written) \subseteq SafeTexts(written')
    BY <1>0, <2>2, StillGood DEF IndInv
  <2>5. disk' \in [Files -> SafeTexts(written')]
    BY <2>1, <2>3, <2>4 DEF IndInv
  <2>6. buffers' \in Seq(GoodBuffers(written')) /\ DOMAIN buffers' = DOMAIN buffers
    <3> HIDE DEF c
    <3> QED BY <1>0, <2>1, <2>3, <2>4, ExceptSeq
  <2>7. jobs' \in Seq(GoodJobs(written'))
    <3>1. CASE b.file \in Formatted
      <4>1. Job("format", b.file) \in GoodJobs(written')
        BY <2>3, <3>1, NewJob
      <4> QED BY <2>1, <2>4, <3>1, <4>1, AppendProperties
    <3> QED BY <2>1, <2>4, <3>1
  <2> QED BY <2>2, <2>5, <2>6, <2>7
<1> QED BY <1>3, <1>4

\* A worker takes its job a step further.
LEMMA WorkGood ==
  ASSUME IndInv, NEW k \in DOMAIN jobs, Work(k)
  PROVE  IndInv'
<1> DEFINE job == jobs[k]
<1>0. /\ job \in GoodJobs(written) /\ job \in Jobs /\ job.file \in Files
      /\ disk[job.file] \in SafeTexts(written) /\ disk[job.file] \in Texts
      /\ k \in 1..Len(jobs) /\ jobs \in Seq(GoodJobs(written))
      /\ DOMAIN jobs = 1..Len(jobs)
  BY ReadGood DEF GoodJobs, Jobs, IndInv, SafeTexts
<1>1. SUFFICES \E j \in GoodJobs(written), d \in [Files -> SafeTexts(written)] :
                 /\ jobs' = [jobs EXCEPT ![k] = j] /\ disk' = d
                 /\ UNCHANGED <<buffers, closed, due, edits, written>>
  BY <1>0, ExceptSeq DEF IndInv
<1>2. CASE Reads(k)
  <2> DEFINE j == [job EXCEPT !.text = disk[job.file],
                              !.stage = IF job.kind = "read" THEN "done" ELSE "busy"]
  <2>1. jobs' = [jobs EXCEPT ![k] = j] /\ UNCHANGED <<disk, buffers, closed, due, edits, written>>
    BY <1>2 DEF Reads
  <2>2. j \in GoodJobs(written)
    BY <1>0, NoTextAssumption DEF GoodJobs, Jobs
  <2> QED BY <2>1, <2>2 DEF IndInv
<1>3. CASE Formats(k)
  <2> DEFINE j == [job EXCEPT !.stage = "rewritten"]
             t == IF job.text.form = "formatted" THEN disk[job.file]
                  ELSE [job.text EXCEPT !.form = "formatted"]
  <2>0. job.stage = "busy" /\ job.text \in SafeTexts(written) /\ job.kind = "format"
        /\ job.text # NoText
    BY <1>0, <1>3 DEF Formats, GoodJobs
  <2>1. /\ jobs' = [jobs EXCEPT ![k] = j] /\ disk' = [disk EXCEPT ![job.file] = t]
        /\ UNCHANGED <<buffers, closed, due, edits, written>>
    BY <1>3 DEF Formats
  <2>2. j \in GoodJobs(written)
    BY <1>0, <2>0 DEF GoodJobs, Jobs
  <2>3. t \in SafeTexts(written)
    BY <1>0, <2>0 DEF SafeTexts, Texts
  <2>4. disk' \in [Files -> SafeTexts(written)]
    BY <2>1, <2>3 DEF IndInv
  <2> QED BY <2>1, <2>2, <2>4
<1>4. CASE FormatFails(k)
  <2> DEFINE j == [job EXCEPT !.text = NoText, !.stage = "done"]
  <2>1. jobs' = [jobs EXCEPT ![k] = j] /\ UNCHANGED <<disk, buffers, closed, due, edits, written>>
    BY <1>4 DEF FormatFails
  <2>2. j \in GoodJobs(written)
    BY <1>0, <1>4 DEF FormatFails, GoodJobs, Jobs
  <2> QED BY <2>1, <2>2 DEF IndInv
<1>5. CASE ReadsAgain(k)
  <2> DEFINE j == [job EXCEPT !.text = disk[job.file], !.stage = "done"]
  <2>1. jobs' = [jobs EXCEPT ![k] = j] /\ UNCHANGED <<disk, buffers, closed, due, edits, written>>
    BY <1>5 DEF ReadsAgain
  <2>2. j \in GoodJobs(written)
    BY <1>0, <1>5, NoTextAssumption DEF ReadsAgain, GoodJobs, Jobs
  <2> QED BY <2>1, <2>2 DEF IndInv
<1> QED BY <1>2, <1>3, <1>4, <1>5 DEF Work

\* A formatter's result lands.
LEMMA LandFormatGood ==
  ASSUME IndInv, NEW k \in DOMAIN jobs, LandFormat(k)
  PROVE  IndInv'
<1> DEFINE i == ForItsFile(jobs[k])
           text == jobs[k].text
           old == buffers[i]
           b == [(IF text = NoText THEN old ELSE Rewritten(old, text))
                   EXCEPT !.modified = FALSE]
<1>0. /\ jobs[k] \in GoodJobs(written) /\ jobs[k].kind = "format" /\ k \in 1..Len(jobs)
      /\ jobs \in Seq(GoodJobs(written)) /\ buffers \in Seq(GoodBuffers(written))
      /\ due = {} /\ DOMAIN buffers = 1..Len(buffers)
      /\ jobs' = RemoveAt(jobs, k)
      /\ buffers' = IF i \notin DOMAIN buffers THEN buffers ELSE [buffers EXCEPT ![i] = b]
      /\ UNCHANGED <<disk, closed, due, edits, written>>
  BY ReadGood DEF LandFormat, Idle, IndInv
<1>1. jobs' \in Seq(GoodJobs(written))
  BY <1>0, RemoveAtType
<1>2. ASSUME i \in DOMAIN buffers
      PROVE  b \in GoodBuffers(written)
  <2> HIDE DEF i
  <2>1. /\ old \in Buffers /\ old \in GoodBuffers(written)
        /\ old.typed \in old.past \cup {old.text}
        /\ text \in SafeTexts(written) \cup {NoText}
    BY <1>0, <1>2, ReadGood DEF GoodBuffers, GoodJobs, Jobs
  <2>2. old.file \in Formatted
    BY <1>0, <1>2, ItsFile DEF GoodJobs, i
  <2> HIDE DEF old, text
  <2>3. CASE text = NoText
    BY <2>1, <2>2, <2>3 DEF GoodBuffers, Buffers
  <2>4. CASE text # NoText
    <3> DEFINE c == Rewritten(old, text)
    <3>1. text \in Texts
      BY <2>1, <2>4 DEF SafeTexts
    <3>2. c \in Buffers /\ c.file = old.file /\ c.text = text /\ c.typed \in c.past \cup {text}
      BY <2>1, <3>1, RewrittenKeeps
    <3>3. b = [c EXCEPT !.modified = FALSE]
      BY <2>4
    <3> HIDE DEF b, c
    <3> QED BY <2>2, <3>2, <3>3 DEF GoodBuffers, Buffers
  <2> QED BY <2>3, <2>4
<1>3. buffers' \in Seq(GoodBuffers(written))
  <2> HIDE DEF b, i
  <2> QED BY <1>0, <1>2, ExceptSeq
<1> QED
  <2> HIDE DEF b, i
  <2> QED BY <1>0, <1>1, <1>3 DEF IndInv

\* A file that was read becomes a buffer.
LEMMA LandOpenGood ==
  ASSUME IndInv, NEW k \in DOMAIN jobs, LandOpen(k)
  PROVE  IndInv'
<1> DEFINE b == Buffer(jobs[k].file, jobs[k].text, FALSE)
<1>0. /\ jobs[k] \in GoodJobs(written) /\ k \in 1..Len(jobs)
      /\ jobs[k].kind = "read" /\ jobs[k].stage = "done"
      /\ jobs \in Seq(GoodJobs(written)) /\ buffers \in Seq(GoodBuffers(written))
      /\ due = {} /\ jobs' = RemoveAt(jobs, k) /\ buffers' = Append(buffers, b)
      /\ UNCHANGED <<disk, closed, due, edits, written>>
  BY ReadGood DEF LandOpen, Idle, IndInv
<1>1. jobs' \in Seq(GoodJobs(written))
  BY <1>0, RemoveAtType
<1>2. b \in GoodBuffers(written)
  BY <1>0 DEF Buffer, GoodBuffers, Buffers, GoodJobs, Jobs, SafeTexts
<1>3. buffers' \in Seq(GoodBuffers(written))
  <2> HIDE DEF b
  <2> QED BY <1>0, <1>2, AppendProperties
<1> QED
  <2> HIDE DEF b
  <2> QED BY <1>0, <1>1, <1>3 DEF IndInv

\* The user edits a buffer.
LEMMA EditGood ==
  ASSUME IndInv, NEW i \in DOMAIN buffers, Edit(i)
  PROVE  IndInv'
<1> DEFINE text == [edit |-> edits + 1, form |-> "typed"]
           old == buffers[i]
           c == Rewritten(old, text)
           b == [c EXCEPT !.modified = TRUE, !.typed = text]
<1>0. /\ old \in Buffers /\ old.typed \in old.past \cup {old.text}
      /\ buffers \in Seq(GoodBuffers(written))
      /\ i \in 1..Len(buffers) /\ DOMAIN buffers = 1..Len(buffers)
      /\ due = {} /\ edits < MaxEdits /\ edits \in 0..MaxEdits /\ edits' = edits + 1
      /\ buffers' = [buffers EXCEPT ![i] = b]
      /\ UNCHANGED <<disk, closed, jobs, due, written>>
  BY ReadGood DEF Edit, Command, Idle, IndInv, GoodBuffers
<1>1. text \in Texts /\ edits' \in 0..MaxEdits
  BY <1>0, BoundsAssumption DEF Texts
<1>2. c \in Buffers /\ c.text = text
  <2> HIDE DEF text, old
  <2> QED BY <1>0, <1>1, RewrittenKeeps
<1>3. b \in GoodBuffers(written)
  <2> HIDE DEF text, c
  <2> QED BY <1>1, <1>2 DEF GoodBuffers, Buffers
<1>4. buffers' \in Seq(GoodBuffers(written))
  <2> HIDE DEF b
  <2> QED BY <1>0, <1>3, ExceptSeq
<1> QED
  <2> HIDE DEF b
  <2> QED BY <1>0, <1>1, <1>4 DEF IndInv

\* A buffer is closed, and one is opened again.
LEMMA CloseGood ==
  ASSUME IndInv, NEW i \in DOMAIN buffers, Close(i)
  PROVE  IndInv'
<1> DEFINE b == Buffer(buffers[i].file, buffers[i].text, buffers[i].modified)
           kept == IF Len(closed) >= MaxClosed THEN Tail(closed) ELSE closed
<1>0. /\ buffers[i] \in GoodBuffers(written) /\ i \in 1..Len(buffers)
      /\ buffers \in Seq(GoodBuffers(written)) /\ closed \in Seq(GoodBuffers(written))
      /\ due = {} /\ closed' = Append(kept, b) /\ buffers' = RemoveAt(buffers, i)
      /\ UNCHANGED <<disk, jobs, due, edits, written>>
  BY ReadGood DEF Close, Command, Idle, IndInv
<1>1. b \in GoodBuffers(written)
  BY <1>0 DEF Buffer, GoodBuffers, Buffers
<1>2. kept \in Seq(GoodBuffers(written))
  <2>1. CASE Len(closed) >= MaxClosed
    <3>1. closed # <<>>
      BY <2>1, BoundsAssumption, EmptySeq
    <3> QED BY <1>0, <2>1, <3>1, HeadTailProperties
  <2> QED BY <1>0, <2>1
<1>3. buffers' \in Seq(GoodBuffers(written))
  BY <1>0, RemoveAtType
<1>4. closed' \in Seq(GoodBuffers(written))
  <2> HIDE DEF b, kept
  <2> QED BY <1>0, <1>1, <1>2, AppendProperties
<1> QED
  <2> HIDE DEF b, kept
  <2> QED BY <1>0, <1>3, <1>4 DEF IndInv

\* A closed buffer comes back as it was closed.
LEMMA ReopenGood ==
  ASSUME IndInv, Reopen
  PROVE  IndInv'
<1> DEFINE n == Len(closed)
<1>0. /\ closed \in Seq(GoodBuffers(written)) /\ buffers \in Seq(GoodBuffers(written))
      /\ closed # <<>> /\ due = {}
      /\ buffers' = Append(buffers, closed[n]) /\ closed' = SubSeq(closed, 1, n - 1)
      /\ UNCHANGED <<disk, jobs, due, edits, written>>
  BY DEF Reopen, Command, Idle, IndInv, Last
<1>1. n \in Nat \ {0}
  BY <1>0, EmptySeq
<1>2. closed[n] \in GoodBuffers(written)
  BY <1>0, <1>1, ElementOfSeq
<1>3. \A j \in 1..(n - 1) : closed[j] \in GoodBuffers(written)
  BY <1>0, <1>1, ElementOfSeq
<1>4. closed' \in Seq(GoodBuffers(written))
  <2> HIDE DEF n
  <2> QED BY <1>0, <1>1, <1>3, SubSeqProperties
<1>5. buffers' \in Seq(GoodBuffers(written))
  BY <1>0, <1>2, AppendProperties
<1> QED BY <1>0, <1>4, <1>5 DEF IndInv

\* A session begins with what the files hold.
LEMMA InitGood ==
  ASSUME Init
  PROVE  IndInv
<1> DEFINE opened == SetToSeq(Files)
           n == Cardinality(Files)
<1>1. n \in Nat /\ ExistsBijection(1..n, Files)
  BY FilesAssumption, FS_CardinalityType
<1>2. \E f \in [1..n -> Files] : IsInjective(f)
  BY <1>1 DEF ExistsBijection, Bijection, Injection, IsInjective
<1>3. opened \in [1..n -> Files]
  BY <1>2 DEF SetToSeq
<1>4. 0 \in {0} /\ Original \in Texts /\ Original \in SafeTexts(written)
  BY BoundsAssumption DEF Init, Original, Texts, SafeTexts
<1>5. \A f \in Files : Buffer(f, Original, FALSE) \in GoodBuffers(written)
  BY <1>4 DEF Buffer, GoodBuffers, Buffers, SafeTexts
<1>6. buffers = [i \in 1..n |-> Buffer(opened[i], Original, FALSE)]
  BY <1>3 DEF Init
<1>7. buffers \in [1..n -> GoodBuffers(written)]
  <2> HIDE DEF opened, n
  <2> QED BY <1>3, <1>5, <1>6
<1>8. buffers \in Seq(GoodBuffers(written))
  BY <1>1, <1>7, SeqDef
<1>9. closed \in Seq(GoodBuffers(written)) /\ jobs \in Seq(GoodJobs(written))
  BY EmptySeq DEF Init
<1> QED BY <1>4, <1>8, <1>9, BoundsAssumption DEF Init, IndInv

-----------------------------------------------------------------------------
(* The theorems                                                            *)

\* Every step keeps the invariant.
LEMMA NextGood ==
  ASSUME IndInv, [Next]_vars
  PROVE  IndInv'
<1>1. CASE \E k \in DOMAIN jobs : Work(k) \/ Land(k)
  BY <1>1, WorkGood, LandFormatGood, LandOpenGood DEF Land
<1>2. CASE \E i \in DOMAIN buffers : Edit(i) \/ Close(i)
  BY <1>2, EditGood, CloseGood
<1>3. CASE \E i \in DOMAIN buffers : Save(i) \/ SaveNext(i)
  <2>1. PICK i \in DOMAIN buffers, ok \in BOOLEAN :
           /\ Saved(i, ok)
           /\ due' \subseteq due /\ UNCHANGED <<closed, edits>>
    BY <1>3 DEF Save, SaveNext
  <2>2. /\ written \subseteq written'
        /\ disk' \in [Files -> SafeTexts(written')]
        /\ buffers' \in Seq(GoodBuffers(written')) /\ DOMAIN buffers' = DOMAIN buffers
        /\ jobs' \in Seq(GoodJobs(written'))
    BY <2>1, SavedGood
  <2>3. closed \in Seq(GoodBuffers(written'))
    BY <2>2, StillGood DEF IndInv
  <2> QED BY <2>1, <2>2, <2>3 DEF IndInv
<1>4. CASE \E f \in Files : OpenFile(f)
  <2>1. PICK f \in Files : OpenFile(f)
    BY <1>4
  <2>2. Job("read", f) \in GoodJobs(written)
    BY NewJob
  <2>3. jobs' \in Seq(GoodJobs(written))
    BY <2>1, <2>2, AppendProperties DEF OpenFile, IndInv
  <2> QED BY <2>1, <2>3 DEF OpenFile, IndInv
<1>5. CASE SaveModified
  BY <1>5 DEF SaveModified, Modified, IndInv
<1>6. CASE Reopen
  BY <1>6, ReopenGood
<1>7. CASE UNCHANGED vars
  BY <1>7 DEF vars, IndInv
<1> QED BY <1>1, <1>2, <1>3, <1>4, <1>5, <1>6, <1>7 DEF Next

\* The inductive invariant holds in every reachable state.
THEOREM Invariance == Spec => []IndInv
BY InitGood, NextGood, PTL DEF Spec

\* The last text typed into a buffer is on screen or an undo away, for any
\* files, edits and jobs, whatever lands when.
THEOREM TypedIsKept == Spec => []NothingTypedIsLost
<1>1. IndInv => NothingTypedIsLost
  BY ReadGood DEF NothingTypedIsLost, GoodBuffers
<1> QED BY <1>1, Invariance, PTL

\* A buffer of a plain file that reads as saved shows an edit that was written.
THEOREM CleanIsSaved == Spec => []CleanMeansSavedIfPlain
<1>1. IndInv => CleanMeansSavedIfPlain
  BY ReadGood DEF CleanMeansSavedIfPlain, GoodBuffers
<1> QED BY <1>1, Invariance, PTL

\* A formatter's result changes no buffer of another file.
THEOREM LandingIsOwn == Spec => LandingKeepsOtherFiles
<1> DEFINE Own == \A k \in DOMAIN jobs : LandFormat(k) =>
                    \A i \in DOMAIN buffers :
                      buffers[i].file # jobs[k].file => buffers'[i] = buffers[i]
<1>1. ASSUME IndInv PROVE Own
  <2> SUFFICES ASSUME NEW k \in DOMAIN jobs, LandFormat(k),
                      NEW i \in DOMAIN buffers, buffers[i].file # jobs[k].file
               PROVE  buffers'[i] = buffers[i]
    OBVIOUS
  <2> DEFINE at == ForItsFile(jobs[k])
  <2>1. CASE at \notin DOMAIN buffers
    BY <2>1 DEF LandFormat
  <2>2. CASE at \in DOMAIN buffers
    <3>1. buffers[at].file = jobs[k].file
      BY <1>1, <2>2, ItsFile DEF IndInv
    <3>2. at # i
      BY <3>1
    <3> QED BY <2>2, <3>2 DEF LandFormat
  <2> QED BY <2>1, <2>2
<1>2. IndInv => [Own]_vars
  BY <1>1
<1> QED BY <1>2, Invariance, PTL DEF LandingKeepsOtherFiles
=============================================================================
