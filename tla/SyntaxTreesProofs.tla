-------------------------- MODULE SyntaxTreesProofs --------------------------
(***************************************************************************)
(* What TLC checks of SyntaxTrees on two buffers and two texts, proved for *)
(* any number of files, languages, texts, buffers and parses, as long as   *)
(* no command asks for a tree that owes a rebuild.                         *)
(***************************************************************************)
EXTENDS SyntaxTrees, SequenceTheorems, FiniteSetTheorems, TLAPS

\* What is true of a buffer between two commands.
Good(b) == /\ b.tree # Garbage
           /\ b.synced /\ b.tree # None => b.tree = b.text
           /\ b.base # None /\ b.tree # None => b.base = b.tree
           /\ b.pending => ~b.parser /\ b.tree = None /\ b.base = None
           /\ b.tree # None => b.parser

GoodBuffers == {b \in Buffers : Good(b)}

\* It is an invariant: no buffer depends on another.
IndInv == /\ buffers \in Seq(GoodBuffers) /\ Len(buffers) \in 1..MaxBuffers
          /\ shown \in Shows(Len(buffers))
          /\ jobs \subseteq Jobs
          /\ installed \subseteq Languages

-----------------------------------------------------------------------------
(* The operations on one buffer.                                           *)

\* A buffer without tree and parser, of any language, is good.
LEMMA BareGood ==
  ASSUME NEW b \in Buffers
  PROVE  Bare(b) \in GoodBuffers \/ b.pending
BY SyntaxAssumption DEF Bare, Released, GoodBuffers, Good, Buffers

\* The repair keeps a tree and its base together, and as out of sync as it was.
LEMMA RepairedGood ==
  ASSUME NEW b \in GoodBuffers, b.parser
  PROVE  /\ Repaired(b) \in GoodBuffers
         /\ b.tree # None /\ b.base # None =>
              /\ Repaired(b).base = Repaired(b).tree
              /\ b.base # b.text => ~Repaired(b).synced
              /\ b.base = b.text => Repaired(b) = b
<1>0. b \in Buffers /\ Good(b)
  BY DEF GoodBuffers
<1>1. CASE b.tree # None /\ b.base # None /\ b.base = b.text
  BY <1>0, <1>1 DEF Repaired, Good
<1>2. CASE b.tree # None /\ b.base # None /\ b.base # b.text
  <2>1. Repaired(b) = [b EXCEPT !.tree = b.text, !.base = b.text, !.synced = FALSE]
    BY <1>0, <1>2 DEF Repaired, Good
  <2> QED
    BY <1>0, <1>2, <2>1, SyntaxAssumption, ZenonT(60) DEF GoodBuffers, Good, Buffers
<1>3. CASE b.tree = None \/ b.base = None
  <2>1. Repaired(b) = [b EXCEPT !.tree = b.text, !.base = None, !.synced = TRUE]
    BY <1>3 DEF Repaired
  <2> QED
    BY <1>0, <1>3, <2>1, SyntaxAssumption, ZenonT(60) DEF GoodBuffers, Good, Buffers
<1> QED BY <1>1, <1>2, <1>3

\* init_ts_for_buffer() leaves a good buffer, whatever it does.
LEMMA InitialisedGood ==
  ASSUME NEW b \in GoodBuffers, NEW known \in SUBSET Languages
  PROVE  Initialised(b, known) \in GoodBuffers
<1>0. b \in Buffers
  BY DEF GoodBuffers
<1>1. CASE b.pending
  BY <1>1 DEF Initialised, Queues, NeedsParser
<1>2. CASE ~b.pending /\ b.parser /\ b.lang = Lang[b.file]
  BY <1>2, RepairedGood DEF Initialised, Queues, NeedsParser
<1>3. CASE Queues(b, known)
  <2> DEFINE r == [Bare(b) EXCEPT !.lang = Lang[b.file], !.synced = FALSE, !.pending = TRUE]
  <2>1. Initialised(b, known) = r
    BY <1>3 DEF Initialised, Queues, NeedsParser
  <2>2. r \in GoodBuffers
    BY <1>0, <1>3, SyntaxAssumption, ZenonT(60)
       DEF Queues, NeedsParser, Bare, Released, GoodBuffers, Good, Buffers
  <2> QED BY <2>1, <2>2
<1>4. CASE NeedsParser(b, known) /\ ~Queues(b, known)
  <2> DEFINE r == [Bare(b) EXCEPT !.parser = TRUE, !.lang = Lang[b.file], !.failed = FALSE]
  <2>1. Initialised(b, known) = Repaired(r)
    BY <1>4 DEF Initialised, Queues, NeedsParser
  <2>2. r \in GoodBuffers /\ r.parser
    BY <1>0, <1>4, SyntaxAssumption, ZenonT(60)
       DEF NeedsParser, Bare, Released, GoodBuffers, Good, Buffers
  <2> QED BY <2>1, <2>2, RepairedGood
<1>5. CASE /\ ~b.pending /\ ~(b.parser /\ b.lang = Lang[b.file])
           /\ ~NeedsParser(b, known)
  <2>1. Initialised(b, known) = Bare(b)
    BY <1>5 DEF Initialised, Queues
  <2> QED BY <1>0, <1>5, <2>1, BareGood
<1> QED
  BY <1>1, <1>2, <1>3, <1>4, <1>5 DEF NeedsParser

\* What is true of a buffer in the middle of a command: a tree is never in sync.
Mid(b) == b.tree # None => ~b.synced

\* After the announcement of an edit the tree is of the text before it.
LEMMA AnnouncedMid ==
  ASSUME NEW b \in GoodBuffers
  PROVE  Announced(b) \in GoodBuffers /\ Mid(Announced(b))
BY SyntaxAssumption DEF Announced, Mid, GoodBuffers, Good, Buffers

\* The command may change the text at will.
LEMMA ChangedMid ==
  ASSUME NEW b \in GoodBuffers, Mid(b), NEW t \in Texts
  PROVE  [b EXCEPT !.text = t] \in GoodBuffers /\ Mid([b EXCEPT !.text = t])
BY SyntaxAssumption DEF Mid, GoodBuffers, Good, Buffers

\* It may ask for the tree, unless that would be built anew.
LEMMA AskedMid ==
  ASSUME ~Hasty, NEW b \in GoodBuffers, Mid(b), Asks(b), NEW known
  PROVE  Initialised(b, known) \in GoodBuffers /\ Mid(Initialised(b, known))
<1>1. CASE b.pending
  BY <1>1 DEF Initialised, Queues, NeedsParser
<1>2. CASE ~b.pending
  <2>1. b.tree # None /\ b.lang = Lang[b.file] /\ b.base # None /\ b.parser
    BY <1>2 DEF Asks, OwesRebuild, Mid, GoodBuffers, Good
  <2>2. Initialised(b, known) = Repaired(b)
    BY <1>2, <2>1 DEF Initialised, Queues, NeedsParser, Mid
  <2> QED
    BY <2>1, <2>2, RepairedGood DEF Mid
<1> QED BY <1>1, <1>2

\* Invalidation leaves a good buffer.
LEMMA InvalidatedGood ==
  ASSUME NEW b \in GoodBuffers
  PROVE  Invalidated(b) \in GoodBuffers
BY DEF Invalidated, GoodBuffers, Good, Buffers

\* So does :tsreload,
LEMMA ReloadedGood ==
  ASSUME NEW b \in GoodBuffers
  PROVE  Reloaded(b) \in GoodBuffers
BY SyntaxAssumption DEF Reloaded, Released, Invalidated, GoodBuffers, Good, Buffers

\* the confirmation of an announced edit,
LEMMA ConfirmedGood ==
  ASSUME NEW b \in GoodBuffers
  PROVE  Confirmed(b) \in GoodBuffers
<1>1. CASE b.tree = None \/ b.base = None
  BY <1>1 DEF Confirmed
<1>2. CASE b.tree # None /\ b.base # None
  <2> DEFINE r == Repaired(b)
  <2>0. b.parser
    BY <1>2 DEF GoodBuffers, Good
  <2>1. r \in GoodBuffers /\ r.tree = r.base
    BY <1>2, <2>0, RepairedGood
  <2>2. [r EXCEPT !.base = None, !.synced = TRUE] \in GoodBuffers \/ r.base # r.text
    BY <2>1, SyntaxAssumption DEF GoodBuffers, Good, Buffers
  <2> QED BY <1>2, <2>1, <2>2 DEF Confirmed
<1> QED BY <1>1, <1>2

\* and eviction.
LEMMA EvictedGood ==
  ASSUME NEW b \in GoodBuffers
  PROVE  Evicted(b) \in GoodBuffers
BY SyntaxAssumption DEF Evicted, Released, GoodBuffers, Good, Buffers

\* A result is installed over nothing, and keeps its own text as the base.
LEMMA LandedGood ==
  ASSUME NEW b \in GoodBuffers, b.pending, NEW job \in Jobs
  PROVE  Landed(b, job) \in GoodBuffers /\ LandedFailed(b) \in GoodBuffers
BY SyntaxAssumption DEF Landed, LandedFailed, GoodBuffers, Good, Buffers, Jobs

\* A buffer that was just opened is good.
LEMMA FreshGood ==
  ASSUME NEW f \in Files \cup {Scratch}, NEW t \in Texts
  PROVE  Fresh(f, t) \in GoodBuffers
BY SyntaxAssumption DEF Fresh, GoodBuffers, Good, Buffers
-----------------------------------------------------------------------------
(* The steps.                                                              *)

\* A buffer replaced by a good one, or all of them, leaves good buffers.
LEMMA EachGood ==
  ASSUME NEW s \in Seq(GoodBuffers),
         NEW g, DOMAIN g = DOMAIN s, g = [i \in DOMAIN g |-> g[i]],
         \A i \in DOMAIN s : g[i] \in GoodBuffers
  PROVE  g \in Seq(GoodBuffers) /\ Len(g) = Len(s)
<1>1. DOMAIN s = 1..Len(s) /\ Len(s) \in Nat
  BY LenProperties
<1>2. g \in [1..Len(s) -> GoodBuffers]
  BY <1>1
<1>3. g \in Seq(GoodBuffers)
  BY <1>1, <1>2
<1> QED BY <1>1, <1>2, <1>3, LenProperties

\* The jobs that are started are jobs.
LEMMA StartedJobs ==
  ASSUME NEW bs \in Seq(GoodBuffers), Len(bs) \in 1..MaxBuffers,
         NEW S \in SUBSET (DOMAIN bs), NEW known \in SUBSET Languages,
         jobs \subseteq Jobs, Started(bs, S, known)
  PROVE  jobs' \subseteq Jobs
<1> SUFFICES ASSUME NEW i \in S, Queues(bs[i], known) PROVE JobOf(i, bs[i]) \in Jobs
  BY DEF Started
<1>1. i \in 1..MaxBuffers /\ bs[i] \in GoodBuffers
  BY LenProperties, ElementOfSeq, SyntaxAssumption
<1> QED
  BY <1>1 DEF JobOf, Jobs, Queues, NeedsParser, GoodBuffers, Buffers

\* Initialising a set of buffers keeps all of them good.
LEMMA AllInitialised ==
  ASSUME NEW bs \in Seq(GoodBuffers), NEW S, NEW known \in SUBSET Languages
  PROVE  /\ InitialisedAll(bs, S, known) \in Seq(GoodBuffers)
         /\ Len(InitialisedAll(bs, S, known)) = Len(bs)
<1> DEFINE g == InitialisedAll(bs, S, known)
<1>1. \A i \in DOMAIN bs : g[i] \in GoodBuffers
  BY InitialisedGood, ElementOfSeq, LenProperties DEF InitialisedAll
<1>2. DOMAIN g = DOMAIN bs /\ g = [i \in DOMAIN g |-> g[i]]
  BY DEF InitialisedAll
<1> QED BY <1>1, <1>2, EachGood

\* A command that edits a buffer.
LEMMA EditGood ==
  ASSUME ~Hasty, IndInv, NEW i \in Indices, NEW asks \in BOOLEAN,
         NEW t \in Texts \cup {None}, NEW u \in Texts, NEW replaced \in BOOLEAN,
         Edit(i, asks, t, u, replaced)
  PROVE  IndInv'
<1> DEFINE b == Announced(buffers[i])
           c == IF t = None THEN b ELSE [b EXCEPT !.text = t]
           a == IF asks THEN Initialised(c, installed) ELSE c
           d == [a EXCEPT !.text = u]
           e == IF replaced THEN Invalidated(d) ELSE d
<1>0. buffers[i] \in GoodBuffers /\ i \in 1..MaxBuffers
  BY LenProperties, ElementOfSeq, SyntaxAssumption DEF IndInv, Indices
<1>1. b \in GoodBuffers /\ Mid(b)
  BY <1>0, AnnouncedMid
<1>2. c \in GoodBuffers /\ Mid(c)
  BY <1>1, ChangedMid
<1>3. a \in GoodBuffers /\ Mid(a)
  <2>1. CASE asks
    <3>1. Asks(c)
      BY <2>1 DEF Edit
    <3> HIDE DEF c
    <3> QED BY <1>2, <2>1, <3>1, AskedMid
  <2>2. CASE ~asks
    BY <1>2, <2>2
  <2> QED BY <2>1, <2>2
<1>4. d \in GoodBuffers
  <2> HIDE DEF a
  <2> QED BY <1>3, ChangedMid
<1>5. e \in GoodBuffers
  <2> HIDE DEF d
  <2> QED BY <1>4, InvalidatedGood
<1>6. buffers' = [buffers EXCEPT ![i] = e]
  BY DEF Edit
<1>7. buffers' \in Seq(GoodBuffers) /\ Len(buffers') = Len(buffers)
  <2> HIDE DEF e
  <2> QED BY <1>5, <1>6, ExceptSeq DEF IndInv, Indices
<1>8. jobs' \subseteq Jobs
  <2>1. CASE asks /\ Queues(c, installed)
    <3> HIDE DEF c
    <3>1. JobOf(i, c) \in Jobs
      BY <1>0, <1>2, <2>1 DEF JobOf, Jobs, Queues, NeedsParser, GoodBuffers, Buffers, IndInv
    <3>2. jobs' = jobs \cup {JobOf(i, c)}
      BY <2>1 DEF Edit, c
    <3> QED BY <3>1, <3>2 DEF IndInv
  <2>2. CASE ~(asks /\ Queues(c, installed))
    BY <2>2 DEF Edit, IndInv
  <2> QED BY <2>1, <2>2
<1> QED
  BY <1>7, <1>8 DEF Edit, IndInv

\* The one pane of the start.
LEMMA OneShown == {1} \in Shows(1)
<1>1. Cardinality({1}) = 1
  BY FS_Singleton
<1>2. {1} \subseteq 1..1 /\ {1} # {}
  OBVIOUS
<1>3. 1 <= MaxPanes
  BY SyntaxAssumption
<1> QED
  BY <1>1, <1>2, <1>3 DEF Shows

\* Closing a buffer moves the others, and changes none.
LEMMA CloseGood ==
  ASSUME IndInv, NEW i \in Indices, Close(i)
  PROVE  IndInv'
<1>0. /\ buffers \in Seq(GoodBuffers) /\ Len(buffers) \in Nat \ {0}
      /\ MaxBuffers \in Nat /\ i \in 1..Len(buffers)
  BY LenProperties, SyntaxAssumption DEF IndInv, Indices
<1>1. CASE Len(buffers) = 1
  <2> DEFINE b == [Released(buffers[1]) EXCEPT !.file = Scratch, !.text = Empty]
  <2>1. b \in GoodBuffers
    <3>0. 1 \in 1..Len(buffers)
      BY <1>1
    <3>1. buffers[1] \in GoodBuffers
      <4> HIDE DEF b
      <4> QED BY <1>0, <3>0, ElementOfSeq
    <3> QED
      BY <3>1, SyntaxAssumption DEF Released, GoodBuffers, Good, Buffers
  <2>2. buffers' = <<b>>
    BY <1>1 DEF Close
  <2>3. buffers' \in Seq(GoodBuffers) /\ Len(buffers') = 1
    <3> HIDE DEF b
    <3> QED BY <2>1, <2>2
  <2> QED BY <1>0, <1>1, <2>3 DEF Close, IndInv
<1>2. CASE Len(buffers) # 1
  <2> DEFINE s == SubSeq(buffers, 1, i - 1)
             t == SubSeq(buffers, i + 1, Len(buffers))
  <2>1. s \in Seq(GoodBuffers) /\ Len(s) = i - 1
    <3>1. \A j \in 1..(i - 1) : buffers[j] \in GoodBuffers
      BY <1>0, ElementOfSeq
    <3>2. 1 \in Int /\ i - 1 \in Int
      BY <1>0
    <3> QED BY <1>0, <3>1, <3>2, SubSeqProperties
  <2>2. t \in Seq(GoodBuffers) /\ Len(t) = Len(buffers) - i
    <3>1. \A j \in (i + 1)..Len(buffers) : buffers[j] \in GoodBuffers
      BY <1>0, ElementOfSeq
    <3>2. i + 1 \in Int /\ Len(buffers) \in Int
      BY <1>0
    <3> QED BY <1>0, <3>1, <3>2, SubSeqProperties
  <2>3. buffers' = s \o t
    BY <1>2 DEF Close
  <2>4. buffers' \in Seq(GoodBuffers) /\ Len(buffers') = Len(buffers) - 1
    <3> HIDE DEF s, t
    <3>1. s \o t \in Seq(GoodBuffers) /\ Len(s \o t) = Len(s) + Len(t)
      BY <2>1, <2>2, ConcatProperties
    <3> QED BY <1>0, <2>1, <2>2, <2>3, <3>1
  <2>5. Len(buffers') \in 1..MaxBuffers
    <3>1. Len(buffers) \in 1..MaxBuffers
      BY DEF IndInv
    <3> QED BY <1>0, <1>2, <2>4, <3>1
  <2>6. shown' \in Shows(Len(buffers')) /\ UNCHANGED <<jobs, installed>>
    BY DEF Close
  <2> QED BY <1>0, <2>4, <2>5, <2>6 DEF IndInv
<1> QED BY <1>1, <1>2

\* A frame initialises the buffers on screen and confirms or evicts.
LEMMA FrameGood ==
  ASSUME IndInv, Frame
  PROVE  IndInv'
<1> DEFINE asks == {i \in shown : Lang[buffers[i].file] # None}
           painted == InitialisedAll(buffers, asks, installed)
           confirmed == [i \in Indices |-> Confirmed(painted[i])]
<1>1. painted \in Seq(GoodBuffers) /\ Len(painted) = Len(buffers)
  BY AllInitialised DEF IndInv
<1>2. \A i \in Indices : confirmed[i] \in GoodBuffers
  <2> HIDE DEF painted
  <2> QED BY <1>1, ConfirmedGood, ElementOfSeq, LenProperties DEF Indices, IndInv
<1>3. PICK gone : buffers' = [i \in Indices |-> IF i \in gone THEN Evicted(confirmed[i])
                                                ELSE confirmed[i]]
  BY DEF Frame
<1>4. \A i \in Indices : buffers'[i] \in GoodBuffers
  <2> HIDE DEF confirmed
  <2> QED BY <1>2, <1>3, EvictedGood
<1>5. DOMAIN buffers' = Indices /\ buffers' = [i \in DOMAIN buffers' |-> buffers'[i]]
  <2> HIDE DEF confirmed
  <2> QED BY <1>3
<1>6. buffers' \in Seq(GoodBuffers) /\ Len(buffers') = Len(buffers)
  BY <1>4, <1>5, EachGood DEF IndInv, Indices
<1>7. jobs' \subseteq Jobs
  <2>1. Started(buffers, asks, installed)
    BY DEF Frame
  <2>2. asks \in SUBSET (DOMAIN buffers)
    BY LenProperties DEF IndInv, Shows
  <2> HIDE DEF asks
  <2> QED BY <2>1, <2>2, StartedJobs DEF IndInv
<1> QED BY <1>6, <1>7 DEF Frame, IndInv

\* A background parse lands, on whatever buffer has its index now.
LEMMA LandGood ==
  ASSUME IndInv, Land
  PROVE  IndInv'
<1>1. PICK job \in jobs :
        /\ jobs' = jobs \ {job}
        /\ \/ buffers' = buffers
           \/ Takes(job) /\ buffers' = [buffers EXCEPT ![job.index] = Landed(@, job)]
           \/ Takes(job) /\ buffers' = [buffers EXCEPT ![job.index] = LandedFailed(@)]
        /\ UNCHANGED <<shown, installed>>
  BY DEF Land
<1>2. job \in Jobs
  BY DEF IndInv
<1>3. ASSUME Takes(job), buffers' # buffers
      PROVE  buffers' \in Seq(GoodBuffers) /\ Len(buffers') = Len(buffers)
  <2>1. job.index \in 1..Len(buffers) /\ buffers[job.index].pending
    BY <1>3, LenProperties DEF Takes, Indices, IndInv
  <2>2. buffers[job.index] \in GoodBuffers
    BY <2>1, ElementOfSeq DEF IndInv
  <2>3. Landed(buffers[job.index], job) \in GoodBuffers /\ LandedFailed(buffers[job.index]) \in GoodBuffers
    BY <1>2, <2>1, <2>2, LandedGood
  <2>4. \/ buffers' = [buffers EXCEPT ![job.index] = Landed(buffers[job.index], job)]
        \/ buffers' = [buffers EXCEPT ![job.index] = LandedFailed(buffers[job.index])]
    BY <1>1, <1>3
  <2> QED BY <2>1, <2>3, <2>4, ExceptSeq DEF IndInv
<1> QED BY <1>1, <1>3 DEF IndInv

\* Every other step.
LEMMA OtherGood ==
  ASSUME IndInv
  PROVE  /\ \A f \in Files \cup {Scratch}, t \in Texts : Open(f, t) => IndInv'
         /\ OpenWorkspace => IndInv'
         /\ \A S \in Shows(Len(buffers)) : Show(S) => IndInv'
         /\ \A i \in Indices, f \in Files : Name(i, f) => IndInv'
         /\ \A i \in Indices : Query(i) \/ FormattedNothing(i) => IndInv'
         /\ \A l \in Languages : Install(l) => IndInv'
         /\ Reload => IndInv'
<1>0. /\ buffers \in Seq(GoodBuffers) /\ Len(buffers) \in 1..MaxBuffers /\ MaxBuffers \in Nat \ {0}
      /\ Indices = 1..Len(buffers)
  BY LenProperties, SyntaxAssumption DEF IndInv, Indices
<1>1. ASSUME NEW f \in Files \cup {Scratch}, NEW t \in Texts, Open(f, t) PROVE IndInv'
  <2> DEFINE b == Fresh(f, t)
  <2>1. b \in GoodBuffers /\ buffers' = Append(buffers, b)
    BY <1>1, FreshGood DEF Open
  <2>2. buffers' \in Seq(GoodBuffers) /\ Len(buffers') = Len(buffers) + 1
    <3> HIDE DEF b
    <3> QED BY <1>0, <2>1
  <2> QED BY <1>0, <1>1, <2>2 DEF Open, IndInv
<1>2. ASSUME OpenWorkspace PROVE IndInv'
  <2> DEFINE b == Fresh(Scratch, Empty)
  <2>1. b \in GoodBuffers /\ buffers' = <<b>>
    BY <1>2, FreshGood, SyntaxAssumption DEF OpenWorkspace
  <2>2. buffers' \in Seq(GoodBuffers) /\ Len(buffers') = 1
    <3> HIDE DEF b
    <3> QED BY <2>1
  <2>3. {1} \in Shows(1)
    BY OneShown
  <2> QED BY <1>0, <1>2, <2>2, <2>3 DEF OpenWorkspace, IndInv
<1>3. ASSUME NEW S \in Shows(Len(buffers)), Show(S) PROVE IndInv'
  BY <1>3 DEF Show, IndInv
<1>4. ASSUME NEW i \in Indices, NEW f \in Files, Name(i, f) PROVE IndInv'
  <2> DEFINE b == [buffers[i] EXCEPT !.file = f]
  <2>1. b \in GoodBuffers
    <3>1. buffers[i] \in GoodBuffers
      BY <1>0, ElementOfSeq
    <3> QED BY <3>1 DEF GoodBuffers, Good, Buffers
  <2>2. buffers' = [buffers EXCEPT ![i] = b]
    BY <1>4 DEF Name
  <2>3. buffers' \in Seq(GoodBuffers) /\ Len(buffers') = Len(buffers)
    <3> HIDE DEF b
    <3> QED BY <1>0, <2>1, <2>2, ExceptSeq
  <2> QED BY <1>4, <2>3 DEF Name, IndInv
<1>5. ASSUME NEW i \in Indices, Query(i) PROVE IndInv'
  <2>1. jobs' \subseteq Jobs
    BY <1>0, <1>5, StartedJobs DEF Query, IndInv, Indices
  <2> QED BY <1>0, <1>5, <2>1, AllInitialised DEF Query, IndInv
<1>6. ASSUME NEW i \in Indices, FormattedNothing(i) PROVE IndInv'
  <2> DEFINE b == Invalidated(buffers[i])
  <2>1. b \in GoodBuffers
    BY <1>0, ElementOfSeq, InvalidatedGood
  <2>2. buffers' = [buffers EXCEPT ![i] = b]
    BY <1>6 DEF FormattedNothing
  <2>3. buffers' \in Seq(GoodBuffers) /\ Len(buffers') = Len(buffers)
    <3> HIDE DEF b
    <3> QED BY <1>0, <2>1, <2>2, ExceptSeq
  <2> QED BY <1>6, <2>3 DEF FormattedNothing, IndInv
<1>7. DEFINE r == [i \in Indices |-> Reloaded(buffers[i])]
<1>8. r \in Seq(GoodBuffers) /\ Len(r) = Len(buffers)
  <2>1. \A i \in DOMAIN buffers : r[i] \in GoodBuffers
    BY <1>0, ElementOfSeq, ReloadedGood DEF Indices
  <2>2. DOMAIN r = DOMAIN buffers /\ r = [i \in DOMAIN r |-> r[i]]
    BY DEF Indices
  <2> HIDE DEF r
  <2> QED BY <1>0, <2>1, <2>2, EachGood
<1>9. ASSUME NEW l \in Languages, Install(l) PROVE IndInv'
  <2> DEFINE named == {i \in Indices : buffers[i].file # Scratch}
  <2>1. /\ installed' \subseteq Languages
        /\ Started(r, named, installed')
        /\ buffers' = InitialisedAll(r, named, installed')
        /\ shown' = shown
    BY <1>9 DEF Install, IndInv
  <2>2. named \in SUBSET (DOMAIN r)
    OBVIOUS
  <2> HIDE DEF r, named
  <2>3. jobs' \subseteq Jobs
    BY <1>0, <1>8, <2>1, <2>2, StartedJobs DEF IndInv
  <2> QED BY <1>8, <2>1, <2>3, AllInitialised DEF IndInv
<1>10. ASSUME Reload PROVE IndInv'
  <2>1. buffers' = r
    BY <1>10 DEF Reload
  <2> HIDE DEF r
  <2> QED BY <1>8, <1>10, <2>1 DEF Reload, IndInv
<1> QED
  BY <1>1, <1>2, <1>3, <1>4, <1>5, <1>6, <1>9, <1>10

\* Every reachable state satisfies the strengthened invariant.
THEOREM Invariance == ASSUME ~Hasty PROVE Spec => []IndInv
<1>1. Init => IndInv
  <2> SUFFICES ASSUME Init PROVE IndInv
    OBVIOUS
  <2> DEFINE b == Fresh(Scratch, Empty)
  <2>1. b \in GoodBuffers /\ buffers = <<b>>
    BY FreshGood, SyntaxAssumption DEF Init
  <2>2. buffers \in Seq(GoodBuffers) /\ Len(buffers) = 1
    <3> HIDE DEF b
    <3> QED BY <2>1
  <2>3. {1} \in Shows(1)
    BY OneShown
  <2>4. installed \subseteq Languages
    BY SyntaxAssumption DEF Init, Languages
  <2> QED BY <2>2, <2>3, <2>4, SyntaxAssumption DEF Init, IndInv
<1>2. IndInv /\ [Next]_vars => IndInv'
  <2> SUFFICES ASSUME IndInv, [Next]_vars PROVE IndInv'
    OBVIOUS
  <2>1. CASE Commands
    <3>1. CASE \E i \in Indices : Close(i)
      BY <3>1, CloseGood
    <3>2. CASE \E i \in Indices, u \in Texts :
                 \/ \E replaced \in BOOLEAN : Edit(i, FALSE, None, u, replaced)
                 \/ \E t \in Texts \cup {None} : Edit(i, TRUE, t, u, FALSE)
      BY <3>2, EditGood
    <3> QED
      BY <2>1, <3>1, <3>2, OtherGood, SyntaxAssumption DEF Commands
  <2>2. CASE Frame
    BY <2>2, FrameGood
  <2>3. CASE Land
    BY <2>3, LandGood
  <2>4. CASE UNCHANGED vars
    BY <2>4 DEF vars, IndInv
  <2> QED BY <2>1, <2>2, <2>3, <2>4 DEF Next
<1> QED BY <1>1, <1>2, PTL DEF Spec

\* The variables have their types.
THEOREM TypeCorrect == ASSUME ~Hasty PROVE Spec => []TypeOK
<1>1. IndInv => TypeOK
  <2> SUFFICES ASSUME IndInv PROVE buffers \in Seq(Buffers)
    BY DEF IndInv, TypeOK
  <2>1. GoodBuffers \subseteq Buffers
    BY DEF GoodBuffers
  <2> QED BY <2>1 DEF IndInv
<1> QED BY <1>1, Invariance, PTL

\* What the painter takes for a tree of the text is one.
THEOREM InSync == ASSUME ~Hasty PROVE Spec => []InSyncMeansMatching
<1>1. IndInv => InSyncMeansMatching
  BY LenProperties, ElementOfSeq DEF IndInv, InSyncMeansMatching, Indices, GoodBuffers, Good
<1> QED BY <1>1, Invariance, PTL

\* No tree is edited by a difference that is not its own.
THEOREM RepairsAreSound == ASSUME ~Hasty PROVE Spec => []RepairStartsFromTheTree
<1>1. IndInv => RepairStartsFromTheTree
  BY LenProperties, ElementOfSeq DEF IndInv, RepairStartsFromTheTree, Indices, GoodBuffers, Good
<1> QED BY <1>1, Invariance, PTL

\* A result that is installed replaces no parser and no tree.
THEOREM NothingIsReplaced == ASSUME ~Hasty PROVE Spec => []PendingHoldsNothing
<1>1. IndInv => PendingHoldsNothing
  BY LenProperties, ElementOfSeq DEF IndInv, PendingHoldsNothing, Indices, GoodBuffers, Good
<1> QED BY <1>1, Invariance, PTL

-----------------------------------------------------------------------------
(* Who strands a buffer.                                                   *)

\* If a buffer waits after an operation, it waited before it, for the same language.
StillWaits(b, c) == c.pending => b.pending /\ c.lang = b.lang

\* What the operations on one buffer do to its waiting.
LEMMA OperationsKeepWaiting ==
  ASSUME NEW b \in Buffers
  PROVE  /\ StillWaits(b, Announced(b)) /\ StillWaits(b, Invalidated(b))
         /\ StillWaits(b, Confirmed(b)) /\ StillWaits(b, Evicted(b))
         /\ \A job : StillWaits(b, Landed(b, job))
         /\ StillWaits(b, LandedFailed(b))
         /\ \A f : StillWaits(b, [b EXCEPT !.file = f])
         /\ \A t : StillWaits(b, [b EXCEPT !.text = t])
BY DEF StillWaits, Announced, Invalidated, Confirmed, Repaired, Evicted, Released, Landed,
       LandedFailed, Buffers

\* One whose tree is asked for begins to wait only with a parse of its own.
LEMMA InitialisedWaits ==
  ASSUME NEW b \in Buffers, NEW known
  PROVE  \/ StillWaits(b, Initialised(b, known))
         \/ Queues(b, known) /\ Initialised(b, known).lang = Lang[b.file]
<1>1. CASE b.pending
  BY <1>1 DEF Initialised, Queues, NeedsParser, StillWaits
<1>2. CASE ~b.pending /\ b.parser /\ b.lang = Lang[b.file]
  BY <1>2 DEF Initialised, Queues, NeedsParser, StillWaits, Repaired, Buffers
<1>3. CASE Queues(b, known)
  BY <1>3 DEF Initialised, Queues, NeedsParser, Bare, Released, Buffers
<1>4. CASE NeedsParser(b, known) /\ ~Queues(b, known)
  <2>1. Initialised(b, known) = Repaired([Bare(b) EXCEPT !.parser = TRUE, !.lang = Lang[b.file], !.failed = FALSE])
    BY <1>4 DEF Initialised, Queues, NeedsParser
  <2> QED
    BY <1>4, <2>1 DEF NeedsParser, StillWaits, Repaired, Bare, Released, Buffers
<1>5. CASE /\ ~b.pending /\ ~(b.parser /\ b.lang = Lang[b.file])
           /\ ~NeedsParser(b, known)
  <2>1. Initialised(b, known) = Bare(b)
    BY <1>5 DEF Initialised, Queues
  <2> QED
    BY <1>5, <2>1 DEF StillWaits, Bare, Released, Buffers
<1> QED
  BY <1>1, <1>2, <1>3, <1>4, <1>5 DEF NeedsParser

\* No operation of a step strands a buffer, as long as no parse that is out is
\* taken away.
LEMMA NotStranded ==
  ASSUME NEW i \in Indices, StillWaits(buffers[i], buffers'[i]), jobs \subseteq jobs',
         Stranded(i)'
  PROVE  Stranded(i)
BY DEF StillWaits, Stranded

\* What every step starts from.
LEMMA Typed ==
  ASSUME IndInv
  PROVE  /\ Indices = 1..Len(buffers) /\ Len(buffers) \in Nat
         /\ \A i \in Indices : buffers[i] \in Buffers
BY LenProperties, ElementOfSeq DEF IndInv, Indices, GoodBuffers

\* What some of the buffers' trees being asked for leaves of one of them, if its
\* parse is started.
LEMMA AskedNotStranded ==
  ASSUME IndInv, NEW S, NEW known, NEW i \in Indices, Started(buffers, S, known),
         StillWaits(InitialisedAll(buffers, S, known)[i], buffers'[i]),
         Stranded(i)'
  PROVE  Stranded(i)
<1> DEFINE c == InitialisedAll(buffers, S, known)[i]
<1>0. buffers[i] \in Buffers /\ jobs \subseteq jobs' /\ i \in DOMAIN buffers
  BY Typed DEF Started, Indices
<1>1. CASE StillWaits(buffers[i], c)
  <2>1. StillWaits(buffers[i], buffers'[i])
    BY <1>1 DEF StillWaits
  <2> QED
    BY <1>0, <2>1, NotStranded
<1>2. CASE ~StillWaits(buffers[i], c)
  <2>1. i \in S /\ c = Initialised(buffers[i], known)
    BY <1>0, <1>2 DEF InitialisedAll, StillWaits
  <2>2. Queues(buffers[i], known) /\ c.lang = Lang[buffers[i].file]
    BY <1>0, <1>2, <2>1, InitialisedWaits
  <2>3. JobOf(i, buffers[i]) \in jobs'
    BY <2>1, <2>2 DEF Started
  <2>4. JobOf(i, buffers[i]).index = i /\ JobOf(i, buffers[i]).lang = c.lang
    BY <2>2 DEF JobOf
  <2>5. buffers'[i].pending => buffers'[i].lang = c.lang
    BY DEF StillWaits
  <2> QED
    BY <2>3, <2>4, <2>5 DEF Stranded
<1> QED
  BY <1>1, <1>2

\* After an edit only those buffers wait without a parse that did before.
LEMMA EditStrandsNone ==
  ASSUME IndInv, NEW i \in Indices, NEW asks \in BOOLEAN,
         NEW t \in Texts \cup {None}, NEW u \in Texts, NEW replaced \in BOOLEAN,
         Edit(i, asks, t, u, replaced), NEW j \in DOMAIN buffers', Stranded(j)'
  PROVE  j \in Indices /\ Stranded(j)
<1> DEFINE b == Announced(buffers[i])
           c == IF t = None THEN b ELSE [b EXCEPT !.text = t]
           a == IF asks THEN Initialised(c, installed) ELSE c
           d == [a EXCEPT !.text = u]
           e == IF replaced THEN Invalidated(d) ELSE d
<1>0. buffers[i] \in Buffers
  BY Typed
<1>1. buffers' = [buffers EXCEPT ![i] = e]
  BY DEF Edit
<1>2. j \in Indices
  <2> HIDE DEF e
  <2> QED BY <1>1 DEF Indices
<1>3. CASE j # i
  <2>1. buffers'[j] = buffers[j] /\ jobs \subseteq jobs'
    <3>1. jobs \subseteq jobs'
      BY DEF Edit
    <3> HIDE DEF e
    <3> QED BY <1>1, <1>2, <1>3, <3>1 DEF Indices
  <2> QED
    BY <1>2, <2>1, NotStranded DEF StillWaits
<1>4. CASE j = i
  <2>0. buffers[i] \in GoodBuffers
    BY LenProperties, ElementOfSeq DEF IndInv, Indices
  <2>1. b \in GoodBuffers /\ Mid(b) /\ StillWaits(buffers[i], b)
    BY <1>0, <2>0, OperationsKeepWaiting, AnnouncedMid
  <2>2. c \in GoodBuffers /\ c \in Buffers /\ StillWaits(b, c)
    <3>1. b \in Buffers /\ t \in Texts => [b EXCEPT !.text = t] \in GoodBuffers
      BY <2>1, ChangedMid DEF GoodBuffers
    <3> HIDE DEF b
    <3> QED BY <2>1, <3>1, OperationsKeepWaiting DEF GoodBuffers, StillWaits
  <2>3. e.pending = a.pending /\ e.lang = a.lang
    <3>1. a \in Buffers
      <4>1. Initialised(c, installed) \in Buffers
        <5> HIDE DEF c
        <5> QED BY <2>2, InitialisedGood DEF IndInv, GoodBuffers
      <4> HIDE DEF c
      <4> QED BY <2>2, <4>1
    <3> HIDE DEF a
    <3> QED BY <3>1 DEF Invalidated, Buffers
  <2>4. buffers'[j] = e
    <3> HIDE DEF e
    <3> QED BY <1>1, <1>2, <1>4 DEF Indices
  <2>5. jobs \subseteq jobs' /\ (asks /\ Queues(c, installed) => JobOf(i, c) \in jobs')
    BY DEF Edit
  <2> HIDE DEF e
  <2>6. CASE StillWaits(c, a)
    <3>1. StillWaits(buffers[i], e)
      <4> HIDE DEF a, b, c
      <4> QED BY <2>1, <2>2, <2>3, <2>6 DEF StillWaits
    <3> QED
      BY <1>2, <1>4, <2>4, <2>5, <3>1, NotStranded
  <2>7. CASE ~StillWaits(c, a)
    <3>1. asks /\ a = Initialised(c, installed)
      <4> HIDE DEF c
      <4> QED BY <2>7 DEF StillWaits
    <3>2. Queues(c, installed) /\ a.lang = Lang[c.file]
      <4> HIDE DEF a, c
      <4> QED BY <2>2, <2>7, <3>1, InitialisedWaits
    <3> HIDE DEF a, c
    <3>3. JobOf(i, c) \in jobs' /\ JobOf(i, c).index = i /\ JobOf(i, c).lang = e.lang
      BY <2>3, <2>5, <3>1, <3>2 DEF JobOf
    <3> QED
      BY <1>4, <2>4, <3>3 DEF Stranded
  <2> QED
    BY <2>6, <2>7
<1> QED
  BY <1>2, <1>3, <1>4

\* The same for a frame,
LEMMA FrameStrandsNone ==
  ASSUME IndInv, Frame, NEW j \in DOMAIN buffers', Stranded(j)'
  PROVE  j \in Indices /\ Stranded(j)
<1> DEFINE asks == {i \in shown : Lang[buffers[i].file] # None}
           painted == InitialisedAll(buffers, asks, installed)
           confirmed == [i \in Indices |-> Confirmed(painted[i])]
<1>1. PICK gone : buffers' = [i \in Indices |-> IF i \in gone THEN Evicted(confirmed[i])
                                                ELSE confirmed[i]]
  BY DEF Frame
<1>2. j \in Indices
  <2> HIDE DEF confirmed
  <2> QED BY <1>1
<1>3. painted[j] \in Buffers
  <2>1. painted \in Seq(GoodBuffers) /\ Len(painted) = Len(buffers)
    BY AllInitialised DEF IndInv
  <2> HIDE DEF painted
  <2> QED BY <1>2, <2>1, Typed, ElementOfSeq DEF GoodBuffers
<1>4. confirmed[j] = Confirmed(painted[j])
  BY <1>2
<1>5. buffers'[j] \in {confirmed[j], Evicted(confirmed[j])}
  <2> HIDE DEF confirmed
  <2> QED BY <1>1, <1>2
<1>6. StillWaits(painted[j], buffers'[j])
  <2> HIDE DEF painted, confirmed
  <2>1. StillWaits(painted[j], confirmed[j])
    BY <1>3, <1>4, OperationsKeepWaiting
  <2>2. StillWaits(painted[j], Evicted(confirmed[j]))
    BY <1>3, <1>4 DEF Confirmed, Repaired, Evicted, Released, StillWaits, Buffers
  <2> QED
    BY <1>5, <2>1, <2>2
<1>7. Started(buffers, asks, installed)
  BY DEF Frame
<1> QED
  <2> HIDE DEF asks
  <2> QED BY <1>2, <1>6, <1>7, AskedNotStranded

\* and for a landing, which takes one parse and the wait of its buffer.
LEMMA LandStrandsNone ==
  ASSUME IndInv, Land, NEW j \in DOMAIN buffers', Stranded(j)'
  PROVE  j \in Indices /\ Stranded(j)
<1>1. PICK job \in jobs :
        /\ jobs' = jobs \ {job}
        /\ \/ buffers' = buffers /\ ~Takes(job)
           \/ Takes(job) /\ buffers' = [buffers EXCEPT ![job.index] = Landed(@, job)]
           \/ Takes(job) /\ buffers' = [buffers EXCEPT ![job.index] = LandedFailed(@)]
  BY DEF Land
<1>2. j \in Indices /\ buffers[j] \in Buffers
  BY <1>1, Typed DEF Indices
<1>3. CASE Takes(job) /\ j = job.index
  <2>1. ~buffers'[j].pending
    BY <1>1, <1>2, <1>3 DEF Landed, LandedFailed, Indices, Buffers
  <2> QED BY <2>1 DEF Stranded
<1>4. CASE ~(Takes(job) /\ j = job.index)
  <2>1. buffers'[j] = buffers[j]
    BY <1>1, <1>2, <1>4 DEF Indices
  <2>2. buffers[j].pending => ~(job.index = j /\ job.lang = buffers[j].lang)
    BY <1>2, <1>4 DEF Takes
  <2> QED
    BY <1>1, <1>2, <2>1, <2>2 DEF Stranded
<1> QED
  BY <1>3, <1>4

\* Every other step.
LEMMA OtherStrandsNone ==
  ASSUME IndInv, NEW j \in DOMAIN buffers', Stranded(j)'
  PROVE  /\ \A f, t : Open(f, t) => j \in Indices /\ Stranded(j)
         /\ OpenWorkspace => j \in Indices /\ Stranded(j)
         /\ \A S : Show(S) => j \in Indices /\ Stranded(j)
         /\ \A i \in Indices : \A f : Name(i, f) => j \in Indices /\ Stranded(j)
         /\ \A i \in Indices : Query(i) \/ FormattedNothing(i) => j \in Indices /\ Stranded(j)
         /\ UNCHANGED vars => j \in Indices /\ Stranded(j)
<1>0. /\ Indices = 1..Len(buffers) /\ Len(buffers) \in Nat
      /\ \A i \in Indices : buffers[i] \in Buffers
      /\ buffers \in Seq(GoodBuffers)
  BY Typed DEF IndInv
<1>1. ASSUME NEW f, NEW t, Open(f, t) PROVE j \in Indices /\ Stranded(j)
  <2> DEFINE b == Fresh(f, t)
  <2>1. buffers' = Append(buffers, b) /\ jobs' = jobs /\ ~b.pending
    BY <1>1 DEF Open, Fresh
  <2> HIDE DEF b
  <2>2. \/ j \in 1..Len(buffers) /\ buffers'[j] = buffers[j]
        \/ buffers'[j] = b
    BY <1>0, <2>1
  <2> QED
    BY <1>0, <2>1, <2>2 DEF Stranded
<1>2. ASSUME OpenWorkspace PROVE j \in Indices /\ Stranded(j)
  <2> DEFINE b == Fresh(Scratch, Empty)
  <2>1. buffers' = <<b>> /\ ~b.pending
    BY <1>2 DEF OpenWorkspace, Fresh
  <2> HIDE DEF b
  <2>2. buffers'[j] = b
    BY <2>1
  <2> QED BY <2>1, <2>2 DEF Stranded
<1>3. ASSUME NEW S, Show(S) PROVE j \in Indices /\ Stranded(j)
  BY <1>3 DEF Show, Stranded, Indices
<1>4. ASSUME NEW i \in Indices, NEW f, Name(i, f) PROVE j \in Indices /\ Stranded(j)
  <2>1. /\ jobs' = jobs /\ j \in Indices
        /\ buffers'[j] \in {buffers[j], [buffers[j] EXCEPT !.file = f]}
    BY <1>4 DEF Name, Indices
  <2>2. StillWaits(buffers[j], buffers'[j])
    <3>1. StillWaits(buffers[j], [buffers[j] EXCEPT !.file = f])
      BY <1>0, <2>1, OperationsKeepWaiting
    <3>2. StillWaits(buffers[j], buffers[j])
      BY DEF StillWaits
    <3> QED BY <2>1, <3>1, <3>2
  <2> QED BY <2>1, <2>2, NotStranded
<1>5. ASSUME NEW i \in Indices, Query(i) PROVE j \in Indices /\ Stranded(j)
  <2>1. /\ j \in Indices /\ Started(buffers, {i}, installed)
        /\ buffers' = InitialisedAll(buffers, {i}, installed)
    BY <1>5 DEF Query, InitialisedAll, Indices
  <2>2. StillWaits(InitialisedAll(buffers, {i}, installed)[j], buffers'[j])
    BY <2>1 DEF StillWaits
  <2> QED BY <2>1, <2>2, AskedNotStranded
<1>6. ASSUME NEW i \in Indices, FormattedNothing(i) PROVE j \in Indices /\ Stranded(j)
  <2>1. jobs' = jobs /\ j \in Indices /\ buffers'[j] \in {buffers[j], Invalidated(buffers[j])}
    BY <1>6 DEF FormattedNothing, Indices
  <2>2. StillWaits(buffers[j], buffers'[j])
    BY <1>0, <2>1, OperationsKeepWaiting DEF StillWaits
  <2> QED BY <2>1, <2>2, NotStranded
<1>7. ASSUME UNCHANGED vars PROVE j \in Indices /\ Stranded(j)
  BY <1>7 DEF vars, Stranded, Indices
<1> QED
  BY <1>1, <1>2, <1>3, <1>4, <1>5, <1>6, <1>7

\* A buffer goes on waiting for a parse that is not coming only because it moved,
\* or because everything was reloaded: no edit, frame, eviction, rename or result
\* strands one (src/src/syntax/syntax_editor.cpp).
THEOREM OthersStrandNone == ASSUME ~Hasty PROVE Spec => OnlyMovesStrand
<1> DEFINE Moves == \/ Reload
                    \/ \E i \in Indices : Close(i)
                    \/ \E l \in Languages : Install(l)
           Kept == \A i \in DOMAIN buffers' : Stranded(i)' => i \in Indices /\ Stranded(i)
<1>1. IndInv /\ [Next]_vars => Kept \/ Moves
  <2> SUFFICES ASSUME IndInv, [Next]_vars, ~Moves, NEW j \in DOMAIN buffers', Stranded(j)'
               PROVE  j \in Indices /\ Stranded(j)
    OBVIOUS
  <2>1. CASE Commands
    <3>1. CASE \E i \in Indices, u \in Texts :
                 \/ \E replaced \in BOOLEAN : Edit(i, FALSE, None, u, replaced)
                 \/ \E t \in Texts \cup {None} : Edit(i, TRUE, t, u, FALSE)
      BY <3>1, EditStrandsNone
    <3> QED
      BY <2>1, <3>1, OtherStrandsNone DEF Commands
  <2>2. CASE Frame
    BY <2>2, FrameStrandsNone
  <2>3. CASE Land
    BY <2>3, LandStrandsNone
  <2>4. CASE UNCHANGED vars
    BY <2>4, OtherStrandsNone
  <2> QED BY <2>1, <2>2, <2>3, <2>4 DEF Next
<1>2. IndInv /\ [Next]_vars =>
        [ \/ \A i \in DOMAIN buffers' : Stranded(i)' => i \in Indices /\ Stranded(i)
          \/ Reload \/ (\E i \in Indices : Close(i)) \/ (\E l \in Languages : Install(l)) ]_vars
  BY <1>1
<1> QED
  BY <1>2, Invariance, PTL DEF Spec, OnlyMovesStrand
=============================================================================
