--------------------------- MODULE LspSyncProofs ---------------------------
(***************************************************************************)
(* That a language server and its client agree, for any servers, files and *)
(* texts, any caps, and any bounds of the model: what the client claims is *)
(* what the server will hold once it has read what is on its way, no edit  *)
(* is forgotten on its way to the primary, a reply that is used was        *)
(* computed on the text it is used on, and findings never go back.         *)
(*                                                                         *)
(* The argument: the messages on the way, sent or waiting, are one         *)
(* sequence, and what the server holds after each of them is what the      *)
(* invariant speaks of: after the last one the claim, at a question the    *)
(* document its pending entry remembers, and never a document of the same  *)
(* opening that is ahead of the claim.  Every handler appends to that      *)
(* sequence, takes its head, refuses, or starts it anew.                   *)
(***************************************************************************)
EXTENDS LspSync, SequenceTheorems, FiniteSetTheorems, WellFoundedInduction, TLAPS

-----------------------------------------------------------------------------
(* Numbers *)

\* Induction, for one set at a time.
LEMMA EveryNumber ==
  ASSUME NEW T, 0 \in T, \A n \in Nat : n \in T => n + 1 \in T
  PROVE  Nat \subseteq T
<1>1. ASSUME Nat \ T # {} PROVE FALSE
  <2>1. Nat \ T \in SUBSET Nat
    OBVIOUS
  <2>2. PICK x \in Nat \ T : \A y \in Nat \ T : <<y, x>> \notin OpToRel(<, Nat)
    BY <1>1, <2>1, WFMin, NatLessThanWellFounded
  <2>3. x # 0 /\ x - 1 \in Nat /\ x - 1 < x /\ (x - 1) + 1 = x
    <3>1. x \in Nat /\ x \notin T
      BY <2>2
    <3> QED
      BY <3>1
  <2>4. <<x - 1, x>> \in OpToRel(<, Nat)
    <3>1. <<x - 1, x>> \in Nat \X Nat
      BY <2>2, <2>3
    <3> QED
      BY <2>3, <3>1 DEF OpToRel
  <2>5. x - 1 \in T
    BY <2>2, <2>3, <2>4
  <2> QED
    BY <2>2, <2>3, <2>5
<1> QED
  BY <1>1

\* A set of numbers that is not empty has a least one.
LEMMA LeastOf ==
  ASSUME NEW T \in SUBSET Nat, T # {}
  PROVE  \E x \in T : \A y \in T : x <= y
<1>1. PICK x \in T : \A y \in T : <<y, x>> \notin OpToRel(<, Nat)
  BY WFMin, NatLessThanWellFounded
<1>2. ASSUME NEW y \in T, ~(x <= y) PROVE FALSE
  <2>1. <<y, x>> \in Nat \X Nat /\ y < x
    BY <1>2
  <2>2. <<y, x>> \in OpToRel(<, Nat)
    BY <2>1 DEF OpToRel
  <2> QED
    BY <1>1, <2>2
<1> QED
  BY <1>2

-----------------------------------------------------------------------------
(* What a server holds after each message *)

Docs == [Files -> Doc \cup {NoDoc}]

\* A missing claim is no claim.
LEMMA NoDocIsNone == NoDoc \notin Doc /\ NoDocs \in Docs /\ ZeroDoc \in Doc
BY DEF NoDoc, Doc, NoDocs, Docs, ZeroDoc

\* A message changes at most the document it is about.
LEMMA HeardType ==
  ASSUME NEW known \in Docs, NEW m \in Messages
  PROVE  /\ Heard(known, m) \in Docs
         /\ m.what \in {"init", "ask", "save"} => Heard(known, m) = known
         /\ m.what \in {"open", "change", "close", "save"} =>
              /\ m.file \in Files /\ m.doc \in Doc \cup {NoDoc}
              /\ \A g \in Files \ {m.file} : Heard(known, m)[g] = known[g]
              /\ m.what = "open" => Heard(known, m)[m.file] = m.doc
              /\ m.what = "change" /\ known[m.file] # NoDoc => Heard(known, m)[m.file] = m.doc
              /\ m.what = "close" => Heard(known, m)[m.file] = NoDoc
         /\ \A g \in Files : \/ Heard(known, m)[g] \in {known[g], NoDoc}
                            \/ /\ m.what \in {"open", "change", "close", "save"}
                               /\ m.file = g /\ Heard(known, m)[g] = m.doc
<1>1. CASE m = Initialize
  BY <1>1 DEF Heard, Initialize
<1>2. CASE m \in [what : {"ask"}, file : Files, kind : Kinds, id : Nat]
  BY <1>2 DEF Heard
<1>3. CASE m \in [what : {"open", "change", "close", "save"}, file : Files, doc : Doc \cup {NoDoc}]
  BY <1>3 DEF Heard, Docs
<1> QED
  BY <1>1, <1>2, <1>3 DEF Messages

\* What is held after each of the first n messages.
HeardUpto(known, ms, F, n) ==
  F = [k \in 0..n |-> IF k = 0 THEN known ELSE Heard(F[k - 1], ms[k])]

\* The recursion behind Hearing has a solution on every initial segment.
LEMMA HeardUptoExists ==
  ASSUME NEW known, NEW ms, NEW n \in Nat
  PROVE  \E F : HeardUpto(known, ms, F, n)
<1> DEFINE T == {m \in Nat : \E F : HeardUpto(known, ms, F, m)}
<1>1. 0 \in T
  <2> DEFINE F == [k \in 0..0 |-> known]
  <2>1. HeardUpto(known, ms, F, 0)
    BY DEF HeardUpto
  <2> QED
    BY <2>1
<1>2. ASSUME NEW m \in Nat, m \in T PROVE m + 1 \in T
  <2>1. PICK F : HeardUpto(known, ms, F, m)
    BY <1>2
  <2> DEFINE G == [k \in 0..(m + 1) |-> IF k = m + 1 THEN Heard(F[m], ms[m + 1]) ELSE F[k]]
  <2>2. \A k \in 0..m : G[k] = F[k]
    OBVIOUS
  <2>3. ASSUME NEW k \in 0..(m + 1)
        PROVE  G[k] = IF k = 0 THEN known ELSE Heard(G[k - 1], ms[k])
    <3>1. CASE k = m + 1
      BY <2>2, <3>1
    <3>2. CASE k # m + 1
      <4>1. k \in 0..m /\ (k # 0 => k - 1 \in 0..m)
        BY <3>2
      <4>2. F[k] = IF k = 0 THEN known ELSE Heard(F[k - 1], ms[k])
        BY <2>1, <4>1 DEF HeardUpto
      <4> HIDE DEF G
      <4> QED
        BY <2>2, <4>1, <4>2
    <3> QED
      BY <3>1, <3>2
  <2>4. G = [k \in 0..(m + 1) |-> G[k]]
    OBVIOUS
  <2>5. HeardUpto(known, ms, G, m + 1)
    <3> HIDE DEF G
    <3> QED
      BY <2>3, <2>4 DEF HeardUpto
  <2> QED
    BY <2>5
<1> QED
  <2> HIDE DEF T
  <2>1. n \in T
    BY <1>1, <1>2, EveryNumber
  <2> QED
    BY <2>1 DEF T

\* Hearing says what is held before the first message and after each.
LEMMA HearingSteps ==
  ASSUME NEW known \in Docs, NEW ms \in Seq(Messages)
  PROVE  /\ Len(ms) \in Nat /\ \A k \in 1..Len(ms) : ms[k] \in Messages
         /\ Hearing(known, ms)[0] = known
         /\ \A k \in 1..Len(ms) : Hearing(known, ms)[k] = Heard(Hearing(known, ms)[k - 1], ms[k])
         /\ \A k \in 0..Len(ms) : Hearing(known, ms)[k] \in Docs
<1> DEFINE F == CHOOSE F : HeardUpto(known, ms, F, Len(ms))
<1>0. Len(ms) \in Nat /\ \A k \in 1..Len(ms) : ms[k] \in Messages
  BY LenProperties, ElementOfSeq
<1>1. HeardUpto(known, ms, F, Len(ms))
  BY <1>0, HeardUptoExists
<1>2. Hearing(known, ms) = F
  BY DEF Hearing, HeardUpto
<1> HIDE DEF F
<1>3. F[0] = known /\ \A k \in 1..Len(ms) : F[k] = Heard(F[k - 1], ms[k])
  <2>1. 0 \in 0..Len(ms) /\ \A k \in 1..Len(ms) : k \in 0..Len(ms) /\ k # 0
    BY <1>0
  <2> QED
    BY <1>1, <2>1 DEF HeardUpto
<1> DEFINE T == {k \in Nat : k <= Len(ms) => F[k] \in Docs}
<1>4. 0 \in T
  BY <1>3
<1>5. ASSUME NEW k \in Nat, k \in T PROVE k + 1 \in T
  <2> SUFFICES ASSUME k + 1 <= Len(ms) PROVE F[k + 1] \in Docs
    OBVIOUS
  <2>1. k + 1 \in 1..Len(ms) /\ k <= Len(ms) /\ (k + 1) - 1 = k
    BY <1>0
  <2>2. F[k] \in Docs /\ ms[k + 1] \in Messages
    BY <1>0, <1>5, <2>1
  <2>3. F[k + 1] = Heard(F[k], ms[k + 1])
    BY <1>3, <2>1
  <2> QED
    BY <2>2, <2>3, HeardType
<1>6. \A k \in 0..Len(ms) : F[k] \in Docs
  <2>1. Nat \subseteq T
    <3> HIDE DEF T
    <3> QED BY <1>4, <1>5, EveryNumber
  <2> QED
    BY <1>0, <2>1
<1> QED
  BY <1>0, <1>2, <1>3, <1>6

\* One more message leaves what is held after the earlier ones.
LEMMA HearingAppend ==
  ASSUME NEW known \in Docs, NEW ms \in Seq(Messages), NEW m \in Messages
  PROVE  LET ns == Append(ms, m) IN
         /\ ns \in Seq(Messages) /\ Len(ns) = Len(ms) + 1 /\ ns[Len(ms) + 1] = m
         /\ \A k \in 1..Len(ms) : ns[k] = ms[k]
         /\ \A k \in 0..Len(ms) : Hearing(known, ns)[k] = Hearing(known, ms)[k]
         /\ Hearing(known, ns)[Len(ns)] = Heard(Hearing(known, ms)[Len(ms)], m)
<1> DEFINE ns == Append(ms, m)
           G == Hearing(known, ns)
           F == Hearing(known, ms)
<1>1. /\ ns \in Seq(Messages) /\ Len(ns) = Len(ms) + 1 /\ ns[Len(ms) + 1] = m
      /\ \A k \in 1..Len(ms) : ns[k] = ms[k]
  BY AppendProperties
<1>2. /\ Len(ms) \in Nat
      /\ F[0] = known /\ \A k \in 1..Len(ms) : F[k] = Heard(F[k - 1], ms[k])
  BY HearingSteps
<1> HIDE DEF ns
<1>3. G[0] = known /\ \A k \in 1..Len(ns) : G[k] = Heard(G[k - 1], ns[k])
  BY <1>1, HearingSteps
<1> HIDE DEF F, G
<1> DEFINE T == {k \in Nat : k <= Len(ms) => G[k] = F[k]}
<1>4. 0 \in T
  BY <1>2, <1>3
<1>5. ASSUME NEW k \in Nat, k \in T PROVE k + 1 \in T
  <2> SUFFICES ASSUME k + 1 <= Len(ms) PROVE G[k + 1] = F[k + 1]
    OBVIOUS
  <2>1. k + 1 \in 1..Len(ms) /\ k + 1 \in 1..Len(ns) /\ k <= Len(ms) /\ (k + 1) - 1 = k
    BY <1>1, <1>2
  <2> QED
    BY <1>1, <1>2, <1>3, <1>5, <2>1
<1>6. \A k \in 0..Len(ms) : G[k] = F[k]
  <2>1. Nat \subseteq T
    <3> HIDE DEF T
    <3> QED BY <1>4, <1>5, EveryNumber
  <2> QED
    BY <1>2, <2>1
<1>7. G[Len(ns)] = Heard(F[Len(ms)], m)
  <2>1. Len(ns) \in 1..Len(ns) /\ Len(ns) - 1 = Len(ms) /\ Len(ms) \in 0..Len(ms)
    BY <1>1, <1>2
  <2> QED
    BY <1>1, <1>3, <1>6, <2>1
<1> QED
  BY <1>1, <1>6, <1>7 DEF F, G, ns

\* When the first message has been heard, the rest goes on from there.
LEMMA HearingTail ==
  ASSUME NEW known \in Docs, NEW ms \in Seq(Messages), ms # <<>>
  PROVE  /\ Head(ms) = ms[1] /\ Tail(ms) \in Seq(Messages) /\ Len(Tail(ms)) = Len(ms) - 1
         /\ Len(ms) \in Nat \ {0}
         /\ \A k \in 1..Len(Tail(ms)) : Tail(ms)[k] = ms[k + 1]
         /\ \A k \in 0..Len(Tail(ms)) :
              Hearing(Heard(known, Head(ms)), Tail(ms))[k] = Hearing(known, ms)[k + 1]
<1> DEFINE ns == Tail(ms)
           then == Heard(known, ms[1])
           G == Hearing(then, ns)
           F == Hearing(known, ms)
<1>1. /\ ns \in Seq(Messages) /\ Len(ns) = Len(ms) - 1 /\ Len(ms) \in Nat \ {0}
      /\ \A k \in 1..Len(ns) : ns[k] = ms[k + 1]
      /\ Head(ms) = ms[1]
  BY HeadTailProperties, EmptySeq
<1> HIDE DEF ns
<1>2. /\ F[0] = known /\ \A k \in 1..Len(ms) : F[k] = Heard(F[k - 1], ms[k])
      /\ \A k \in 1..Len(ms) : ms[k] \in Messages
  BY HearingSteps
<1>3. then \in Docs /\ F[1] = then
  <2>1. 1 \in 1..Len(ms) /\ 1 - 1 = 0
    BY <1>1
  <2> QED
    BY <1>2, <2>1, HeardType
<1> HIDE DEF then
<1>4. G[0] = then /\ \A k \in 1..Len(ns) : G[k] = Heard(G[k - 1], ns[k])
  BY <1>1, <1>3, HearingSteps
<1> HIDE DEF F, G
<1> DEFINE T == {k \in Nat : k <= Len(ns) => G[k] = F[k + 1]}
<1>5. 0 \in T
  BY <1>3, <1>4
<1>6. ASSUME NEW k \in Nat, k \in T PROVE k + 1 \in T
  <2> SUFFICES ASSUME k + 1 <= Len(ns) PROVE G[k + 1] = F[(k + 1) + 1]
    OBVIOUS
  <2>1. /\ k + 1 \in 1..Len(ns) /\ (k + 1) + 1 \in 1..Len(ms) /\ k <= Len(ns)
        /\ (k + 1) - 1 = k /\ ((k + 1) + 1) - 1 = k + 1
    BY <1>1
  <2> QED
    <3>1. G[k] = F[k + 1] /\ ns[k + 1] = ms[(k + 1) + 1]
      BY <1>1, <1>6, <2>1
    <3>2. G[k + 1] = Heard(G[k], ns[k + 1])
      BY <1>4, <2>1
    <3>3. F[(k + 1) + 1] = Heard(F[k + 1], ms[(k + 1) + 1])
      BY <1>2, <2>1
    <3> QED
      BY <3>1, <3>2, <3>3
<1>7. \A k \in 0..Len(ns) : G[k] = F[k + 1]
  <2>1. Nat \subseteq T
    <3> HIDE DEF T
    <3> QED BY <1>5, <1>6, EveryNumber
  <2> QED
    BY <1>1, <2>1
<1> QED
  BY <1>1, <1>7 DEF F, G, ns, then

-----------------------------------------------------------------------------
(* A server's link, and what holds of it *)

Entries == [id : Nat, kind : Kinds, file : Files, version : Nat, opening : Nat, old : BOOLEAN]
Links == [status : {"absent", "stopped", "starting", "ready"}, docs : Docs,
          applied : [Files -> Nat \cup {-1}], pend : SUBSET Entries, next : Nat,
          queue : Seq(Messages), opens : Nat, refused : SUBSET Files,
          sent : Seq(Messages), known : Docs, answers : SUBSET Answers]

\* The requests of a kind that wait for an answer.
OfKind(pend, kind) == {p \in pend : p.kind = kind}

\* The tables keep to their caps.
Capped(l) ==
  /\ IsFiniteSet(l.pend) /\ \A kind \in Kinds : Cardinality(OfKind(l.pend, kind)) <= MaxPending
  /\ Len(l.queue) <= MaxQueue

\* What has been told and not been read: the pipe, then the deferred queue.
Way(l) == l.sent \o l.queue

\* A process that has not answered `initialize' has been told nothing else, and
\* one that does not run is owed nothing.
Phase(l) ==
  /\ ~Running(l) => /\ l.docs = NoDocs /\ l.answers = {}
                    /\ l.sent = <<>> /\ l.queue = <<>>
  /\ l.status = "ready" => l.queue = <<>>
  /\ l.status = "starting" => /\ l.known = NoDocs /\ \A a \in l.answers : a.what = "init"
                              /\ \A k \in 1..Len(l.sent) : l.sent[k] = Initialize

\* The claim is what the server will hold.
Claimed(l) ==
  Running(l) => \A f \in Files \ l.refused : WillKnow(l)[f] = l.docs[f]

\* A document of a file that the server holds, is told of, or has answered with.
Mentions(l, f, d) ==
  \/ d = l.known[f]
  \/ \E k \in 1..Len(Way(l)) : LET m == Way(l)[k] IN
       m.what \in {"open", "change", "close", "save"} /\ m.file = f /\ d = m.doc
  \/ \E a \in l.answers : a.what \in {"publish", "reply"} /\ a.file = f /\ d = a.doc

\* Of the opening that is claimed, no document is ahead of the claim, and that
\* version of it is the claim.
Edition(l, f, d) ==
  /\ d.opening <= l.opens
  /\ f \notin l.refused /\ NoDoc \notin {d, l.docs[f]} /\ d.opening = l.docs[f].opening
       => d.version < l.docs[f].version \/ d = l.docs[f]
Editions(l) ==
  \A f \in Files : /\ l.docs[f].opening <= l.opens
                   /\ \A d : Mentions(l, f, d) => Edition(l, f, d)

\* The question or reply m is that of the entry p, and d its document.
Suits(l, p, m, d) ==
  /\ m.kind = p.kind /\ m.file = p.file
  /\ p.file \notin l.refused => d.version = p.version /\ d.opening = p.opening

\* A question finds the document its entry remembers, and a reply was computed on it.
Questions(l) ==
  /\ \A k \in 1..Len(Way(l)) : LET m == Way(l)[k] IN m.what = "ask" =>
       /\ m.id < l.next
       /\ \A p \in l.pend : ~p.old /\ p.id = m.id
            => Suits(l, p, m, Hearing(l.known, Way(l))[k - 1][m.file])
  /\ \A a \in l.answers : a.what = "reply" =>
       a.id < l.next /\ \A p \in l.pend : ~p.old /\ p.id = a.id => Suits(l, p, a, a.doc)
  /\ \A p \in l.pend : IF p.old THEN p.kind \notin ClearedByStop ELSE p.id < l.next

LinkSound(l) ==
  l \in Links /\ Capped(l) /\ Phase(l) /\ Claimed(l) /\ Editions(l) /\ Questions(l)

\* The findings kept of a server are of its documents, and applied says how far.
Slices == [Files -> [of : Doc \cup {NoDoc}]]
Applied(l, kept) ==
  Running(l) =>
    /\ l.status = "starting" => kept = NoSlices
    /\ \A f \in Files : LET d == kept[f].of IN d # NoDoc =>
         /\ d.opening <= l.opens
         /\ l.docs[f] # NoDoc /\ d.opening = l.docs[f].opening => l.applied[f] >= d.version

\* The messages on the way are messages.
LEMMA WayType ==
  ASSUME NEW l \in Links
  PROVE  /\ Way(l) \in Seq(Messages) /\ Len(Way(l)) \in Nat
         /\ \A k \in 1..Len(Way(l)) : Way(l)[k] \in Messages
         /\ Len(Way(l)) = Len(l.sent) + Len(l.queue)
         /\ WillKnow(l) = Hearing(l.known, Way(l))[Len(Way(l))]
         /\ WillKnow(l) \in Docs
<1>1. l.sent \in Seq(Messages) /\ l.queue \in Seq(Messages) /\ l.known \in Docs
  BY DEF Links
<1>2. Way(l) \in Seq(Messages) /\ Len(Way(l)) = Len(l.sent) + Len(l.queue)
  BY <1>1, ConcatProperties DEF Way
<1>3. WillKnow(l) = Hearing(l.known, Way(l))[Len(Way(l))]
  BY DEF WillKnow, Way
<1> HIDE DEF Way
<1>4. Len(Way(l)) \in Nat
  BY <1>2, LenProperties
<1>5. Len(Way(l)) \in 0..Len(Way(l))
  BY <1>4
<1>6. /\ \A k \in 1..Len(Way(l)) : Way(l)[k] \in Messages
      /\ \A k \in 0..Len(Way(l)) : Hearing(l.known, Way(l))[k] \in Docs
  BY <1>1, <1>2, HearingSteps
<1> QED
  BY <1>2, <1>3, <1>4, <1>5, <1>6

\* What is mentioned is a document or none.
LEMMA MentionedType ==
  ASSUME NEW l \in Links, NEW f \in Files, NEW d, Mentions(l, f, d)
  PROVE  d \in Doc \cup {NoDoc}
<1>1. CASE d = l.known[f]
  BY <1>1 DEF Links, Docs
<1>2. CASE \E k \in 1..Len(Way(l)) : LET m == Way(l)[k] IN
             m.what \in {"open", "change", "close", "save"} /\ m.file = f /\ d = m.doc
  <2>1. PICK k \in 1..Len(Way(l)) :
          Way(l)[k].what \in {"open", "change", "close", "save"} /\ d = Way(l)[k].doc
    BY <1>2
  <2>2. Way(l)[k] \in Messages
    BY WayType
  <2> QED
    BY <2>1, <2>2 DEF Messages, Initialize
<1>3. CASE \E a \in l.answers : a.what \in {"publish", "reply"} /\ a.file = f /\ d = a.doc
  BY <1>3 DEF Links, Answers
<1> QED
  BY <1>1, <1>2, <1>3 DEF Mentions

\* Behind the second of two sequences is behind both.
LEMMA AppendBehind ==
  ASSUME NEW S, NEW s \in Seq(S), NEW t \in Seq(S), NEW x \in S
  PROVE  s \o Append(t, x) = Append(s \o t, x)
<1> DEFINE one == <<x>>
           both == s \o t
<1>1. one \in Seq(S) /\ both \in Seq(S)
  BY ConcatProperties
<1>2. Append(t, x) = t \o one /\ Append(both, x) = both \o one
  <2> HIDE DEF both
  <2> QED BY <1>1, AppendIsConcat
<1> HIDE DEF one
<1>3. (s \o t) \o one = s \o (t \o one)
  BY <1>1, ConcatAssociative
<1> QED
  BY <1>2, <1>3

\* The head of two sequences is that of the first.
LEMMA HeadBehind ==
  ASSUME NEW S, NEW s \in Seq(S), NEW t \in Seq(S), s # <<>>
  PROVE  /\ Head(s \o t) = Head(s) /\ Tail(s \o t) = Tail(s) \o t
         /\ s \o t # <<>> /\ Head(s) \in S
<1>1. /\ Head(s) \in S /\ Tail(s) \in Seq(S) /\ Len(Tail(s)) = Len(s) - 1
      /\ \A i \in 1..Len(Tail(s)) : Tail(s)[i] = s[i + 1]
      /\ Len(s) \in Nat \ {0} /\ Len(t) \in Nat /\ Head(s) = s[1]
  BY HeadTailProperties, EmptySeq, LenProperties
<1>2. /\ s \o t \in Seq(S) /\ Len(s \o t) = Len(s) + Len(t)
      /\ \A i \in 1..(Len(s) + Len(t)) :
           (s \o t)[i] = IF i <= Len(s) THEN s[i] ELSE t[i - Len(s)]
  BY ConcatProperties
<1>3. s \o t # <<>>
  BY <1>1, <1>2
<1>4. Head(s \o t) = Head(s)
  <2>1. 1 \in 1..(Len(s) + Len(t)) /\ 1 <= Len(s)
    BY <1>1
  <2>2. Head(s \o t) = (s \o t)[1]
    BY <1>2
  <2> QED
    BY <1>1, <1>2, <2>1, <2>2
<1>5. Tail(s \o t) = Tail(s) \o t
  <2> DEFINE u == Tail(s \o t)
             v == Tail(s) \o t
  <2>1. /\ u \in Seq(S) /\ Len(u) = Len(s) + Len(t) - 1
        /\ \A i \in 1..Len(u) : u[i] = (s \o t)[i + 1]
    BY <1>1, <1>2, <1>3, HeadTailProperties
  <2>2. /\ v \in Seq(S) /\ Len(v) = Len(s) - 1 + Len(t)
        /\ \A i \in 1..(Len(s) - 1 + Len(t)) :
             v[i] = IF i <= Len(s) - 1 THEN Tail(s)[i] ELSE t[i - (Len(s) - 1)]
    BY <1>1, ConcatProperties
  <2> HIDE DEF u, v
  <2>3. ASSUME NEW i \in 1..Len(u) PROVE u[i] = v[i]
    <3>1. /\ i \in 1..(Len(s) - 1 + Len(t)) /\ i + 1 \in 1..(Len(s) + Len(t))
          /\ i - (Len(s) - 1) = (i + 1) - Len(s)
      BY <1>1, <2>1
    <3>2. CASE i <= Len(s) - 1
      <4>1. i \in 1..Len(Tail(s)) /\ i + 1 <= Len(s)
        BY <1>1, <3>1, <3>2
      <4> QED
        BY <1>1, <1>2, <2>1, <2>2, <3>1, <3>2, <4>1
    <3>3. CASE ~(i <= Len(s) - 1)
      <4>1. ~(i + 1 <= Len(s))
        BY <1>1, <3>1, <3>3
      <4> QED
        BY <1>2, <2>1, <2>2, <3>1, <3>3, <4>1
    <3> QED
      BY <3>2, <3>3
  <2>4. Len(u) = Len(v)
    BY <1>1, <2>1, <2>2
  <2>5. u = v
    BY <2>1, <2>2, <2>3, <2>4, SeqEqual
  <2> QED
    BY <2>5 DEF u, v
<1> QED
  BY <1>1, <1>3, <1>4, <1>5

\* A message that fits goes behind those on the way, and nothing else changes.
LEMMA SentFits ==
  ASSUME NEW l \in Links, NEW m \in Messages, Running(l), Phase(l), Capped(l), Fits(l)
  PROVE  LET r == Sent(l, m) IN
         /\ r \in Links /\ Way(r) = Append(Way(l), m) /\ Phase(r) /\ Capped(r)
         /\ r = [l EXCEPT !.sent = r.sent, !.queue = r.queue]
<1>0. l.sent \in Seq(Messages) /\ l.queue \in Seq(Messages)
  BY DEF Links
<1>1. CASE l.status = "ready"
  <2> DEFINE r == [l EXCEPT !.sent = Append(l.sent, m)]
  <2>1. Sent(l, m) = r
    BY <1>1 DEF Sent
  <2>2. Append(l.sent, m) \in Seq(Messages) /\ l.queue = <<>>
    BY <1>0, <1>1, AppendProperties DEF Phase
  <2>3. r \in Links /\ r = [l EXCEPT !.sent = r.sent, !.queue = r.queue]
    BY <2>2 DEF Links
  <2>4. r.sent = Append(l.sent, m) /\ r.queue = <<>> /\ l.queue = <<>>
    BY <2>2 DEF Links
  <2>5. Way(r) = Append(Way(l), m)
    <3>1. Append(l.sent, m) \o <<>> = Append(l.sent, m) /\ l.sent \o <<>> = l.sent
      BY <1>0, <2>2, ConcatEmptySeq
    <3> QED
      BY <2>4, <3>1 DEF Way
  <2>6. Phase(r) /\ Capped(r)
    BY <1>1, <2>2 DEF Phase, Capped, Running, Links
  <2> QED
    BY <2>1, <2>3, <2>5, <2>6
<1>2. CASE l.status # "ready"
  <2> DEFINE r == [l EXCEPT !.queue = Append(l.queue, m)]
  <2>1. Sent(l, m) = r
    BY <1>2 DEF Sent
  <2>2. Append(l.queue, m) \in Seq(Messages) /\ Len(Append(l.queue, m)) = Len(l.queue) + 1
    BY <1>0, AppendProperties
  <2>3. r \in Links /\ r = [l EXCEPT !.sent = r.sent, !.queue = r.queue]
    BY <2>2 DEF Links
  <2>4. r.sent = l.sent /\ r.queue = Append(l.queue, m)
    BY DEF Links
  <2>5. Way(r) = Append(Way(l), m)
    <3> DEFINE s == l.sent
               q == l.queue
    <3>1. s \in Seq(Messages) /\ q \in Seq(Messages)
      BY <1>0
    <3>2. s \o Append(q, m) = Append(s \o q, m)
      <4> HIDE DEF s, q
      <4> QED BY <3>1, AppendBehind
    <3> QED
      BY <2>4, <3>2 DEF Way
  <2>6. Len(l.queue) < MaxQueue /\ Len(l.queue) \in Nat
    BY <1>0, <1>2, LenProperties DEF Fits
  <2>7. Phase(r) /\ Capped(r)
    BY <1>2, <2>2, <2>6, BoundsAssumption DEF Phase, Capped, Running, Links
  <2> QED
    BY <2>1, <2>3, <2>5, <2>7
<1> QED
  BY <1>1, <1>2

\* One that does not is refused: only the list of such files may change.
LEMMA SentRefused ==
  ASSUME NEW l \in Links, NEW m, ~Fits(l)
  PROVE  Sent(l, m) = [l EXCEPT !.refused =
           IF m.what \in {"open", "change", "close"} THEN @ \cup {m.file} ELSE @]
BY DEF Sent, Fits

-----------------------------------------------------------------------------
(* The ways a link moves on *)

\* Nothing is told: answers are read, entries go, files are refused.
LEMMA QuietKeeps ==
  ASSUME NEW l, LinkSound(l), NEW r \in Links, Capped(r), Phase(r),
         Running(r) => Running(l), Way(r) = Way(l), r.known = l.known,
         r.answers \subseteq l.answers, r.pend \subseteq l.pend, l.next <= r.next,
         l.opens <= r.opens, l.refused \subseteq r.refused,
         \A g \in Files : r.docs[g].opening <= r.opens,
         \A g \in Files \ r.refused : r.docs[g] = l.docs[g]
  PROVE  LinkSound(r)
<1>0. l \in Links /\ Claimed(l) /\ Editions(l) /\ Questions(l)
  BY DEF LinkSound
<1>1. Claimed(r)
  <2>1. WillKnow(r) = WillKnow(l)
    BY <1>0, WayType
  <2> QED
    BY <1>0, <2>1 DEF Claimed
<1>2. Editions(r)
  <2>1. ASSUME NEW f \in Files, NEW d, Mentions(r, f, d) PROVE Edition(r, f, d)
    <3>1. Mentions(l, f, d)
      BY <2>1 DEF Mentions
    <3>2. Edition(l, f, d) /\ l.opens \in Nat /\ r.opens \in Nat
      BY <1>0, <3>1 DEF Editions, Links
    <3>3. d.opening \in Nat
      <4>1. d \in Doc \cup {NoDoc}
        BY <1>0, <3>1, MentionedType
      <4> QED
        BY <4>1 DEF Doc, NoDoc
    <3> QED
      BY <3>2, <3>3 DEF Edition
  <2> QED
    BY <2>1 DEF Editions
<1>3. Questions(r)
  <2>1. \A m, d : \A p \in r.pend : Suits(l, p, m, d) => Suits(r, p, m, d)
    BY DEF Suits
  <2>2. ASSUME NEW k \in 1..Len(Way(r)), Way(r)[k].what = "ask"
        PROVE  /\ Way(r)[k].id < r.next
               /\ \A p \in r.pend : ~p.old /\ p.id = Way(r)[k].id
                    => Suits(r, p, Way(r)[k], Hearing(r.known, Way(r))[k - 1][Way(r)[k].file])
    <3>1. Way(l)[k] \in Messages /\ l.next \in Nat /\ r.next \in Nat
      BY <1>0, WayType DEF Links
    <3>2. Way(l)[k].id \in Nat /\ Way(l)[k].id < l.next
      BY <1>0, <2>2, <3>1 DEF Messages, Initialize, Questions
    <3> QED
      BY <1>0, <2>1, <2>2, <3>1, <3>2 DEF Questions
  <2>3. ASSUME NEW a \in r.answers, a.what = "reply"
        PROVE  a.id < r.next /\ \A p \in r.pend : ~p.old /\ p.id = a.id => Suits(r, p, a, a.doc)
    <3>1. a \in Answers /\ l.next \in Nat /\ r.next \in Nat
      BY <1>0 DEF Links
    <3>2. a.id \in Nat
      BY <2>3, <3>1 DEF Answers
    <3> QED
      BY <1>0, <2>1, <2>3, <3>1, <3>2 DEF Questions
  <2>4. ASSUME NEW p \in r.pend PROVE IF p.old THEN p.kind \notin ClearedByStop ELSE p.id < r.next
    <3>1. p.id \in Nat /\ l.next \in Nat /\ r.next \in Nat
      BY <1>0 DEF Links, Entries
    <3> QED
      BY <1>0, <2>4, <3>1 DEF Questions
  <2> QED
    BY <2>2, <2>3, <2>4 DEF Questions
<1> QED
  BY <1>1, <1>2, <1>3 DEF LinkSound

\* A document is told of and claimed.
LEMMA ToldKeeps ==
  ASSUME NEW l, LinkSound(l), Running(l), NEW f \in Files, NEW d \in Doc \cup {NoDoc},
         NEW what \in {"open", "change", "close", "save"},
         NEW r \in Links, Running(r), Capped(r), Phase(r),
         Way(r) = Append(Way(l), About(what, f, d)),
         r.known = l.known, r.answers = l.answers, r.pend = l.pend, r.next = l.next,
         r.refused = l.refused, r.docs = [l.docs EXCEPT ![f] = d],
         l.opens <= r.opens, d.opening <= r.opens,
         f \notin l.refused => Heard(WillKnow(l), About(what, f, d))[f] = d,
         f \notin l.refused /\ d # NoDoc =>
           \A x : Mentions(l, f, x) /\ x # NoDoc /\ x.opening = d.opening
                    => x.version < d.version \/ x = d
  PROVE  LinkSound(r)
<1> DEFINE m == About(what, f, d)
           W == Way(l)
           V == Way(r)
<1>0. l \in Links /\ Claimed(l) /\ Editions(l) /\ Questions(l)
  BY DEF LinkSound
<1>1. m \in Messages /\ m.what = what /\ m.file = f /\ m.doc = d
  BY DEF About, Messages
<1>2. /\ W \in Seq(Messages) /\ Len(W) \in Nat /\ l.known \in Docs
      /\ WillKnow(l) = Hearing(l.known, W)[Len(W)] /\ WillKnow(l) \in Docs
  BY <1>0, WayType DEF Links
<1>3. /\ Len(V) = Len(W) + 1 /\ V[Len(W) + 1] = m
      /\ \A k \in 1..Len(W) : V[k] = W[k]
      /\ \A k \in 0..Len(W) : Hearing(l.known, V)[k] = Hearing(l.known, W)[k]
      /\ Hearing(l.known, V)[Len(V)] = Heard(WillKnow(l), m)
  <2> HIDE DEF m, W
  <2> QED BY <1>1, <1>2, HearingAppend DEF m, W
<1>4. WillKnow(r) = Heard(WillKnow(l), m)
  BY <1>3, WayType
<1> HIDE DEF m, W, V
<1>5. \A k \in 1..Len(V) : (k \in 1..Len(W) /\ V[k] = W[k]) \/ (k = Len(W) + 1 /\ V[k] = m)
  BY <1>2, <1>3
<1>6. Claimed(r)
  <2> SUFFICES ASSUME NEW g \in Files \ r.refused PROVE WillKnow(r)[g] = r.docs[g]
    BY DEF Claimed
  <2>1. CASE g = f
    BY <1>0, <1>4, <2>1 DEF m, Links, Docs
  <2>2. CASE g # f
    <3>1. Heard(WillKnow(l), m)[g] = WillKnow(l)[g]
      BY <1>1, <1>2, <2>2, HeardType
    <3> QED
      BY <1>0, <1>4, <2>2, <3>1 DEF Claimed, Links, Docs
  <2> QED
    BY <2>1, <2>2
<1>7. Editions(r)
  <2>0. l.opens \in Nat /\ r.opens \in Nat
    BY <1>0 DEF Links
  <2>1. ASSUME NEW g \in Files PROVE r.docs[g].opening <= r.opens
    <3>1. l.docs[g].opening <= l.opens /\ l.docs[g] \in Doc \cup {NoDoc}
      BY <1>0 DEF Editions, Links, Docs
    <3>2. l.docs[g].opening \in Nat
      BY <3>1 DEF Doc, NoDoc
    <3> QED
      BY <1>0, <2>0, <3>1, <3>2 DEF Links, Docs
  <2>2. ASSUME NEW g \in Files, NEW x, Mentions(r, g, x) PROVE Edition(r, g, x)
    <3>1. Mentions(l, g, x) \/ (g = f /\ x = d)
      BY <1>1, <1>5, <2>2 DEF Mentions, W, V
    <3>2. CASE g = f /\ x = d
      BY <1>0, <3>2 DEF Edition, Links, Docs
    <3>3. CASE Mentions(l, g, x)
      <4>1. Edition(l, g, x) /\ x \in Doc \cup {NoDoc}
        BY <1>0, <3>3, MentionedType DEF Editions
      <4>2. x.opening <= r.opens
        BY <2>0, <4>1 DEF Edition, Doc, NoDoc
      <4>3. CASE g = f
        BY <1>0, <3>3, <4>2, <4>3 DEF Edition, Links, Docs
      <4>4. CASE g # f
        BY <1>0, <4>1, <4>2, <4>4 DEF Edition, Links, Docs
      <4> QED
        BY <4>3, <4>4
    <3> QED
      BY <3>1, <3>2, <3>3
  <2> QED
    BY <2>1, <2>2 DEF Editions
<1>8. Questions(r)
  <2>1. \A p, q, x : Suits(r, p, q, x) <=> Suits(l, p, q, x)
    BY DEF Suits
  <2>2. ASSUME NEW k \in 1..Len(V), V[k].what = "ask"
        PROVE  /\ V[k].id < r.next
               /\ \A p \in r.pend : ~p.old /\ p.id = V[k].id
                    => Suits(r, p, V[k], Hearing(r.known, V)[k - 1][V[k].file])
    <3>1. k \in 1..Len(W) /\ V[k] = W[k]
      BY <1>1, <1>5, <2>2
    <3>2. k - 1 \in 0..Len(W)
      BY <1>2, <3>1
    <3>3. Hearing(r.known, V)[k - 1] = Hearing(l.known, W)[k - 1]
      BY <1>3, <3>2
    <3> QED
      BY <1>0, <2>1, <2>2, <3>1, <3>3 DEF Questions, W
  <2> QED
    BY <1>0, <2>1, <2>2 DEF Questions, V
<1> QED
  BY <1>6, <1>7, <1>8 DEF LinkSound

\* A question goes with the entry that remembers the claim it is about.
LEMMA AskedKeeps ==
  ASSUME NEW l, LinkSound(l), Running(l), NEW f \in Files, NEW kind \in Kinds,
         NEW entry \in Entries, ~entry.old, entry.id = l.next, entry.kind = kind,
         entry.file = f,
         f \notin l.refused =>
           entry.version = l.docs[f].version /\ entry.opening = l.docs[f].opening,
         NEW r \in Links, Running(r), Capped(r), Phase(r),
         Way(r) = Append(Way(l), Question(kind, l.next, f)),
         r.known = l.known, r.answers = l.answers, r.opens = l.opens,
         r.pend \subseteq l.pend \cup {entry}, r.next = l.next + 1,
         r.refused = l.refused, \A g \in Files \ l.refused : r.docs[g] = l.docs[g],
         \A g \in Files : r.docs[g].opening <= r.opens
  PROVE  LinkSound(r)
<1> DEFINE m == Question(kind, l.next, f)
           W == Way(l)
           V == Way(r)
<1>0. l \in Links /\ Claimed(l) /\ Editions(l) /\ Questions(l)
  BY DEF LinkSound
<1>1. /\ m \in Messages /\ m.what = "ask" /\ m.file = f /\ m.kind = kind /\ m.id = l.next
      /\ l.next \in Nat
  BY <1>0 DEF Question, Messages, Links
<1>2. /\ W \in Seq(Messages) /\ Len(W) \in Nat /\ l.known \in Docs
      /\ WillKnow(l) = Hearing(l.known, W)[Len(W)] /\ WillKnow(l) \in Docs
  BY <1>0, WayType DEF Links
<1>3. /\ Len(V) = Len(W) + 1 /\ V[Len(W) + 1] = m
      /\ \A k \in 1..Len(W) : V[k] = W[k]
      /\ \A k \in 0..Len(W) : Hearing(l.known, V)[k] = Hearing(l.known, W)[k]
      /\ Hearing(l.known, V)[Len(V)] = Heard(WillKnow(l), m)
  <2> HIDE DEF m, W
  <2> QED BY <1>1, <1>2, HearingAppend DEF m, W
<1>4. WillKnow(r) = WillKnow(l)
  <2>1. WillKnow(r) = Heard(WillKnow(l), m)
    BY <1>3, WayType
  <2> HIDE DEF m
  <2> QED
    BY <1>1, <1>2, <2>1, HeardType
<1> HIDE DEF m, W, V
<1>5. \A k \in 1..Len(V) : (k \in 1..Len(W) /\ V[k] = W[k]) \/ (k = Len(W) + 1 /\ V[k] = m)
  BY <1>2, <1>3
<1>6. Claimed(r)
  BY <1>0, <1>4 DEF Claimed
<1>7. Editions(r)
  <2>1. ASSUME NEW g \in Files, NEW x, Mentions(r, g, x) PROVE Edition(r, g, x)
    <3>1. Mentions(l, g, x)
      BY <1>1, <1>5, <2>1 DEF Mentions, W, V
    <3> QED
      BY <1>0, <3>1 DEF Editions, Edition
  <2> QED
    BY <2>1 DEF Editions
<1>8. \A p, q, x : Suits(r, p, q, x) <=> Suits(l, p, q, x)
  BY DEF Suits
<1>9. \A p \in l.pend : ~p.old => p.id < l.next
  BY <1>0 DEF Questions
<1>10. ASSUME NEW k \in 1..Len(V), V[k].what = "ask"
       PROVE  /\ V[k].id < r.next
              /\ \A p \in r.pend : ~p.old /\ p.id = V[k].id
                   => Suits(r, p, V[k], Hearing(r.known, V)[k - 1][V[k].file])
  <2>1. CASE k \in 1..Len(W) /\ V[k] = W[k]
    <3>1. k - 1 \in 0..Len(W)
      BY <1>2, <2>1
    <3>2. Hearing(r.known, V)[k - 1] = Hearing(l.known, W)[k - 1]
      BY <1>3, <3>1
    <3>3. V[k] \in Messages
      BY <1>0, <2>1, WayType DEF W
    <3>4. V[k].id \in Nat /\ V[k].id < l.next
      BY <1>0, <1>10, <2>1, <3>3 DEF Questions, W, Messages, Initialize
    <3>5. \A p \in r.pend : p.id = V[k].id => p \in l.pend
      BY <1>1, <3>4
    <3>6. \A p \in l.pend : ~p.old /\ p.id = V[k].id
            => Suits(l, p, V[k], Hearing(l.known, W)[k - 1][V[k].file])
      BY <1>0, <1>10, <2>1 DEF Questions, W
    <3> QED
      BY <1>1, <1>8, <3>2, <3>4, <3>5, <3>6
  <2>2. CASE k = Len(W) + 1 /\ V[k] = m
    <3>1. k - 1 = Len(W) /\ Len(W) \in 0..Len(W)
      BY <1>2, <2>2
    <3>2. Hearing(r.known, V)[k - 1] = WillKnow(l)
      BY <1>2, <1>3, <3>1
    <3>3. \A p \in r.pend : ~p.old /\ p.id = l.next => p = entry
      BY <1>1, <1>9
    <3>4. f \notin l.refused => WillKnow(l)[f] = l.docs[f]
      BY <1>0 DEF Claimed
    <3>5. Suits(l, entry, m, WillKnow(l)[f])
      BY <1>1, <3>4 DEF Suits
    <3> QED
      BY <1>1, <1>8, <2>2, <3>2, <3>3, <3>5
  <2> QED
    BY <1>5, <2>1, <2>2
<1>11. ASSUME NEW a \in r.answers, a.what = "reply"
       PROVE  a.id < r.next /\ \A p \in r.pend : ~p.old /\ p.id = a.id => Suits(r, p, a, a.doc)
  <2>1. a \in Answers
    BY <1>0 DEF Links
  <2>2. a.id \in Nat /\ a.id < l.next
    BY <1>0, <1>11, <2>1 DEF Questions, Answers
  <2>3. \A p \in r.pend : p.id = a.id => p \in l.pend
    BY <1>1, <2>2
  <2>4. \A p \in l.pend : ~p.old /\ p.id = a.id => Suits(l, p, a, a.doc)
    BY <1>0, <1>11 DEF Questions
  <2> QED
    BY <1>1, <1>8, <2>2, <2>3, <2>4
<1>12. ASSUME NEW p \in r.pend PROVE IF p.old THEN p.kind \notin ClearedByStop ELSE p.id < r.next
  <2>1. CASE p = entry
    BY <1>1, <2>1
  <2>2. CASE p \in l.pend
    <3>1. p.id \in Nat /\ IF p.old THEN p.kind \notin ClearedByStop ELSE p.id < l.next
      BY <1>0, <2>2 DEF Questions, Links, Entries
    <3> QED
      BY <1>1, <3>1
  <2> QED
    BY <2>1, <2>2
<1>13. Questions(r)
  BY <1>10, <1>11, <1>12 DEF Questions, V
<1> QED
  BY <1>6, <1>7, <1>13 DEF LinkSound

\* What is read has been on its way, and what it is answered with was held then.
LEMMA ServedKeeps ==
  ASSUME NEW l, LinkSound(l), Running(l), l.sent # <<>>, NEW ok \in BOOLEAN,
         NEW r, r = [l EXCEPT !.sent = Tail(@), !.known = Heard(@, Head(l.sent)),
           !.answers = @ \cup
             CASE Head(l.sent).what = "init" -> {[what |-> "init", ok |-> ok]}
               [] Head(l.sent).what = "ask" -> {Reply(Head(l.sent), l.known)}
               [] OTHER -> {}]
  PROVE  LinkSound(r)
<1> DEFINE m == Head(l.sent)
           W == Way(l)
           V == Way(r)
           answer == CASE m.what = "init" -> {[what |-> "init", ok |-> ok]}
                       [] m.what = "ask" -> {Reply(m, l.known)}
                       [] OTHER -> {}
<1>0. /\ l \in Links /\ Claimed(l) /\ Editions(l) /\ Questions(l) /\ Phase(l) /\ Capped(l)
      /\ l.sent \in Seq(Messages) /\ l.queue \in Seq(Messages) /\ l.known \in Docs
  BY DEF LinkSound, Links
<1>1. /\ W \in Seq(Messages) /\ Len(W) \in Nat /\ W # <<>>
      /\ Head(W) = m /\ Tail(W) = Tail(l.sent) \o l.queue /\ m \in Messages
  <2> DEFINE s == l.sent
             q == l.queue
  <2>1. s \in Seq(Messages) /\ q \in Seq(Messages) /\ s # <<>>
    BY <1>0
  <2>2. /\ Head(s \o q) = Head(s) /\ Tail(s \o q) = Tail(s) \o q
        /\ s \o q # <<>> /\ Head(s) \in Messages
    <3> HIDE DEF s, q
    <3> QED BY <2>1, HeadBehind
  <2> QED
    BY <1>0, <2>2, WayType DEF Way
<1> HIDE DEF m
<1>2. /\ answer \subseteq Answers
      /\ \A a \in answer : a.what \in {"init", "reply"}
      /\ \A a \in answer : a.what = "reply" =>
           /\ m.what = "ask" /\ m.file \in Files /\ m.id \in Nat
           /\ a.file = m.file /\ a.kind = m.kind /\ a.id = m.id /\ a.doc = l.known[m.file]
      /\ m = Initialize => \A a \in answer : a.what = "init"
  <2>1. CASE m = Initialize
    BY <2>1 DEF Answers, Initialize
  <2>2. CASE m \in [what : {"ask"}, file : Files, kind : Kinds, id : Nat]
    <3>1. answer = {Reply(m, l.known)} /\ m.what = "ask"
      BY <2>2
    <3>2. Reply(m, l.known) \in [what : {"reply"}, id : Nat, kind : Kinds, file : Files,
                                doc : Doc \cup {NoDoc}]
      BY <1>0, <2>2 DEF Reply, Docs
    <3> HIDE DEF answer
    <3> QED
      BY <2>2, <3>1, <3>2 DEF Answers, Reply, Initialize
  <2>3. CASE m \in [what : {"open", "change", "close", "save"}, file : Files,
                     doc : Doc \cup {NoDoc}]
    BY <2>3
  <2> QED
    BY <1>1, <2>1, <2>2, <2>3 DEF Messages
<1> HIDE DEF answer
<1>3. Tail(l.sent) \in Seq(Messages) /\ Heard(l.known, m) \in Docs
  BY <1>0, <1>1, HeardType, HeadTailProperties
<1>4. /\ r = [l EXCEPT !.sent = Tail(l.sent), !.known = Heard(l.known, m),
                       !.answers = l.answers \cup answer]
      /\ r \in Links
  BY <1>0, <1>2, <1>3 DEF Links, answer, m
<1>5. /\ r.status = l.status /\ r.docs = l.docs /\ r.pend = l.pend /\ r.next = l.next
      /\ r.queue = l.queue /\ r.opens = l.opens /\ r.refused = l.refused
      /\ r.sent = Tail(l.sent) /\ r.known = Heard(l.known, m)
      /\ r.answers = l.answers \cup answer /\ r.applied = l.applied
  BY <1>0, <1>4 DEF Links
<1> USE <1>5
<1>6. /\ V = Tail(W) /\ W[1] = m /\ Len(V) = Len(W) - 1 /\ Len(W) \in Nat \ {0}
      /\ \A k \in 1..Len(V) : V[k] = W[k + 1]
      /\ \A k \in 0..Len(V) : Hearing(r.known, V)[k] = Hearing(l.known, W)[k + 1]
  <2>1. V = Tail(W)
    BY <1>1 DEF Way
  <2> HIDE DEF W, V
  <2> QED
    BY <1>0, <1>1, <2>1, HearingTail
<1>7. WillKnow(r) = WillKnow(l)
  <2>1. WillKnow(r) = Hearing(r.known, V)[Len(V)] /\ WillKnow(l) = Hearing(l.known, W)[Len(W)]
    BY <1>0, <1>4, WayType
  <2> HIDE DEF W, V
  <2>2. Len(V) \in 0..Len(V) /\ Len(V) + 1 = Len(W)
    BY <1>6
  <2> QED
    BY <1>6, <2>1, <2>2
<1> HIDE DEF W, V
<1>8. Capped(r) /\ Claimed(r)
  BY <1>0, <1>7 DEF Capped, Claimed, Running
<1>9. Phase(r)
  <2>1. l.status = "starting" =>
          /\ m = Initialize /\ \A k \in 1..Len(Tail(l.sent)) : Tail(l.sent)[k] = Initialize
    <3>1. /\ Head(l.sent) = l.sent[1] /\ Len(Tail(l.sent)) = Len(l.sent) - 1
          /\ Len(l.sent) \in Nat \ {0}
          /\ \A k \in 1..Len(Tail(l.sent)) : Tail(l.sent)[k] = l.sent[k + 1]
      BY <1>0, HearingTail
    <3>2. 1 \in 1..Len(l.sent) /\ \A k \in 1..Len(Tail(l.sent)) : k + 1 \in 1..Len(l.sent)
      BY <3>1
    <3> QED
      BY <1>0, <3>1, <3>2 DEF Phase, m
  <2>2. Heard(NoDocs, Initialize) = NoDocs
    BY DEF Heard, Initialize
  <2> QED
    BY <1>0, <1>2, <2>1, <2>2 DEF Phase, Running
<1>10. Editions(r)
  <2>1. ASSUME NEW f \in Files, NEW d, Mentions(r, f, d) PROVE Edition(r, f, d)
    <3>1. Mentions(l, f, d) \/ d = NoDoc
      <4>1. CASE d = r.known[f]
        <5>1. \/ d \in {l.known[f], NoDoc}
              \/ m.what \in {"open", "change", "close", "save"} /\ m.file = f /\ d = m.doc
          <6>1. d = Heard(l.known, m)[f]
            BY <4>1
          <6>2. l.known \in Docs /\ m \in Messages
            BY <1>0, <1>1
          <6>3. \/ Heard(l.known, m)[f] \in {l.known[f], NoDoc}
                \/ /\ m.what \in {"open", "change", "close", "save"}
                   /\ m.file = f /\ Heard(l.known, m)[f] = m.doc
            BY <6>2, HeardType
          <6> QED
            BY <6>1, <6>3
        <5>2. 1 \in 1..Len(W) /\ W[1] = m
          BY <1>6
        <5> QED
          BY <5>1, <5>2 DEF Mentions, W
      <4>2. ASSUME NEW k \in 1..Len(V), V[k].what \in {"open", "change", "close", "save"},
                   V[k].file = f, d = V[k].doc
            PROVE  Mentions(l, f, d)
        <5>1. k + 1 \in 1..Len(W) /\ W[k + 1] = V[k]
          BY <1>6
        <5> QED
          BY <4>2, <5>1 DEF Mentions, W
      <4>3. ASSUME NEW a \in r.answers, a.what \in {"publish", "reply"}, a.file = f, d = a.doc
            PROVE  Mentions(l, f, d)
        <5>1. a \in l.answers \/ d = l.known[f]
          BY <1>2, <4>3
        <5> QED
          BY <4>3, <5>1 DEF Mentions
      <4> QED
        BY <2>1, <4>1, <4>2, <4>3 DEF Mentions, V
    <3>2. l.opens \in Nat
      BY <1>0 DEF Links
    <3> QED
      BY <1>0, <3>1, <3>2 DEF Editions, Edition, NoDoc
  <2> QED
    BY <1>0, <2>1 DEF Editions
<1>11. \A p, q, x : Suits(r, p, q, x) <=> Suits(l, p, q, x)
  BY DEF Suits
<1>12. ASSUME NEW k \in 1..Len(V), V[k].what = "ask"
       PROVE  /\ V[k].id < r.next
              /\ \A p \in r.pend : ~p.old /\ p.id = V[k].id
                   => Suits(r, p, V[k], Hearing(r.known, V)[k - 1][V[k].file])
  <2>1. k + 1 \in 1..Len(W) /\ W[k + 1] = V[k] /\ k - 1 \in 0..Len(V) /\ (k + 1) - 1 = (k - 1) + 1
    BY <1>6
  <2>2. Hearing(r.known, V)[k - 1] = Hearing(l.known, W)[(k + 1) - 1]
    BY <1>6, <2>1
  <2>3. /\ W[k + 1].id < l.next
        /\ \A p \in l.pend : ~p.old /\ p.id = W[k + 1].id
             => Suits(l, p, W[k + 1], Hearing(l.known, W)[(k + 1) - 1][W[k + 1].file])
    BY <1>0, <1>12, <2>1 DEF Questions, W
  <2> QED
    BY <1>11, <2>1, <2>2, <2>3
<1>13. ASSUME NEW a \in r.answers, a.what = "reply"
       PROVE  a.id < r.next /\ \A p \in r.pend : ~p.old /\ p.id = a.id => Suits(r, p, a, a.doc)
  <2>1. CASE a \in l.answers
    BY <1>0, <1>11, <1>13, <2>1 DEF Questions
  <2>2. CASE a \in answer
    <3>1. 1 \in 1..Len(W) /\ W[1] = m /\ Hearing(l.known, W)[1 - 1] = l.known
      <4>1. Hearing(l.known, W)[0] = l.known
        BY <1>0, <1>1, HearingSteps
      <4>2. 1 \in 1..Len(W) /\ 1 - 1 = 0
        BY <1>6
      <4> QED
        BY <1>6, <4>1, <4>2
    <3>2. /\ m.id < l.next
          /\ \A p \in l.pend : ~p.old /\ p.id = m.id => Suits(l, p, m, l.known[m.file])
      BY <1>0, <1>2, <1>13, <2>2, <3>1 DEF Questions, W
    <3> QED
      BY <1>2, <1>11, <1>13, <2>2, <3>2 DEF Suits
  <2> QED
    BY <2>1, <2>2
<1>14. Questions(r)
  BY <1>0, <1>12, <1>13 DEF Questions, V
<1> QED
  BY <1>0, <1>4, <1>8, <1>9, <1>10, <1>14 DEF LinkSound

-----------------------------------------------------------------------------
(* The handlers of the client *)

\* The entries that a stop leaves are capped, and marked as of the old process.
Survivors(S) ==
  /\ S \in SUBSET Entries /\ IsFiniteSet(S)
  /\ \A kind \in Kinds : Cardinality(OfKind(S, kind)) <= MaxPending
  /\ \A p \in S : p.old /\ p.kind \notin ClearedByStop

\* The only message on the way is `initialize'.
LEMMA FirstHearing ==
  ASSUME NEW ms \in Seq(Messages), ms = <<>> \/ ms = <<Initialize>>
  PROVE  /\ Len(ms) \in 0..1 /\ \A k \in 1..Len(ms) : ms[k] = Initialize
         /\ Hearing(NoDocs, ms)[Len(ms)] = NoDocs
<1>1. NoDocs \in Docs /\ Heard(NoDocs, Initialize) = NoDocs
  BY NoDocIsNone DEF Heard, Initialize
<1>2. CASE ms = <<>>
  <2>1. Len(ms) = 0
    BY <1>2
  <2>2. Hearing(NoDocs, ms)[0] = NoDocs
    BY <1>1, HearingSteps
  <2> QED
    BY <2>1, <2>2
<1>3. CASE ms = <<Initialize>>
  <2>1. Len(ms) = 1 /\ ms[1] = Initialize
    BY <1>3
  <2>2. 1 \in 1..Len(ms) /\ 1 - 1 = 0
    BY <2>1
  <2>3. Hearing(NoDocs, ms)[1] = Heard(Hearing(NoDocs, ms)[0], ms[1])
    BY <1>1, <2>2, HearingSteps
  <2>4. Hearing(NoDocs, ms)[0] = NoDocs
    BY <1>1, HearingSteps
  <2> QED
    BY <1>1, <2>1, <2>3, <2>4
<1> QED
  BY <1>2, <1>3

\* A process that has just been started, or is gone, is in order.
LEMMA BlankSound ==
  ASSUME NEW r \in Links, Survivors(r.pend), r.docs = NoDocs, r.known = NoDocs,
         r.answers = {}, r.queue = <<>>, r.next = 2, r.opens = 0,
         \/ r.status = "starting" /\ r.sent = <<Initialize>>
         \/ r.status \in {"absent", "stopped"} /\ r.sent = <<>>
  PROVE  LinkSound(r)
<1> DEFINE ms == r.sent
<1>1. ms \in Seq(Messages) /\ (ms = <<>> \/ ms = <<Initialize>>)
  BY DEF Links
<1> HIDE DEF ms
<1>2. r.sent = ms
  BY DEF ms
<1>3. Way(r) = ms
  BY <1>1, <1>2, ConcatEmptySeq DEF Way
<1>4. /\ Len(ms) \in 0..1 /\ \A k \in 1..Len(ms) : ms[k] = Initialize
      /\ Hearing(NoDocs, ms)[Len(ms)] = NoDocs
  BY <1>1, FirstHearing
<1>5. Capped(r)
  BY BoundsAssumption DEF Capped, Survivors
<1>6. Phase(r)
  BY <1>2, <1>4 DEF Phase, Running
<1>7. Claimed(r)
  BY <1>3, <1>4, WayType DEF Claimed
<1>8. Editions(r)
  <2>1. ASSUME NEW f \in Files, NEW d, Mentions(r, f, d) PROVE d = NoDoc
    BY <1>3, <1>4, <2>1 DEF Mentions, Initialize, NoDocs
  <2> QED
    BY <2>1 DEF Editions, Edition, NoDocs, NoDoc
<1>9. Questions(r)
  BY <1>3, <1>4 DEF Questions, Initialize, Survivors
<1> QED
  BY <1>5, <1>6, <1>7, <1>8, <1>9 DEF LinkSound

\* The tables after start().
LEMMA FreshFields ==
  ASSUME NEW S
  PROVE  /\ Fresh(S).status = "starting" /\ Fresh(S).docs = NoDocs /\ Fresh(S).known = NoDocs
         /\ Fresh(S).answers = {} /\ Fresh(S).pend = S /\ Fresh(S).next = 2
         /\ Fresh(S).queue = <<>> /\ Fresh(S).opens = 0 /\ Fresh(S).sent = <<Initialize>>
         /\ S \in SUBSET Entries => Fresh(S) \in Links
<1>1. <<Initialize>> \in Seq(Messages) /\ <<>> \in Seq(Messages) /\ NoDocs \in Docs
  BY NoDocIsNone DEF Messages
<1> QED
  BY <1>1 DEF Fresh, Links

\* No entry is a survivor too.
LEMMA NoSurvivors == Survivors({})
<1>1. \A kind \in Kinds : OfKind({}, kind) = {}
  BY DEF OfKind
<1> QED
  BY <1>1, FS_EmptySet, BoundsAssumption DEF Survivors

\* A server that is built, and one that is not, are in order.
LEMMA FreshSound ==
  ASSUME NEW S, Survivors(S)
  PROVE  /\ LinkSound(Fresh(S)) /\ Fresh(S).docs = NoDocs /\ Fresh(S).answers = {}
         /\ Fresh(S).status = "starting"
BY BlankSound, FreshFields DEF Survivors

\* So is one that has never been built.
LEMMA NoLinkSound ==
  LinkSound(NoLink) /\ NoLink.docs = NoDocs /\ ~Running(NoLink) /\ NoLink.status = "absent"
<1> DEFINE r == [Fresh({}) EXCEPT !.status = "absent", !.sent = <<>>]
<1>1. Survivors({}) /\ <<>> \in Seq(Messages)
  BY NoSurvivors
<1>2. /\ r.status = "absent" /\ r.sent = <<>> /\ r.docs = NoDocs /\ r.known = NoDocs
      /\ r.answers = {} /\ r.pend = {} /\ r.next = 2 /\ r.queue = <<>> /\ r.opens = 0
      /\ r \in Links
  <2> DEFINE l == Fresh({})
  <2>1. /\ l \in Links /\ l.docs = NoDocs /\ l.known = NoDocs /\ l.answers = {} /\ l.pend = {}
        /\ l.next = 2 /\ l.queue = <<>> /\ l.opens = 0
        /\ r = [l EXCEPT !.status = "absent", !.sent = <<>>]
    BY FreshFields
  <2> HIDE DEF l, r
  <2>2. r \in Links
    BY <1>1, <2>1 DEF Links
  <2> QED
    BY <2>1, <2>2 DEF Links
<1> HIDE DEF r
<1>3. LinkSound(r)
  BY <1>1, <1>2, BlankSound
<1> QED
  BY <1>2, <1>3 DEF NoLink, Running, r

\* What a stop leaves keeps to its caps.
LEMMA StoppedSound ==
  ASSUME NEW l, LinkSound(l)
  PROVE  /\ LinkSound(Stopped(l)) /\ Survivors(Stopped(l).pend)
         /\ Stopped(l).status = "stopped" /\ Stopped(l).docs = NoDocs
<1> DEFINE mark(p) == [p EXCEPT !.old = TRUE, !.opening = 0]
           Q == {q \in l.pend : q.kind \notin ClearedByStop}
           S == {[p EXCEPT !.old = TRUE, !.opening = 0] : p \in Q}
<1>0. l.pend \in SUBSET Entries /\ Capped(l)
  BY DEF LinkSound, Links
<1>1. Q \in SUBSET Entries /\ Q \in SUBSET l.pend
  BY <1>0
<1>2. S \in SUBSET Entries /\ \A p \in S : p.old /\ p.kind \notin ClearedByStop
  <2>1. ASSUME NEW p \in Q
        PROVE  mark(p) \in Entries /\ mark(p).old /\ mark(p).kind = p.kind
    BY <1>1 DEF Entries
  <2>2. \A p \in Q : p.kind \notin ClearedByStop
    OBVIOUS
  <2>3. \A x \in S : \E p \in Q : x = mark(p)
    OBVIOUS
  <2> HIDE DEF S, Q, mark
  <2> QED
    BY <2>1, <2>2, <2>3
<1>3. ASSUME NEW T \in SUBSET l.pend
      PROVE  /\ IsFiniteSet({mark(p) : p \in T})
             /\ Cardinality({mark(p) : p \in T}) <= Cardinality(T)
  <2> DEFINE M == {mark(p) : p \in T}
             g == [p \in T |-> mark(p)]
  <2>1. g \in Surjection(T, M)
    BY DEF Surjection
  <2>2. IsFiniteSet(T)
    BY <1>0, FS_Subset DEF Capped
  <2> HIDE DEF g, M
  <2>3. IsFiniteSet(M) /\ Cardinality(M) <= Cardinality(T)
    BY <2>1, <2>2, FS_Surjection
  <2> QED
    BY <2>3 DEF M
<1>4. IsFiniteSet(S)
  BY <1>1, <1>3
<1>5. ASSUME NEW kind \in Kinds PROVE Cardinality(OfKind(S, kind)) <= MaxPending
  <2> DEFINE T == OfKind(l.pend, kind)
             M == {mark(p) : p \in T}
  <2>1. T \in SUBSET l.pend /\ IsFiniteSet(T) /\ Cardinality(T) <= MaxPending
    BY <1>0, FS_Subset DEF Capped, OfKind
  <2>2. IsFiniteSet(M) /\ Cardinality(M) <= Cardinality(T)
    BY <1>3, <2>1
  <2>3. OfKind(S, kind) \in SUBSET M
    <3> SUFFICES ASSUME NEW x \in OfKind(S, kind) PROVE x \in M
      OBVIOUS
    <3>1. PICK p \in Q : x = mark(p)
      BY DEF OfKind
    <3>2. p.kind = kind
      BY <1>1, <3>1 DEF OfKind, Entries
    <3> QED
      BY <3>1, <3>2 DEF OfKind
  <2>4. Cardinality(OfKind(S, kind)) <= Cardinality(M)
    <3> HIDE DEF M, S
    <3> QED BY <2>2, <2>3, FS_Subset
  <2>5. /\ Cardinality(OfKind(S, kind)) \in Nat /\ Cardinality(M) \in Nat
        /\ Cardinality(T) \in Nat /\ MaxPending \in Nat
    <3>1. IsFiniteSet(OfKind(S, kind))
      <4> HIDE DEF M, S
      <4> QED BY <2>2, <2>3, FS_Subset
    <3> HIDE DEF M, S, T
    <3> QED
      BY <2>1, <2>2, <3>1, FS_CardinalityType, BoundsAssumption
  <2> HIDE DEF M, S, T
  <2> QED
    BY <2>1, <2>2, <2>4, <2>5
<1> HIDE DEF S, mark
<1>6. Survivors(S)
  BY <1>2, <1>4, <1>5 DEF Survivors
<1> DEFINE r == [Fresh(S) EXCEPT !.status = "stopped", !.sent = <<>>]
<1>7. /\ r.status = "stopped" /\ r.sent = <<>> /\ r.docs = NoDocs /\ r.known = NoDocs
      /\ r.answers = {} /\ r.pend = S /\ r.next = 2 /\ r.queue = <<>> /\ r.opens = 0
      /\ r \in Links
  <2> DEFINE b == Fresh(S)
  <2>1. /\ b \in Links /\ b.docs = NoDocs /\ b.known = NoDocs /\ b.answers = {} /\ b.pend = S
        /\ b.next = 2 /\ b.queue = <<>> /\ b.opens = 0
        /\ r = [b EXCEPT !.status = "stopped", !.sent = <<>>]
    BY <1>2, FreshFields
  <2> HIDE DEF b, r
  <2>2. r \in Links
    <3>1. <<>> \in Seq(Messages)
      OBVIOUS
    <3> QED
      BY <2>1, <3>1 DEF Links
  <2> QED
    BY <2>1, <2>2 DEF Links
<1>8. LinkSound(r)
  <2> HIDE DEF r
  <2> QED BY <1>6, <1>7, BlankSound
<1>9. Stopped(l) = r
  BY DEF Stopped, S
<1> QED
  BY <1>6, <1>7, <1>8, <1>9

\* A restart is a stop and a start.
LEMMA RestartedSound ==
  ASSUME NEW l, LinkSound(l)
  PROVE  LinkSound(Restarted(l)) /\ Restarted(l).docs = NoDocs /\ Running(Restarted(l))
BY StoppedSound, FreshSound DEF Restarted, Running

\* The server is ready: what waited is sent.
LEMMA ReadySound ==
  ASSUME NEW l, LinkSound(l), Running(l)
  PROVE  /\ LinkSound(Ready(l)) /\ Ready(l).docs = l.docs /\ Ready(l).refused = l.refused
         /\ Ready(l).applied = l.applied /\ Ready(l).opens = l.opens
         /\ Ready(l).status = "ready" /\ Running(Ready(l))
<1> DEFINE r == Ready(l)
           w == l.sent \o l.queue
<1>0. l \in Links /\ Capped(l) /\ Phase(l) /\ Editions(l)
  BY DEF LinkSound
<1>1. w \in Seq(Messages) /\ Way(l) = w
  BY <1>0, WayType DEF Way
<1>2. r = [l EXCEPT !.status = "ready", !.sent = w, !.queue = <<>>]
  BY DEF Ready
<1> HIDE DEF r, w
<1>10. r \in Links
  <2> HIDE DEF Way
  <2>1. <<>> \in Seq(Messages)
    OBVIOUS
  <2> QED
    BY <1>0, <1>1, <1>2, <2>1 DEF Links
<1>3. /\ r.status = "ready" /\ r.docs = l.docs /\ r.applied = l.applied /\ r.pend = l.pend
      /\ r.next = l.next /\ r.queue = <<>> /\ r.opens = l.opens /\ r.refused = l.refused
      /\ r.sent = w /\ r.known = l.known /\ r.answers = l.answers
  BY <1>0, <1>2 DEF Links
<1>4. Way(r) = Way(l)
  BY <1>1, <1>3, ConcatEmptySeq DEF Way
<1>5. Capped(r) /\ Phase(r) /\ Running(r)
  BY <1>0, <1>3, BoundsAssumption DEF Capped, Phase, Running
<1>6. \A g \in Files : r.docs[g].opening <= r.opens
  BY <1>0, <1>3 DEF Editions
<1>7. l.next <= r.next /\ l.opens <= r.opens
  BY <1>0, <1>3 DEF Links
<1>8. LinkSound(r)
  BY <1>3, <1>4, <1>5, <1>6, <1>7, <1>10, QuietKeeps
<1> QED
  BY <1>3, <1>5, <1>8 DEF r

-----------------------------------------------------------------------------
(* The documents of a server *)

\* A handler about f moved the link of a running process on: the process, what it
\* holds and what it answered stay, and so do the documents of other files; a
\* claim of f is of the opening it was, with what was applied of it, or of a new one.
Moved(l, r, f) ==
  /\ r.status = l.status /\ r.known = l.known /\ r.answers = l.answers
  /\ l.refused \subseteq r.refused /\ l.opens <= r.opens
  /\ \A g \in Files \ {f} : r.docs[g] = l.docs[g] /\ r.applied[g] = l.applied[g]
  /\ \/ r.docs[f] = NoDoc \/ l.status = "starting" \/ l.opens < r.docs[f].opening
     \/ /\ l.docs[f] # NoDoc /\ r.docs[f].opening = l.docs[f].opening
        /\ r.applied[f] = l.applied[f]

\* So what is kept of its findings is still right.
LEMMA MovedApplied ==
  ASSUME NEW l \in Links, NEW r \in Links, NEW f \in Files, Moved(l, r, f),
         NEW kept \in Slices, Applied(l, kept)
  PROVE  Applied(r, kept)
<1> SUFFICES ASSUME Running(r)
             PROVE  /\ r.status = "starting" => kept = NoSlices
                    /\ \A g \in Files : LET d == kept[g].of IN d # NoDoc =>
                         /\ d.opening <= r.opens
                         /\ r.docs[g] # NoDoc /\ d.opening = r.docs[g].opening
                              => r.applied[g] >= d.version
  BY DEF Applied
<1>1. /\ l.status = "starting" => kept = NoSlices
      /\ \A g \in Files : LET d == kept[g].of IN d # NoDoc =>
           /\ d.opening <= l.opens
           /\ l.docs[g] # NoDoc /\ d.opening = l.docs[g].opening => l.applied[g] >= d.version
  BY DEF Applied, Moved, Running
<1>2. ASSUME NEW g \in Files, kept[g].of # NoDoc
      PROVE  /\ kept[g].of.opening <= r.opens
             /\ r.docs[g] # NoDoc /\ kept[g].of.opening = r.docs[g].opening
                  => r.applied[g] >= kept[g].of.version
  <2>1. /\ kept[g].of.opening \in Nat /\ l.opens \in Nat /\ r.opens \in Nat
        /\ l.opens <= r.opens /\ kept[g].of.opening <= l.opens
    BY <1>1, <1>2 DEF Slices, Doc, Links, Moved
  <2>2. l.status # "starting"
    BY <1>1, <1>2 DEF NoSlices, NoFindings
  <2>3. r.docs[g] # NoDoc => r.docs[g].opening \in Nat
    BY DEF Links, Docs, Doc
  <2> QED
    BY <1>1, <1>2, <2>1, <2>2, <2>3 DEF Moved
<1> QED
  BY <1>1, <1>2 DEF Moved

\* What the tables claim plays no part in the phase, the caps and the way.
LEMMA SameTraffic ==
  ASSUME NEW l \in Links, Running(l), Phase(l), Capped(l), NEW r \in Links,
         r.status = l.status, r.sent = l.sent, r.queue = l.queue, r.known = l.known,
         r.answers = l.answers, r.pend = l.pend
  PROVE  Running(r) /\ Phase(r) /\ Capped(r) /\ Way(r) = Way(l)
BY DEF Running, Phase, Capped, Way

\* A refused message leaves the claims of other files right.
LEMMA RefusedKeeps ==
  ASSUME NEW l, LinkSound(l), Running(l), NEW f \in Files, NEW r \in Links,
         r.status = l.status, r.sent = l.sent, r.queue = l.queue, r.known = l.known,
         r.answers = l.answers, r.pend = l.pend, r.next = l.next, r.opens = l.opens,
         r.refused = l.refused \cup {f}, \A g \in Files \ {f} : r.docs[g] = l.docs[g],
         r.docs[f].opening <= r.opens
  PROVE  LinkSound(r)
<1>1. l \in Links /\ Phase(l) /\ Capped(l) /\ Editions(l)
  BY DEF LinkSound
<1>2. Running(r) /\ Phase(r) /\ Capped(r) /\ Way(r) = Way(l)
  BY <1>1, SameTraffic
<1>3. l.next <= r.next /\ l.opens <= r.opens
  BY <1>1 DEF Links
<1>4. \A g \in Files : r.docs[g].opening <= r.opens
  BY <1>1 DEF Editions
<1> QED
  BY <1>2, <1>3, <1>4, QuietKeeps

\* A document is opened, or refused.
LEMMA OpenedSound ==
  ASSUME NEW l, LinkSound(l), Running(l), NEW f \in Files, l.docs[f] = NoDoc,
         NEW t \in Texts \cup {NoText}
  PROVE  LET r == Opened(l, f, t) IN
         /\ LinkSound(r) /\ Moved(l, r, f)
         /\ r.next = l.next /\ r.pend = l.pend
         /\ \/ r.docs[f] # NoDoc /\ r.docs[f].text = t
            \/ r.docs[f] = NoDoc /\ f \in r.refused /\ ~Fits(r)
<1> DEFINE doc == [version |-> 1, text |-> t, opening |-> l.opens + 1]
           m == About("open", f, doc)
           out == Sent(l, m)
           r == Opened(l, f, t)
<1>0. /\ l \in Links /\ Phase(l) /\ Capped(l) /\ Editions(l)
      /\ l.opens \in Nat /\ l.docs \in Docs /\ l.applied \in [Files -> Nat \cup {-1}]
  BY DEF LinkSound, Links
<1>1. doc \in Doc /\ doc # NoDoc /\ doc.opening = l.opens + 1 /\ doc.text = t /\ doc.version = 1
  BY <1>0 DEF Doc, NoDoc
<1> HIDE DEF doc
<1>2. m \in Messages /\ m.what = "open" /\ m.file = f /\ m.doc = doc
  BY <1>1 DEF About, Messages
<1>3. CASE Fits(l)
  <2>1. /\ out \in Links /\ Way(out) = Append(Way(l), m) /\ Phase(out) /\ Capped(out)
        /\ out = [l EXCEPT !.sent = out.sent, !.queue = out.queue]
    <3> HIDE DEF m
    <3> QED BY <1>0, <1>2, <1>3, SentFits
  <2>2. r = [out EXCEPT !.docs[f] = doc, !.applied[f] = -1, !.opens = @ + 1]
    BY <1>3 DEF Opened, doc
  <2> HIDE DEF out, r
  <2>3. /\ out.status = l.status /\ out.docs = l.docs /\ out.applied = l.applied
        /\ out.pend = l.pend /\ out.next = l.next /\ out.opens = l.opens
        /\ out.refused = l.refused /\ out.known = l.known /\ out.answers = l.answers
    BY <1>0, <2>1 DEF Links
  <2>4. /\ r.status = out.status /\ r.docs = [out.docs EXCEPT ![f] = doc]
        /\ r.applied = [out.applied EXCEPT ![f] = -1]
        /\ r.pend = out.pend /\ r.next = out.next /\ r.opens = out.opens + 1
        /\ r.queue = out.queue /\ r.sent = out.sent
        /\ r.refused = out.refused /\ r.known = out.known /\ r.answers = out.answers
        /\ r \in Links
    <3> DEFINE docs == [out.docs EXCEPT ![f] = doc]
               applied == [out.applied EXCEPT ![f] = -1]
    <3>1. docs \in Docs /\ applied \in [Files -> Nat \cup {-1}] /\ out.opens + 1 \in Nat
      BY <1>0, <1>1, <2>3 DEF Docs
    <3>2. r = [out EXCEPT !.docs = docs, !.applied = applied, !.opens = out.opens + 1]
      BY <2>2
    <3> HIDE DEF docs, applied
    <3>3. r \in Links
      BY <2>1, <3>1, <3>2 DEF Links
    <3>4. /\ r.status = out.status /\ r.docs = docs /\ r.applied = applied
          /\ r.pend = out.pend /\ r.next = out.next /\ r.opens = out.opens + 1
          /\ r.queue = out.queue /\ r.sent = out.sent
          /\ r.refused = out.refused /\ r.known = out.known /\ r.answers = out.answers
      BY <2>1, <3>2 DEF Links
    <3> QED
      BY <3>3, <3>4 DEF docs, applied
  <2>5. Running(r) /\ Phase(r) /\ Capped(r) /\ Way(r) = Append(Way(l), m)
    <3>1. Running(out)
      BY <2>3 DEF Running
    <3> QED
      BY <2>1, <2>4, <3>1, SameTraffic
  <2>6. f \notin l.refused => Heard(WillKnow(l), m)[f] = doc
    <3> HIDE DEF m
    <3> QED BY <1>0, <1>2, HeardType, WayType
  <2>7. ASSUME NEW x, Mentions(l, f, x), x.opening = doc.opening
        PROVE  FALSE
    <3>1. x.opening <= l.opens
      BY <1>0, <2>7 DEF Editions, Edition
    <3> QED
      BY <1>0, <1>1, <2>7, <3>1
  <2>8. LinkSound(r)
    <3>1. l.opens <= r.opens /\ doc.opening <= r.opens
      BY <1>0, <1>1, <2>3, <2>4
    <3> QED
      BY <1>1, <2>3, <2>4, <2>5, <2>6, <2>7, <3>1, ToldKeeps
  <2>9. Moved(l, r, f) /\ r.docs[f] = doc
    BY <1>0, <1>1, <2>3, <2>4 DEF Moved, Docs
  <2> QED
    BY <1>1, <2>3, <2>4, <2>8, <2>9 DEF r
<1>4. CASE ~Fits(l)
  <2>1. r = [l EXCEPT !.refused = l.refused \cup {f}]
    <3>1. r = out
      BY <1>4 DEF Opened, doc
    <3>2. out = [l EXCEPT !.refused =
            IF m.what \in {"open", "change", "close"} THEN l.refused \cup {m.file} ELSE l.refused]
      <4> HIDE DEF m
      <4> QED BY <1>0, <1>4, SentRefused
    <3> HIDE DEF m, out, r
    <3> QED
      BY <1>2, <3>1, <3>2
  <2> HIDE DEF r
  <2>2. /\ r \in Links /\ r.status = l.status /\ r.docs = l.docs /\ r.applied = l.applied
        /\ r.pend = l.pend /\ r.next = l.next /\ r.opens = l.opens
        /\ r.queue = l.queue /\ r.sent = l.sent
        /\ r.refused = l.refused \cup {f} /\ r.known = l.known /\ r.answers = l.answers
    BY <1>0, <2>1 DEF Links
  <2>3. LinkSound(r)
    <3>1. r.docs[f].opening <= r.opens
      BY <1>0, <2>2 DEF Editions
    <3> QED
      BY <2>2, <3>1, RefusedKeeps
  <2>4. Moved(l, r, f) /\ ~Fits(r)
    BY <1>0, <1>4, <2>2 DEF Moved, Fits
  <2> QED
    BY <2>2, <2>3, <2>4 DEF r
<1> QED
  BY <1>3, <1>4

\* A changed text is told of, or refused.
LEMMA ChangedSound ==
  ASSUME NEW l, LinkSound(l), Running(l), NEW f \in Files, l.docs[f] # NoDoc,
         NEW t \in Texts \cup {NoText}
  PROVE  LET r == Changed(l, f, t) IN
         /\ LinkSound(r) /\ Moved(l, r, f)
         /\ r.next = l.next /\ r.pend = l.pend /\ r.docs[f] # NoDoc
         /\ f \in r.refused \/ r.docs[f].text = t
<1> DEFINE doc == [l.docs[f] EXCEPT !.version = @ + 1, !.text = t]
           m == About("change", f, doc)
           out == Sent(l, m)
           r == Changed(l, f, t)
<1>0. /\ l \in Links /\ Phase(l) /\ Capped(l) /\ Editions(l) /\ Claimed(l)
      /\ l.opens \in Nat /\ l.docs \in Docs /\ l.applied \in [Files -> Nat \cup {-1}]
      /\ l.docs[f] \in Doc
  BY DEF LinkSound, Links, Docs
<1>1. /\ doc \in Doc /\ doc # NoDoc /\ doc.opening = l.docs[f].opening /\ doc.text = t
      /\ doc.version = l.docs[f].version + 1
  <2> DEFINE was == l.docs[f]
  <2>1. was \in Doc
    BY <1>0
  <2> HIDE DEF was
  <2>2. was.version \in Nat /\ was.version + 1 \in Nat
    BY <2>1 DEF Doc
  <2> DEFINE next == was.version + 1
  <2>3. doc = [was EXCEPT !.version = next, !.text = t]
    BY DEF was, doc
  <2>4. next \in Nat
    BY <2>2
  <2> HIDE DEF next, doc
  <2>5. doc \in Doc /\ doc.opening = was.opening /\ doc.text = t /\ doc.version = next
    BY <2>1, <2>3, <2>4 DEF Doc
  <2> QED
    BY <2>5, NoDocIsNone DEF was, next
<1> HIDE DEF doc
<1>2. m \in Messages /\ m.what = "change" /\ m.file = f /\ m.doc = doc
  BY <1>1 DEF About, Messages
<1>3. CASE l.docs[f].text = t
  <2>1. r = l
    BY <1>3 DEF Changed
  <2> QED
    BY <1>0, <1>3, <2>1 DEF Moved
<1>4. CASE l.docs[f].text # t /\ Fits(l)
  <2>1. /\ out \in Links /\ Way(out) = Append(Way(l), m) /\ Phase(out) /\ Capped(out)
        /\ out = [l EXCEPT !.sent = out.sent, !.queue = out.queue]
    <3> HIDE DEF m
    <3> QED BY <1>0, <1>2, <1>4, SentFits
  <2>2. r = [out EXCEPT !.docs[f] = doc]
    BY <1>4 DEF Changed, doc
  <2> HIDE DEF out, r
  <2>3. /\ out.status = l.status /\ out.docs = l.docs /\ out.applied = l.applied
        /\ out.pend = l.pend /\ out.next = l.next /\ out.opens = l.opens
        /\ out.refused = l.refused /\ out.known = l.known /\ out.answers = l.answers
    BY <1>0, <2>1 DEF Links
  <2>4. /\ r.status = out.status /\ r.docs = [out.docs EXCEPT ![f] = doc]
        /\ r.applied = out.applied
        /\ r.pend = out.pend /\ r.next = out.next /\ r.opens = out.opens
        /\ r.queue = out.queue /\ r.sent = out.sent
        /\ r.refused = out.refused /\ r.known = out.known /\ r.answers = out.answers
        /\ r \in Links
    BY <1>0, <1>1, <2>1, <2>2, <2>3 DEF Links, Docs
  <2>5. Running(r) /\ Phase(r) /\ Capped(r) /\ Way(r) = Append(Way(l), m)
    <3>1. Running(out)
      BY <2>3 DEF Running
    <3> QED
      BY <2>1, <2>4, <3>1, SameTraffic
  <2>6. f \notin l.refused => Heard(WillKnow(l), m)[f] = doc
    <3>1. f \notin l.refused => WillKnow(l)[f] # NoDoc
      BY <1>0 DEF Claimed
    <3> HIDE DEF m
    <3> QED BY <1>0, <1>2, <3>1, HeardType, WayType
  <2>7. ASSUME NEW x, Mentions(l, f, x), f \notin l.refused, x # NoDoc, x.opening = doc.opening
        PROVE  x.version < doc.version
    <3>1. x.version < l.docs[f].version \/ x = l.docs[f]
      BY <1>0, <1>1, <2>7 DEF Editions, Edition
    <3>2. x \in Doc
      BY <1>0, <2>7, MentionedType
    <3> QED
      BY <1>0, <1>1, <3>1, <3>2 DEF Doc
  <2>8. LinkSound(r)
    <3>1. l.opens <= r.opens /\ doc.opening <= r.opens
      BY <1>0, <1>1, <2>3, <2>4 DEF Editions
    <3> QED
      BY <1>1, <2>3, <2>4, <2>5, <2>6, <2>7, <3>1, ToldKeeps
  <2>9. Moved(l, r, f) /\ r.docs[f] = doc
    BY <1>0, <1>1, <2>3, <2>4 DEF Moved, Docs
  <2> QED
    BY <1>1, <2>3, <2>4, <2>8, <2>9 DEF r
<1>5. CASE l.docs[f].text # t /\ ~Fits(l)
  <2>1. r = [l EXCEPT !.refused = l.refused \cup {f}]
    <3>1. r = out
      BY <1>5 DEF Changed, doc
    <3>2. out = [l EXCEPT !.refused =
            IF m.what \in {"open", "change", "close"} THEN l.refused \cup {m.file} ELSE l.refused]
      <4> HIDE DEF m
      <4> QED BY <1>0, <1>5, SentRefused
    <3> HIDE DEF m, out, r
    <3> QED
      BY <1>2, <3>1, <3>2
  <2> HIDE DEF r
  <2>2. /\ r \in Links /\ r.status = l.status /\ r.docs = l.docs /\ r.applied = l.applied
        /\ r.pend = l.pend /\ r.next = l.next /\ r.opens = l.opens
        /\ r.queue = l.queue /\ r.sent = l.sent
        /\ r.refused = l.refused \cup {f} /\ r.known = l.known /\ r.answers = l.answers
    BY <1>0, <2>1 DEF Links
  <2>3. LinkSound(r)
    <3>1. r.docs[f].opening <= r.opens
      BY <1>0, <2>2 DEF Editions
    <3> QED
      BY <2>2, <3>1, RefusedKeeps
  <2>4. Moved(l, r, f)
    BY <1>0, <2>2 DEF Moved
  <2> QED
    BY <2>2, <2>3, <2>4 DEF r
<1> QED
  BY <1>3, <1>4, <1>5

\* What did_open() and did_change() leave: the text is claimed, or was refused.
LEMMA SyncedSound ==
  ASSUME NEW l, LinkSound(l), NEW f \in Files, NEW t \in Texts \cup {NoText}
  PROVE  LET r == Synced(l, f, t) IN
         /\ LinkSound(r) /\ Moved(l, r, f) /\ r.next = l.next /\ r.pend = l.pend
         /\ Running(l) => /\ f \in r.refused \/ r.docs[f].text = t
                          /\ r.docs[f] # NoDoc \/ (f \in r.refused /\ ~Fits(r))
<1>1. CASE ~Running(l)
  <2>1. l \in Links /\ l.docs = NoDocs
    BY <1>1 DEF LinkSound, Phase
  <2> QED
    BY <1>1, <2>1 DEF Synced, Moved, NoDocs, Links
<1>2. CASE Running(l) /\ l.docs[f] = NoDoc
  BY <1>2, OpenedSound DEF Synced
<1>3. CASE Running(l) /\ l.docs[f] # NoDoc
  BY <1>3, ChangedSound DEF Synced
<1> QED
  BY <1>1, <1>2, <1>3

\* A save tells the text first.
LEMMA SavedSound ==
  ASSUME NEW l, LinkSound(l), NEW f \in Files, NEW t \in Texts \cup {NoText}
  PROVE  LET r == Saved(l, f, t) IN
         /\ LinkSound(r) /\ Moved(l, r, f)
         /\ Running(l) => f \in r.refused \/ r.docs[f].text = t
<1> DEFINE out == Synced(l, f, t)
           r == Saved(l, f, t)
<1>1. /\ LinkSound(out) /\ Moved(l, out, f)
      /\ Running(l) => f \in out.refused \/ out.docs[f].text = t
  BY SyncedSound
<1> DEFINE d == out.docs[f]
           m == About("save", f, d)
<1>2. CASE ~Running(l) \/ out.docs[f].text # t
  <2>1. r = out
    BY <1>2 DEF Saved
  <2> QED
    BY <1>1, <2>1
<1>3. CASE Running(l) /\ out.docs[f].text = t
  <2>1. r = Sent(out, m)
    BY <1>3 DEF Saved
  <2> HIDE DEF out, r
  <2>2. /\ out \in Links /\ Phase(out) /\ Capped(out) /\ Editions(out) /\ Claimed(out)
        /\ out.docs \in Docs /\ out.opens \in Nat
    BY <1>1 DEF LinkSound, Links
  <2>3. /\ m \in Messages /\ m.what = "save" /\ m.file = f /\ m.doc = d
        /\ d \in Doc \cup {NoDoc} /\ Running(out)
    BY <1>1, <1>3, <2>2 DEF About, Messages, Docs, Moved, Running
  <2>4. CASE Fits(out)
    <3>1. /\ r \in Links /\ Way(r) = Append(Way(out), m) /\ Phase(r) /\ Capped(r)
          /\ r = [out EXCEPT !.sent = r.sent, !.queue = r.queue]
      <4> HIDE DEF m
      <4> QED BY <2>1, <2>2, <2>3, <2>4, SentFits
    <3>2. /\ r.status = out.status /\ r.docs = out.docs /\ r.applied = out.applied
          /\ r.pend = out.pend /\ r.next = out.next /\ r.opens = out.opens
          /\ r.refused = out.refused /\ r.known = out.known /\ r.answers = out.answers
      BY <2>2, <3>1 DEF Links
    <3>3. r.docs = [out.docs EXCEPT ![f] = d] /\ out.opens <= r.opens /\ d.opening <= r.opens
      BY <2>2, <3>2 DEF Docs, Editions
    <3>4. f \notin out.refused => Heard(WillKnow(out), m)[f] = d
      <4>1. Heard(WillKnow(out), m) = WillKnow(out)
        <5> HIDE DEF m
        <5> QED BY <2>2, <2>3, HeardType, WayType
      <4> QED
        BY <2>2, <2>3, <4>1 DEF Claimed
    <3>5. f \notin out.refused /\ d # NoDoc =>
            \A x : Mentions(out, f, x) /\ x # NoDoc /\ x.opening = d.opening
                     => x.version < d.version \/ x = d
      BY <2>2 DEF Editions, Edition
    <3>6. LinkSound(r)
      <4>1. Running(r)
        BY <2>3, <3>2 DEF Running
      <4> HIDE DEF d
      <4> QED
        BY <1>1, <2>3, <3>1, <3>2, <3>3, <3>4, <3>5, <4>1, ToldKeeps
    <3> QED
      BY <1>1, <3>2, <3>6 DEF Moved, r, out
  <2>5. CASE ~Fits(out)
    <3>1. r = [out EXCEPT !.refused = out.refused]
      <4>1. Sent(out, m) = [out EXCEPT !.refused =
              IF m.what \in {"open", "change", "close"} THEN out.refused \cup {m.file}
              ELSE out.refused]
        <5> HIDE DEF m
        <5> QED BY <2>2, <2>5, SentRefused
      <4> HIDE DEF m
      <4> QED
        BY <2>1, <2>3, <4>1
    <3>2. r = out
      BY <2>2, <3>1 DEF Links
    <3> QED
      BY <1>1, <3>2 DEF r, out
  <2> QED
    BY <2>4, <2>5
<1> QED
  BY <1>2, <1>3

\* A close forgets the claim, and tells if it can.
LEMMA ClosedSound ==
  ASSUME NEW l, LinkSound(l), NEW f \in Files
  PROVE  LET r == Closed(l, f) IN LinkSound(r) /\ Moved(l, r, f) /\ r.docs[f] = NoDoc
<1> DEFINE m == About("close", f, NoDoc)
           none == [l EXCEPT !.docs[f] = NoDoc, !.applied[f] = -1]
           r == Closed(l, f)
<1>0. /\ l \in Links /\ Phase(l) /\ Capped(l) /\ Editions(l)
      /\ l.opens \in Nat /\ l.docs \in Docs /\ l.applied \in [Files -> Nat \cup {-1}]
  BY DEF LinkSound, Links
<1>1. m \in Messages /\ m.what = "close" /\ m.file = f /\ m.doc = NoDoc
  BY DEF About, Messages
<1>2. CASE ~Running(l) \/ l.docs[f] = NoDoc
  <2>1. r = l
    BY <1>2 DEF Closed
  <2>2. l.docs[f] = NoDoc
    BY <1>0, <1>2 DEF Phase, NoDocs
  <2> QED
    BY <1>0, <2>1, <2>2 DEF Moved
<1>3. CASE Running(l) /\ l.docs[f] # NoDoc
  <2>1. r = Sent(none, m)
    BY <1>3 DEF Closed
  <2> HIDE DEF r
  <2>2. /\ none.status = l.status /\ none.docs = [l.docs EXCEPT ![f] = NoDoc]
        /\ none.applied = [l.applied EXCEPT ![f] = -1]
        /\ none.pend = l.pend /\ none.next = l.next /\ none.opens = l.opens
        /\ none.queue = l.queue /\ none.sent = l.sent
        /\ none.refused = l.refused /\ none.known = l.known /\ none.answers = l.answers
        /\ none \in Links
    <3> DEFINE docs == [l.docs EXCEPT ![f] = NoDoc]
               applied == [l.applied EXCEPT ![f] = -1]
    <3>1. docs \in Docs /\ applied \in [Files -> Nat \cup {-1}]
      BY <1>0 DEF Docs
    <3>2. none = [l EXCEPT !.docs = docs, !.applied = applied]
      OBVIOUS
    <3> HIDE DEF docs, applied, none
    <3>3. none \in Links
      BY <1>0, <3>1, <3>2 DEF Links
    <3>4. /\ none.status = l.status /\ none.docs = docs /\ none.applied = applied
          /\ none.pend = l.pend /\ none.next = l.next /\ none.opens = l.opens
          /\ none.queue = l.queue /\ none.sent = l.sent
          /\ none.refused = l.refused /\ none.known = l.known /\ none.answers = l.answers
      BY <1>0, <3>2 DEF Links
    <3> QED
      BY <3>3, <3>4 DEF docs, applied
  <2> HIDE DEF none
  <2>3. Running(none) /\ Phase(none) /\ Capped(none) /\ Way(none) = Way(l)
    BY <1>0, <1>3, <2>2, SameTraffic
  <2>4. CASE Fits(none)
    <3>1. /\ r \in Links /\ Way(r) = Append(Way(l), m) /\ Phase(r) /\ Capped(r)
          /\ r = [none EXCEPT !.sent = r.sent, !.queue = r.queue]
      <4> HIDE DEF m
      <4>1. none \in Links
        BY <2>2
      <4> QED BY <1>1, <2>1, <2>3, <2>4, <4>1, SentFits
    <3>2. /\ r.status = l.status /\ r.docs = [l.docs EXCEPT ![f] = NoDoc]
          /\ r.applied = [l.applied EXCEPT ![f] = -1]
          /\ r.pend = l.pend /\ r.next = l.next /\ r.opens = l.opens
          /\ r.refused = l.refused /\ r.known = l.known /\ r.answers = l.answers
      BY <2>2, <3>1 DEF Links
    <3>3. Heard(WillKnow(l), m)[f] = NoDoc
      <4> HIDE DEF m
      <4> QED BY <1>0, <1>1, HeardType, WayType
    <3>4. l.opens <= r.opens /\ NoDoc.opening <= r.opens /\ Running(r)
      BY <1>0, <1>3, <3>2 DEF NoDoc, Running
    <3>5. LinkSound(r)
      BY <1>3, <3>1, <3>2, <3>3, <3>4, ToldKeeps
    <3> QED
      BY <1>0, <3>2, <3>4, <3>5 DEF Moved, Docs, r
  <2>5. CASE ~Fits(none)
    <3>1. r = [none EXCEPT !.refused = none.refused \cup {f}]
      <4>1. Sent(none, m) = [none EXCEPT !.refused =
              IF m.what \in {"open", "change", "close"} THEN none.refused \cup {m.file}
              ELSE none.refused]
        <5> HIDE DEF m
        <5> QED BY <2>2, <2>5, SentRefused
      <4> HIDE DEF m
      <4> QED
        BY <1>1, <2>1, <4>1
    <3>2. /\ r \in Links /\ r.status = l.status /\ r.docs = [l.docs EXCEPT ![f] = NoDoc]
          /\ r.applied = [l.applied EXCEPT ![f] = -1]
          /\ r.pend = l.pend /\ r.next = l.next /\ r.opens = l.opens
          /\ r.queue = l.queue /\ r.sent = l.sent
          /\ r.refused = l.refused \cup {f} /\ r.known = l.known /\ r.answers = l.answers
      BY <2>2, <3>1 DEF Links
    <3>3. r.docs[f].opening <= r.opens
      BY <1>0, <3>2 DEF Docs, NoDoc
    <3>4. \A g \in Files \ {f} : r.docs[g] = l.docs[g]
      BY <1>0, <3>2 DEF Docs
    <3>5. LinkSound(r)
      BY <1>3, <3>2, <3>3, <3>4, RefusedKeeps
    <3> QED
      BY <1>0, <3>2, <3>5 DEF Moved, Docs, r
  <2> QED
    BY <2>4, <2>5
<1> QED
  BY <1>2, <1>3

\* A request is asked of a document that is claimed, or of one whose opening was
\* refused, and then nothing is asked.
LEMMA RequestSound ==
  ASSUME NEW l, LinkSound(l), NEW f \in Files, NEW kind \in Kinds,
         Running(l) => l.docs[f] # NoDoc \/ (f \in l.refused /\ ~Fits(l))
  PROVE  LET r == Request(l, kind, f) IN
         /\ LinkSound(r) /\ Moved(l, r, f) /\ r.refused = l.refused
         /\ r.docs[f] = l.docs[f] \/ f \in l.refused
         /\ l.docs[f] # NoDoc => r.docs = l.docs
<1> DEFINE doc == IF l.docs[f] = NoDoc THEN ZeroDoc ELSE l.docs[f]
           entry == [id |-> l.next, kind |-> kind, file |-> f, version |-> doc.version,
                     opening |-> doc.opening, old |-> FALSE]
           others == {p \in l.pend : <<p.id, p.kind>> # <<l.next, kind>>}
           pend == IF Fits(l) THEN others \cup {entry} ELSE others
           taken == [l EXCEPT !.docs[f] = doc, !.next = @ + 1, !.pend = pend]
           m == Question(kind, l.next, f)
           r == Request(l, kind, f)
<1>0. /\ l \in Links /\ Phase(l) /\ Capped(l) /\ Editions(l)
      /\ l.opens \in Nat /\ l.next \in Nat /\ l.docs \in Docs /\ l.pend \in SUBSET Entries
  BY DEF LinkSound, Links
<1>1. CASE \/ ~Running(l) \/ (kind \in NeedsReady /\ l.status # "ready")
           \/ Cardinality({p \in l.pend : p.kind = kind}) >= MaxPending
  <2>1. r = l
    BY <1>1 DEF Request
  <2>2. l.docs[f] # NoDoc \/ l.docs[f] = NoDoc
    OBVIOUS
  <2> QED
    BY <1>0, <2>1 DEF Moved
<1>2. CASE /\ Running(l) /\ ~(kind \in NeedsReady /\ l.status # "ready")
           /\ ~(Cardinality(OfKind(l.pend, kind)) >= MaxPending)
  <2>1. r = Sent(taken, m)
    BY <1>2 DEF Request, OfKind
  <2> HIDE DEF r
  <2>2. doc \in Doc /\ doc.version \in Nat /\ doc.opening \in Nat /\ doc.opening <= l.opens
    <3>1. l.docs[f] \in Doc \cup {NoDoc} /\ l.docs[f].opening <= l.opens
      BY <1>0 DEF Docs, Editions
    <3>2. ZeroDoc \in Doc /\ ZeroDoc.opening = 0
      BY NoDocIsNone DEF ZeroDoc
    <3>3. doc \in Doc /\ doc.opening <= l.opens
      BY <1>0, <3>1, <3>2
    <3> QED
      BY <3>3 DEF Doc
  <2>3. entry \in Entries /\ entry.kind = kind /\ entry.file = f /\ entry.id = l.next
        /\ ~entry.old /\ entry.version = doc.version /\ entry.opening = doc.opening
    <3> HIDE DEF doc
    <3> QED BY <1>0, <2>2 DEF Entries
  <2>4. m \in Messages /\ m.what = "ask"
    BY <1>0 DEF Question, Messages
  <2>5. others \subseteq l.pend /\ pend \subseteq l.pend \cup {entry} /\ pend \in SUBSET Entries
    <3> HIDE DEF entry
    <3> QED BY <1>0, <2>3
  <2> HIDE DEF doc, entry, others, m
  <2>6. /\ taken.status = l.status /\ taken.docs = [l.docs EXCEPT ![f] = doc]
        /\ taken.applied = l.applied
        /\ taken.pend = pend /\ taken.next = l.next + 1 /\ taken.opens = l.opens
        /\ taken.queue = l.queue /\ taken.sent = l.sent
        /\ taken.refused = l.refused /\ taken.known = l.known /\ taken.answers = l.answers
        /\ taken \in Links
    <3> DEFINE docs == [l.docs EXCEPT ![f] = doc]
    <3>1. docs \in Docs /\ l.next + 1 \in Nat
      BY <1>0, <2>2 DEF Docs
    <3>2. taken = [l EXCEPT !.docs = docs, !.next = l.next + 1, !.pend = pend]
      OBVIOUS
    <3> HIDE DEF docs, taken, pend
    <3>3. taken \in Links
      BY <1>0, <2>5, <3>1, <3>2 DEF Links
    <3>4. /\ taken.status = l.status /\ taken.docs = docs /\ taken.applied = l.applied
          /\ taken.pend = pend /\ taken.next = l.next + 1 /\ taken.opens = l.opens
          /\ taken.queue = l.queue /\ taken.sent = l.sent
          /\ taken.refused = l.refused /\ taken.known = l.known /\ taken.answers = l.answers
      BY <1>0, <3>2 DEF Links
    <3> QED
      BY <3>3, <3>4 DEF docs
  <2> HIDE DEF taken
  <2>7. Running(taken) /\ Phase(taken) /\ Way(taken) = Way(l) /\ (Fits(taken) <=> Fits(l))
    BY <1>0, <1>2, <2>6 DEF Running, Phase, Way, Fits
  <2>8. /\ IsFiniteSet(pend)
        /\ \A k \in Kinds : Cardinality(OfKind(pend, k)) <= MaxPending
    <3>1. IsFiniteSet(l.pend \cup {entry})
      BY <1>0, FS_AddElement DEF Capped
    <3>2. IsFiniteSet(pend)
      <4> HIDE DEF pend
      <4> QED BY <2>5, <3>1, FS_Subset
    <3>3. ASSUME NEW k \in Kinds PROVE Cardinality(OfKind(pend, k)) <= MaxPending
      <4> DEFINE S == OfKind(l.pend, k)
                 T == OfKind(pend, k)
      <4>1. S \in SUBSET l.pend /\ IsFiniteSet(l.pend)
        BY <1>0 DEF Capped, OfKind
      <4>2. IsFiniteSet(S) /\ Cardinality(S) \in Nat /\ Cardinality(S) <= MaxPending
        <5>1. IsFiniteSet(S)
          BY <4>1, FS_Subset
        <5> QED
          BY <1>0, <5>1, FS_CardinalityType DEF Capped
      <4>3. CASE k = kind
        <5>1. T \in SUBSET (S \cup {entry})
          BY <2>5 DEF OfKind
        <5>2. IsFiniteSet(S \cup {entry}) /\ Cardinality(S \cup {entry}) <= Cardinality(S) + 1
          <6> HIDE DEF S
          <6>1. /\ IsFiniteSet(S \cup {entry})
                /\ Cardinality(S \cup {entry}) =
                     IF entry \in S THEN Cardinality(S) ELSE Cardinality(S) + 1
            BY <4>2, FS_AddElement
          <6> QED
            BY <4>2, <6>1
        <5> HIDE DEF T
        <5>3. IsFiniteSet(T) /\ Cardinality(T) <= Cardinality(S \cup {entry})
          BY <5>1, <5>2, FS_Subset
        <5>4. Cardinality(T) \in Nat /\ Cardinality(S \cup {entry}) \in Nat
          BY <5>2, <5>3, FS_CardinalityType
        <5>5. ~(Cardinality(S) >= MaxPending)
          BY <1>2, <4>3
        <5> HIDE DEF S
        <5>6. Cardinality(T) <= MaxPending
          BY <4>2, <5>2, <5>3, <5>4, <5>5, BoundsAssumption
        <5> QED
          BY <5>6 DEF T
      <4>4. CASE k # kind
        <5>1. T \in SUBSET S
          BY <2>3, <2>5, <4>4 DEF OfKind
        <5> HIDE DEF S, T
        <5>2. IsFiniteSet(T) /\ Cardinality(T) <= Cardinality(S)
          BY <4>2, <5>1, FS_Subset
        <5>3. Cardinality(T) \in Nat
          BY <5>2, FS_CardinalityType
        <5>4. Cardinality(T) <= MaxPending
          BY <4>2, <5>2, <5>3, BoundsAssumption
        <5> QED
          BY <5>4 DEF T
      <4> QED
        BY <4>3, <4>4
    <3> QED
      BY <3>2, <3>3
  <2>9. Capped(taken)
    BY <1>0, <2>6, <2>8 DEF Capped
  <2>10. \A g \in Files : taken.docs[g].opening <= taken.opens
    BY <1>0, <2>2, <2>6 DEF Docs, Editions
  <2>11. CASE Fits(l)
    <3>1. l.docs[f] # NoDoc /\ doc = l.docs[f] /\ taken.docs = l.docs
      BY <1>0, <1>2, <2>6, <2>11 DEF doc, Docs
    <3>2. /\ r \in Links /\ Way(r) = Append(Way(l), m) /\ Phase(r) /\ Capped(r)
          /\ r = [taken EXCEPT !.sent = r.sent, !.queue = r.queue]
      BY <2>1, <2>4, <2>6, <2>7, <2>9, <2>11, SentFits
    <3>3. /\ r.status = l.status /\ r.docs = l.docs /\ r.applied = l.applied
          /\ r.pend = pend /\ r.next = l.next + 1 /\ r.opens = l.opens
          /\ r.refused = l.refused /\ r.known = l.known /\ r.answers = l.answers
      BY <2>6, <3>1, <3>2 DEF Links
    <3>4. Running(r)
      BY <1>2, <3>3 DEF Running
    <3>5. Way(r) = Append(Way(l), Question(kind, l.next, f))
      BY <3>2 DEF m
    <3>6. \A g \in Files : r.docs[g].opening <= r.opens
      BY <2>6, <2>10, <3>1, <3>3
    <3>7. LinkSound(r)
      <4> HIDE DEF pend
      <4> QED BY <1>2, <2>3, <2>5, <3>1, <3>2, <3>3, <3>4, <3>5, <3>6, AskedKeeps
    <3> QED
      BY <1>0, <3>1, <3>3, <3>7 DEF Moved, r
  <2>12. CASE ~Fits(l)
    <3>1. r = taken
      <4>1. Sent(taken, m) = [taken EXCEPT !.refused =
              IF m.what \in {"open", "change", "close"} THEN taken.refused \cup {m.file}
              ELSE taken.refused]
        BY <2>6, <2>7, <2>12, SentRefused
      <4>2. r = [taken EXCEPT !.refused = taken.refused]
        BY <2>1, <2>4, <4>1
      <4> QED
        BY <2>6, <4>2 DEF Links
    <3>2. \A g \in Files \ l.refused : taken.docs[g] = l.docs[g]
      BY <1>0, <1>2, <2>6, <2>12 DEF doc, Docs
    <3>3. pend \subseteq l.pend
      BY <2>5, <2>12
    <3>4. l.next <= taken.next /\ l.opens <= taken.opens
      BY <1>0, <2>6
    <3>5. LinkSound(taken)
      <4> HIDE DEF pend
      <4> QED BY <1>2, <2>6, <2>7, <2>9, <2>10, <3>2, <3>3, <3>4, QuietKeeps
    <3>6. l.status = "starting"
      BY <1>2, <2>12 DEF Fits, Running
    <3>7. Moved(l, taken, f)
      BY <1>0, <2>6, <3>4, <3>6 DEF Moved, Docs
    <3>8. l.docs[f] # NoDoc => taken.docs = l.docs
      BY <1>0, <2>6 DEF doc, Docs
    <3> QED
      BY <2>6, <3>1, <3>2, <3>5, <3>7, <3>8 DEF r
  <2> QED
    BY <2>11, <2>12
<1> QED
  BY <1>1, <1>2 DEF OfKind

\* A publish goes among the answers.
LEMMA PublishSound ==
  ASSUME NEW l, LinkSound(l), Running(l), NEW f \in Files, l.known[f] # NoDoc,
         NEW r, r = [l EXCEPT !.answers =
                       @ \cup {[what |-> "publish", file |-> f, doc |-> l.known[f]]}]
  PROVE  LinkSound(r) /\ r.docs = l.docs
         /\ r.refused = l.refused /\ r.status = l.status /\ r.applied = l.applied
         /\ r.opens = l.opens
<1> DEFINE a == [what |-> "publish", file |-> f, doc |-> l.known[f]]
           answers == l.answers \cup {a}
<1>0. l \in Links /\ Claimed(l) /\ Editions(l) /\ Questions(l) /\ Phase(l) /\ Capped(l)
  BY DEF LinkSound
<1>1. a \in Answers /\ a.what = "publish" /\ a.file = f /\ a.doc = l.known[f]
  <2>1. l.known[f] \in Doc
    BY <1>0 DEF Links, Docs
  <2> QED
    BY <2>1 DEF Answers
<1>2. r = [l EXCEPT !.answers = answers]
  OBVIOUS
<1>3. answers \in SUBSET Answers
  BY <1>0, <1>1 DEF Links
<1> HIDE DEF answers
<1>4. r \in Links
  BY <1>0, <1>2, <1>3 DEF Links
<1>5. /\ r.status = l.status /\ r.docs = l.docs /\ r.applied = l.applied /\ r.pend = l.pend
      /\ r.next = l.next /\ r.queue = l.queue /\ r.opens = l.opens /\ r.refused = l.refused
      /\ r.sent = l.sent /\ r.known = l.known /\ r.answers = answers
  BY <1>0, <1>2 DEF Links
<1>6. Running(r) /\ Way(r) = Way(l) /\ WillKnow(r) = WillKnow(l)
  BY <1>0, <1>4, <1>5, WayType DEF Running, Way
<1>7. Capped(r) /\ Claimed(r)
  BY <1>0, <1>5, <1>6 DEF Capped, Claimed
<1>8. Phase(r)
  <2>1. l.status # "starting"
    BY <1>0 DEF Phase, NoDocs
  <2> QED
    BY <1>0, <1>5, <1>6, <2>1 DEF Phase
<1>9. Editions(r)
  <2>1. ASSUME NEW g \in Files, NEW d, Mentions(r, g, d) PROVE Edition(r, g, d)
    <3>1. Mentions(l, g, d)
      <4>1. CASE \E b \in r.answers :
                   b.what \in {"publish", "reply"} /\ b.file = g /\ d = b.doc
        <5>1. PICK b \in r.answers : b.what \in {"publish", "reply"} /\ b.file = g /\ d = b.doc
          BY <4>1
        <5>2. b \in l.answers \/ b = a
          BY <1>5 DEF answers
        <5> QED
          BY <1>1, <5>1, <5>2 DEF Mentions
      <4>2. CASE ~\E b \in r.answers :
                    b.what \in {"publish", "reply"} /\ b.file = g /\ d = b.doc
        BY <1>5, <1>6, <2>1, <4>2 DEF Mentions
      <4> QED
        BY <4>1, <4>2
    <3>2. Edition(l, g, d)
      BY <1>0, <3>1 DEF Editions
    <3> QED
      BY <1>5, <3>2 DEF Edition
  <2> QED
    BY <1>0, <1>5, <2>1 DEF Editions
<1>10. Questions(r)
  <2>1. \A p, m, d : Suits(l, p, m, d) => Suits(r, p, m, d)
    BY <1>5 DEF Suits
  <2>2. ASSUME NEW b \in r.answers, b.what = "reply" PROVE b \in l.answers
    BY <1>1, <1>5, <2>2 DEF answers
  <2>3. ASSUME NEW k \in 1..Len(Way(r)), Way(r)[k].what = "ask"
        PROVE  /\ Way(r)[k].id < r.next
               /\ \A p \in r.pend : ~p.old /\ p.id = Way(r)[k].id
                    => Suits(r, p, Way(r)[k], Hearing(r.known, Way(r))[k - 1][Way(r)[k].file])
    BY <1>0, <1>5, <1>6, <2>1, <2>3 DEF Questions
  <2>4. ASSUME NEW b \in r.answers, b.what = "reply"
        PROVE  b.id < r.next /\ \A p \in r.pend : ~p.old /\ p.id = b.id => Suits(r, p, b, b.doc)
    BY <1>0, <1>5, <2>1, <2>2, <2>4 DEF Questions
  <2>5. \A p \in r.pend : IF p.old THEN p.kind \notin ClearedByStop ELSE p.id < r.next
    BY <1>0, <1>5 DEF Questions
  <2> QED
    BY <2>3, <2>4, <2>5 DEF Questions
<1> QED
  BY <1>4, <1>5, <1>7, <1>8, <1>9, <1>10 DEF LinkSound

\* The search of the maps finds an entry with the id of the reply if there is one.
LEMMA FoundMatches ==
  ASSUME NEW l \in Links, NEW a, Matches(l, a) # {}
  PROVE  Found(l, a) \in l.pend /\ Found(l, a).id = a.id
<1>1. \A kind \in Kinds : Rank(kind) \in Nat
  <2>1. DOMAIN LookupOrder = 1..5
    BY DEF LookupOrder
  <2>2. \A kind \in Kinds : \E i \in 1..5 : LookupOrder[i] = kind
    BY DEF LookupOrder, Kinds
  <2>3. \A kind \in Kinds : Rank(kind) \in 1..5
    BY <2>1, <2>2 DEF Rank
  <2> QED
    BY <2>3
<1>2. \A p \in Matches(l, a) : p.kind \in Kinds
  BY DEF Matches, Links, Entries
<1> DEFINE T == {Rank(p.kind) : p \in Matches(l, a)}
<1>3. T \in SUBSET Nat /\ T # {}
  BY <1>1, <1>2
<1>4. PICK x \in T : \A y \in T : x <= y
  BY <1>3, LeastOf
<1>5. \E p \in Matches(l, a) : \A q \in Matches(l, a) : Rank(p.kind) <= Rank(q.kind)
  BY <1>4
<1>6. Found(l, a) \in Matches(l, a)
  BY <1>5 DEF Found
<1> QED
  BY <1>6 DEF Matches

-----------------------------------------------------------------------------
(* The editor *)

Hints == [dirty : BOOLEAN, inFlight : BOOLEAN, of : Texts \cup {NoText}]
Editors == [enabled : BOOLEAN, text : [Files -> Texts \cup {NoText}], owed : SUBSET Files,
            link : [Servers -> Links], slice : [Servers -> Slices], hints : [Files -> Hints]]

\* Every link is in order, with the findings kept of it, and runs only when enabled.
Sound(e) ==
  /\ e \in Editors
  /\ \A s \in Servers : /\ LinkSound(e.link[s]) /\ Applied(e.link[s], e.slice[s])
                        /\ Running(e.link[s]) => e.enabled

\* The primary claims the text of the buffer of f, or the change is owed.
Told(e, f) == LET l == e.link[Primary] IN
  Running(l) /\ f \notin l.refused /\ l.docs[f] # NoDoc
    => l.docs[f].text = e.text[f] \/ (f \in e.owed /\ e.text[f] # NoText)

\* Findings are dropped at most.
Forgets(e, r) ==
  \A s \in Servers, g \in Files : r.slice[s][g].of \in {e.slice[s][g].of, NoDoc}

\* Those of a server are kept, or it has been started anew.
Keeps(e, r) ==
  \A s \in Servers :
    r.slice[s] = e.slice[s] \/ (r.slice[s] = NoSlices /\ r.link[s].answers = {})

\* No findings are right for any server.
LEMMA NoneApplied ==
  /\ NoSlices \in Slices /\ \A g \in Files : NoSlices[g].of = NoDoc
  /\ \A l : Applied(l, NoSlices)
BY DEF NoSlices, NoFindings, Slices, Applied

\* A handler about f moves the links on and lets the other files be.
LEMMA EditorMoves ==
  ASSUME NEW e, Sound(e), NEW r \in Editors, NEW f \in Files, r.enabled = e.enabled,
         r.slice = e.slice,
         \A s \in Servers : LinkSound(r.link[s]) /\ Moved(e.link[s], r.link[s], f),
         \A g \in Files \ {f} : r.text[g] = e.text[g] /\ (g \in e.owed => g \in r.owed)
  PROVE  /\ Sound(r) /\ \A g \in Files \ {f} : Told(e, g) => Told(r, g)
         /\ \A s \in Servers : r.link[s].answers = e.link[s].answers
<1>1. ASSUME NEW s \in Servers
      PROVE  Applied(r.link[s], r.slice[s]) /\ (Running(r.link[s]) => r.enabled)
  <2>1. e.link[s] \in Links /\ r.link[s] \in Links /\ e.slice[s] \in Slices
    BY DEF Sound, Editors
  <2>2. Applied(r.link[s], e.slice[s])
    <3>1. Applied(e.link[s], e.slice[s]) /\ Moved(e.link[s], r.link[s], f)
      BY DEF Sound
    <3> QED
      BY <2>1, <3>1, MovedApplied
  <2> QED
    BY <2>2 DEF Sound, Moved, Running
<1>2. ASSUME NEW g \in Files \ {f}, Told(e, g) PROVE Told(r, g)
  BY <1>2, ServersAssumption DEF Told, Moved, Running
<1> QED
  BY <1>1, <1>2 DEF Sound, Moved

\* What the hints are plays no part in it.
LEMMA HintsKeep ==
  ASSUME NEW e, Sound(e), NEW h \in [Files -> Hints]
  PROVE  LET r == [e EXCEPT !.hints = h] IN
         /\ Sound(r) /\ \A g \in Files : Told(e, g) => Told(r, g)
         /\ r.enabled = e.enabled /\ r.text = e.text /\ r.owed = e.owed
         /\ r.link = e.link /\ r.slice = e.slice /\ r.hints = h
<1> DEFINE r == [e EXCEPT !.hints = h]
<1>1. /\ r \in Editors /\ r.enabled = e.enabled /\ r.text = e.text /\ r.owed = e.owed
      /\ r.link = e.link /\ r.slice = e.slice /\ r.hints = h
  BY DEF Sound, Editors
<1> HIDE DEF r
<1>2. Sound(r) /\ \A g \in Files : Told(e, g) => Told(r, g)
  BY <1>1 DEF Sound, Told
<1> QED
  BY <1>1, <1>2 DEF r

\* Servers that do not run are built anew.
LEMMA EnsuredSound ==
  ASSUME NEW e, Sound(e)
  PROVE  LET r == Ensured(e) IN
         /\ Sound(r) /\ \A g \in Files : Told(e, g) => Told(r, g)
         /\ r.enabled = e.enabled /\ r.text = e.text /\ r.owed = e.owed /\ r.hints = e.hints
         /\ Keeps(e, r) /\ Forgets(e, r)
         /\ e.enabled => \A s \in Servers : Running(r.link[s])
<1> DEFINE r == Ensured(e)
           link2 == [s \in Servers |-> IF Running(e.link[s]) THEN e.link[s] ELSE Fresh({})]
           slice2 == [s \in Servers |-> IF Running(e.link[s]) THEN e.slice[s] ELSE NoSlices]
<1>0. /\ e.link \in [Servers -> Links] /\ e.slice \in [Servers -> Slices]
      /\ e \in Editors /\ e.enabled \in BOOLEAN
  BY DEF Sound, Editors
<1>1. CASE ~e.enabled
  <2>1. r = e
    BY <1>1 DEF Ensured
  <2> QED
    BY <1>0, <1>1, <2>1 DEF Keeps, Forgets
<1>2. CASE e.enabled
  <2>1. r = [e EXCEPT !.link = link2, !.slice = slice2]
    BY <1>2 DEF Ensured
  <2> HIDE DEF r
  <2>2. /\ LinkSound(Fresh({})) /\ Fresh({}).docs = NoDocs /\ Fresh({}).answers = {}
        /\ Running(Fresh({}))
    <3>1. /\ LinkSound(Fresh({})) /\ Fresh({}).docs = NoDocs /\ Fresh({}).answers = {}
          /\ Fresh({}).status = "starting"
      BY NoSurvivors, FreshSound
    <3> QED
      BY <3>1 DEF Running
  <2>3. \A s \in Servers : /\ LinkSound(link2[s]) /\ Applied(link2[s], slice2[s])
                           /\ Running(link2[s])
                           /\ \/ link2[s] = e.link[s] /\ slice2[s] = e.slice[s]
                              \/ /\ link2[s].docs = NoDocs /\ slice2[s] = NoSlices
                                 /\ link2[s].answers = {}
    BY <2>2, NoneApplied DEF Sound
  <2>4. link2 \in [Servers -> Links] /\ slice2 \in [Servers -> Slices]
    <3>1. Fresh({}) \in Links
      BY <2>2 DEF LinkSound
    <3> QED
      BY <1>0, <3>1, NoneApplied
  <2> HIDE DEF link2, slice2
  <2>5. /\ r \in Editors /\ r.enabled = e.enabled /\ r.text = e.text /\ r.owed = e.owed
        /\ r.hints = e.hints /\ r.link = link2 /\ r.slice = slice2
    BY <1>0, <2>1, <2>4 DEF Editors
  <2>6. Sound(r)
    BY <1>2, <2>3, <2>5 DEF Sound
  <2>7. \A g \in Files : Told(e, g) => Told(r, g)
    BY <2>3, <2>5, ServersAssumption DEF Told, NoDocs
  <2>8. Keeps(e, r)
    BY <2>3, <2>5 DEF Keeps
  <2>9. Forgets(e, r)
    BY <2>3, <2>5, NoneApplied DEF Forgets
  <2> QED
    BY <2>3, <2>5, <2>6, <2>7, <2>8, <2>9 DEF r
<1> QED
  BY <1>0, <1>1, <1>2

\* A notification about f goes to every server: what ToAll does, for each of the three.
SyncedAll(e, f) ==
  [e EXCEPT !.link = [s \in Servers |-> Synced(e.link[s], f, e.text[f])]]
SavedAll(e, f) ==
  [e EXCEPT !.link = [s \in Servers |-> Saved(e.link[s], f, e.text[f])]]
ClosedAll(e, f) ==
  [e EXCEPT !.link = [s \in Servers |-> Closed(e.link[s], f)],
            !.owed = e.owed \ {f}, !.text = [e.text EXCEPT ![f] = NoText]]

\* Every server is told the text of f.
LEMMA AllSynced ==
  ASSUME NEW e, Sound(e), NEW f \in Files
  PROVE  LET r == SyncedAll(e, f) IN
         /\ Sound(r) /\ Told(r, f) /\ \A g \in Files : Told(e, g) => Told(r, g)
         /\ r.enabled = e.enabled /\ r.text = e.text /\ r.owed = e.owed /\ r.hints = e.hints
         /\ r.slice = e.slice
         /\ \A s \in Servers : r.link[s].answers = e.link[s].answers
<1> DEFINE r == SyncedAll(e, f)
           link2 == [s \in Servers |-> Synced(e.link[s], f, e.text[f])]
<1>0. e \in Editors /\ e.text[f] \in Texts \cup {NoText}
  BY DEF Sound, Editors
<1>1. r = [e EXCEPT !.link = link2]
  BY DEF SyncedAll
<1> HIDE DEF r
<1>2. ASSUME NEW s \in Servers
      PROVE  /\ LinkSound(link2[s]) /\ Moved(e.link[s], link2[s], f)
             /\ Running(e.link[s]) => f \in link2[s].refused \/ link2[s].docs[f].text = e.text[f]
  <2>1. LinkSound(e.link[s])
    BY DEF Sound
  <2> QED
    BY <1>0, <2>1, SyncedSound
<1>3. link2 \in [Servers -> Links]
  BY <1>2 DEF LinkSound
<1> HIDE DEF link2
<1>4. /\ r \in Editors /\ r.enabled = e.enabled /\ r.text = e.text /\ r.owed = e.owed
      /\ r.hints = e.hints /\ r.link = link2 /\ r.slice = e.slice
  BY <1>0, <1>1, <1>3 DEF Editors
<1>5. /\ Sound(r) /\ \A g \in Files \ {f} : Told(e, g) => Told(r, g)
      /\ \A s \in Servers : r.link[s].answers = e.link[s].answers
  BY <1>2, <1>4, EditorMoves
<1>6. Told(r, f)
  BY <1>2, <1>4, ServersAssumption DEF Told, Moved, Running
<1> QED
  BY <1>4, <1>5, <1>6 DEF r

\* A file that is opened is told to every server, with no findings yet.
LEMMA NotifyOpenSound ==
  ASSUME NEW e, Sound(e), NEW f \in Files
  PROVE  LET r == NotifyOpen(e, f) IN
         /\ Sound(r) /\ Told(r, f) /\ \A g \in Files : Told(e, g) => Told(r, g)
         /\ r.enabled = e.enabled /\ r.text = e.text /\ r.owed = e.owed
         /\ Forgets(e, r)
<1> DEFINE slice2 == [s \in Servers |-> [e.slice[s] EXCEPT ![f] = NoFindings]]
           cleared == [e EXCEPT !.slice = slice2]
           r == NotifyOpen(e, f)
<1>0. e \in Editors /\ e.slice \in [Servers -> Slices]
  BY DEF Sound, Editors
<1>1. ASSUME NEW s \in Servers
      PROVE  /\ slice2[s] \in Slices /\ Applied(e.link[s], slice2[s])
             /\ \A g \in Files : slice2[s][g].of \in {e.slice[s][g].of, NoDoc}
  <2> DEFINE kept == e.slice[s]
             new == [kept EXCEPT ![f] = NoFindings]
  <2>1. kept \in Slices /\ Applied(e.link[s], kept)
    BY <1>0 DEF Sound
  <2> HIDE DEF kept
  <2>2. new \in Slices /\ \A g \in Files : new[g].of \in {kept[g].of, NoDoc}
    BY <2>1 DEF Slices, NoFindings
  <2>3. kept = NoSlices => new = NoSlices
    BY DEF NoSlices
  <2> HIDE DEF new
  <2>4. Applied(e.link[s], new)
    BY <2>1, <2>2, <2>3 DEF Applied
  <2> QED
    BY <2>2, <2>4 DEF new, kept
<1> HIDE DEF slice2
<1>2. slice2 \in [Servers -> Slices]
  <2>1. slice2 = [s \in Servers |-> slice2[s]]
    BY DEF slice2
  <2> QED
    BY <1>1, <2>1
<1>3. /\ cleared \in Editors /\ cleared.enabled = e.enabled /\ cleared.text = e.text
      /\ cleared.owed = e.owed /\ cleared.link = e.link /\ cleared.slice = slice2
  BY <1>0, <1>2 DEF Editors
<1>4. r = IF ~cleared.enabled THEN cleared
          ELSE ToAll(Ensured(cleared), LAMBDA l : Synced(l, f, cleared.text[f]))
  BY DEF NotifyOpen, slice2
<1> HIDE DEF cleared, r
<1>5. Sound(cleared)
  BY <1>1, <1>3 DEF Sound
<1>6. (\A g \in Files : Told(e, g) => Told(cleared, g)) /\ Forgets(e, cleared)
  BY <1>1, <1>3 DEF Told, Forgets
<1>7. CASE ~cleared.enabled
  <2>1. r = cleared
    BY <1>4, <1>7
  <2>2. Told(cleared, f)
    BY <1>5, <1>7, ServersAssumption DEF Sound, Told
  <2> QED
    BY <1>3, <1>5, <1>6, <2>1, <2>2 DEF r
<1>8. CASE cleared.enabled
  <2> DEFINE e1 == Ensured(cleared)
  <2>1. /\ Sound(e1) /\ \A g \in Files : Told(cleared, g) => Told(e1, g)
        /\ e1.enabled = cleared.enabled /\ e1.text = cleared.text /\ e1.owed = cleared.owed
        /\ Forgets(cleared, e1)
    BY <1>5, EnsuredSound
  <2>2. r = SyncedAll(e1, f)
    <3>1. r = ToAll(e1, LAMBDA l : Synced(l, f, cleared.text[f]))
      BY <1>4, <1>8
    <3> HIDE DEF e1
    <3> QED BY <2>1, <3>1 DEF ToAll, SyncedAll
  <2> HIDE DEF e1
  <2>3. /\ Sound(r) /\ Told(r, f) /\ \A g \in Files : Told(e1, g) => Told(r, g)
        /\ r.enabled = e1.enabled /\ r.text = e1.text /\ r.owed = e1.owed
        /\ r.slice = e1.slice
    BY <2>1, <2>2, AllSynced
  <2>4. Forgets(e, r)
    BY <1>6, <2>1, <2>3 DEF Forgets
  <2> QED
    BY <1>3, <1>6, <2>1, <2>3, <2>4 DEF r
<1> QED
  BY <1>7, <1>8

\* What the files opened again leave after each of the first n.
OpenedUpto(e, order, F, n) ==
  F = [k \in 0..n |-> IF k = 0 THEN e ELSE NotifyOpen(F[k - 1], order[k])]

\* The recursion behind Reopened has a solution on every initial segment.
LEMMA OpenedUptoExists ==
  ASSUME NEW e, NEW order, NEW n \in Nat
  PROVE  \E F : OpenedUpto(e, order, F, n)
<1> DEFINE T == {m \in Nat : \E F : OpenedUpto(e, order, F, m)}
<1>1. 0 \in T
  <2> DEFINE F == [k \in 0..0 |-> e]
  <2>1. OpenedUpto(e, order, F, 0)
    BY DEF OpenedUpto
  <2> QED
    BY <2>1
<1>2. ASSUME NEW m \in Nat, m \in T PROVE m + 1 \in T
  <2>1. PICK F : OpenedUpto(e, order, F, m)
    BY <1>2
  <2> DEFINE G == [k \in 0..(m + 1) |-> IF k = m + 1 THEN NotifyOpen(F[m], order[m + 1])
                                        ELSE F[k]]
  <2>2. \A k \in 0..m : G[k] = F[k]
    OBVIOUS
  <2>3. ASSUME NEW k \in 0..(m + 1)
        PROVE  G[k] = IF k = 0 THEN e ELSE NotifyOpen(G[k - 1], order[k])
    <3>1. CASE k = m + 1
      BY <2>2, <3>1
    <3>2. CASE k # m + 1
      <4>1. k \in 0..m /\ (k # 0 => k - 1 \in 0..m)
        BY <3>2
      <4>2. F[k] = IF k = 0 THEN e ELSE NotifyOpen(F[k - 1], order[k])
        BY <2>1, <4>1 DEF OpenedUpto
      <4> HIDE DEF G
      <4> QED
        BY <2>2, <4>1, <4>2
    <3> QED
      BY <3>1, <3>2
  <2>4. G = [k \in 0..(m + 1) |-> G[k]]
    OBVIOUS
  <2>5. OpenedUpto(e, order, G, m + 1)
    <3> HIDE DEF G
    <3> QED
      BY <2>3, <2>4 DEF OpenedUpto
  <2> QED
    BY <2>5
<1> QED
  <2> HIDE DEF T
  <2>1. n \in T
    BY <1>1, <1>2, EveryNumber
  <2> QED
    BY <2>1 DEF T

\* Opening the files again keeps everything in order.
LEMMA ReopenedSound ==
  ASSUME NEW e, Sound(e), NEW order \in Orders
  PROVE  LET r == Reopened(e, order) IN
         /\ Sound(r) /\ \A g \in Files : Told(e, g) => Told(r, g)
         /\ r.enabled = e.enabled /\ r.text = e.text /\ r.owed = e.owed
         /\ Forgets(e, r)
<1> DEFINE F == CHOOSE F : OpenedUpto(e, order, F, Len(order))
           S == {f \in Files : text[f] # NoText}
<1>0. Len(order) \in Nat /\ \A k \in 1..Len(order) : order[k] \in Files
  <2>1. IsFiniteSet(S) /\ Cardinality(S) \in Nat
    BY FilesAssumption, FS_Subset, FS_CardinalityType
  <2>2. order \in [1..Cardinality(S) -> S]
    BY DEF Orders, SetToSeqs
  <2> HIDE DEF S
  <2>3. order \in Seq(S)
    BY <2>1, <2>2, SeqDef
  <2>4. Len(order) \in Nat /\ \A k \in 1..Len(order) : order[k] \in S
    BY <2>3, LenProperties, ElementOfSeq
  <2> QED
    BY <2>4 DEF S
<1> HIDE DEF S
<1>1. OpenedUpto(e, order, F, Len(order))
  BY <1>0, OpenedUptoExists
<1>2. Reopened(e, order) = F[Len(order)]
  BY DEF Reopened, OpenedUpto
<1> HIDE DEF F
<1>3. F[0] = e /\ \A k \in 1..Len(order) : F[k] = NotifyOpen(F[k - 1], order[k])
  <2>1. 0 \in 0..Len(order) /\ \A k \in 1..Len(order) : k \in 0..Len(order) /\ k # 0
    BY <1>0
  <2> QED
    BY <1>1, <2>1 DEF OpenedUpto
<1> DEFINE Right(r) == /\ Sound(r) /\ \A g \in Files : Told(e, g) => Told(r, g)
                       /\ r.enabled = e.enabled /\ r.text = e.text /\ r.owed = e.owed
                       /\ Forgets(e, r)
           T == {k \in Nat : k <= Len(order) => Right(F[k])}
<1>4. 0 \in T
  BY <1>3 DEF Forgets
<1>5. ASSUME NEW k \in Nat, k \in T PROVE k + 1 \in T
  <2> SUFFICES ASSUME k + 1 <= Len(order) PROVE Right(F[k + 1])
    OBVIOUS
  <2>1. k + 1 \in 1..Len(order) /\ k <= Len(order) /\ (k + 1) - 1 = k
    BY <1>0
  <2>2. Right(F[k]) /\ order[k + 1] \in Files
    BY <1>0, <1>5, <2>1
  <2> DEFINE was == F[k]
             is == NotifyOpen(was, order[k + 1])
  <2>3. F[k + 1] = is
    BY <1>3, <2>1
  <2> HIDE DEF was
  <2>4. Right(was)
    BY <2>2 DEF was
  <2>5. /\ Sound(is) /\ \A g \in Files : Told(was, g) => Told(is, g)
        /\ is.enabled = was.enabled /\ is.text = was.text /\ is.owed = was.owed
        /\ Forgets(was, is)
    BY <2>2, <2>4, NotifyOpenSound
  <2> HIDE DEF is
  <2>6. Right(is)
    BY <2>4, <2>5 DEF Forgets
  <2> HIDE DEF Right
  <2> QED
    BY <2>3, <2>6
<1>6. Right(F[Len(order)])
  <2>1. Nat \subseteq T
    <3> HIDE DEF T
    <3> QED BY <1>4, <1>5, EveryNumber
  <2> HIDE DEF Right
  <2> QED
    BY <1>0, <2>1
<1> QED
  BY <1>2, <1>6

\* A server that stays as it is has moved on too.
LEMMA MovedSame ==
  ASSUME NEW l \in Links, NEW f \in Files
  PROVE  Moved(l, l, f)
<1>1. l.opens <= l.opens
  BY DEF Links
<1> QED
  BY <1>1 DEF Moved

\* When no link and no findings change, a file is told if nothing of it changes.
LEMMA EditorStays ==
  ASSUME NEW e, Sound(e), NEW r \in Editors, r.enabled = e.enabled, r.link = e.link,
         r.slice = e.slice
  PROVE  /\ Sound(r)
         /\ \A g \in Files : /\ Told(e, g) /\ r.text[g] = e.text[g]
                             /\ g \in e.owed => g \in r.owed
                             => Told(r, g)
BY DEF Sound, Told

\* An edit that is taken off the list is the only file that can fall behind.
LEMMA EditTaken ==
  ASSUME NEW e, Sound(e), NEW f \in Files
  PROVE  LET r == [e EXCEPT !.owed = @ \ {f}] IN
         /\ Sound(r) /\ \A g \in Files \ {f} : Told(e, g) => Told(r, g)
         /\ r.enabled = e.enabled /\ r.text = e.text /\ r.link = e.link
         /\ r.slice = e.slice /\ r.hints = e.hints /\ r.owed = e.owed \ {f}
<1> DEFINE owed2 == e.owed \ {f}
           r == [e EXCEPT !.owed = owed2]
<1>1. /\ r \in Editors /\ r.enabled = e.enabled /\ r.text = e.text /\ r.link = e.link
      /\ r.slice = e.slice /\ r.hints = e.hints /\ r.owed = e.owed \ {f}
  BY DEF Sound, Editors
<1> HIDE DEF r
<1>2. Sound(r) /\ \A g \in Files \ {f} : Told(e, g) => Told(r, g)
  BY <1>1, EditorStays
<1> QED
  BY <1>1, <1>2 DEF r

\* Every server is told the text of f before the save.
LEMMA AllSaved ==
  ASSUME NEW e, Sound(e), NEW f \in Files, \A g \in Files \ {f} : Told(e, g)
  PROVE  LET r == SavedAll(e, f) IN
         Sound(r) /\ (\A g \in Files : Told(r, g)) /\ r.slice = e.slice
<1> DEFINE t == e.text[f]
           r == SavedAll(e, f)
           link2 == [s \in Servers |-> Saved(e.link[s], f, t)]
<1>0. e \in Editors /\ t \in Texts \cup {NoText}
  BY DEF Sound, Editors
<1>1. r = [e EXCEPT !.link = link2]
  BY DEF SavedAll
<1> HIDE DEF r
<1>2. ASSUME NEW s \in Servers
      PROVE  /\ LinkSound(link2[s]) /\ Moved(e.link[s], link2[s], f)
             /\ Running(e.link[s]) => f \in link2[s].refused \/ link2[s].docs[f].text = t
  <2>1. LinkSound(e.link[s])
    BY DEF Sound
  <2> QED
    BY <1>0, <2>1, SavedSound
<1>3. link2 \in [Servers -> Links]
  BY <1>2 DEF LinkSound
<1> HIDE DEF link2
<1>4. /\ r \in Editors /\ r.enabled = e.enabled /\ r.text = e.text /\ r.owed = e.owed
      /\ r.link = link2 /\ r.slice = e.slice
  BY <1>0, <1>1, <1>3 DEF Editors
<1>5. Sound(r) /\ \A g \in Files \ {f} : Told(e, g) => Told(r, g)
  BY <1>2, <1>4, EditorMoves
<1>6. Told(r, f)
  BY <1>2, <1>4, ServersAssumption DEF Told, Moved, Running
<1> QED
  BY <1>4, <1>5, <1>6 DEF r

\* No server claims a file that is closed.
LEMMA AllClosed ==
  ASSUME NEW e, Sound(e), NEW f \in Files, \A g \in Files : Told(e, g)
  PROVE  LET r == ClosedAll(e, f) IN
         Sound(r) /\ (\A g \in Files : Told(r, g)) /\ r.slice = e.slice
<1> DEFINE link2 == [s \in Servers |-> Closed(e.link[s], f)]
           owed2 == e.owed \ {f}
           text2 == [e.text EXCEPT ![f] = NoText]
           r == [e EXCEPT !.link = link2, !.owed = owed2, !.text = text2]
<1>0. e \in Editors
  BY DEF Sound
<1>1. r = ClosedAll(e, f)
  BY DEF ClosedAll
<1>2. ASSUME NEW s \in Servers
      PROVE  LinkSound(link2[s]) /\ Moved(e.link[s], link2[s], f) /\ link2[s].docs[f] = NoDoc
  <2>1. LinkSound(e.link[s])
    BY DEF Sound
  <2> QED
    BY <2>1, ClosedSound
<1>3. link2 \in [Servers -> Links]
  BY <1>2 DEF LinkSound
<1>4. text2 \in [Files -> Texts \cup {NoText}] /\ \A g \in Files \ {f} : text2[g] = e.text[g]
  BY <1>0 DEF Editors
<1> HIDE DEF link2, text2
<1>5. /\ r \in Editors /\ r.enabled = e.enabled /\ r.text = text2 /\ r.owed = owed2
      /\ r.link = link2 /\ r.slice = e.slice
  BY <1>0, <1>3, <1>4 DEF Editors
<1> HIDE DEF r
<1>6. Sound(r) /\ \A g \in Files \ {f} : Told(e, g) => Told(r, g)
  BY <1>2, <1>4, <1>5, EditorMoves
<1>7. Told(r, f)
  BY <1>2, <1>5, ServersAssumption DEF Told
<1> QED
  <2>1. Sound(r) /\ (\A g \in Files : Told(r, g)) /\ r.slice = e.slice
    BY <1>5, <1>6, <1>7
  <2> HIDE DEF r
  <2> QED
    BY <1>1, <2>1

\* The flush of a request tells the primary.
LEMMA FlushedSound ==
  ASSUME NEW e, Sound(e), NEW f \in Files
  PROVE  LET r == Flushed(e, f) IN
         /\ Sound(r) /\ Told(r, f) /\ \A g \in Files : Told(e, g) => Told(r, g)
         /\ r.enabled = e.enabled /\ Forgets(e, r)
         /\ LET l == r.link[Primary] IN
              Running(l) => l.docs[f] # NoDoc \/ (f \in l.refused /\ ~Fits(l))
<1> DEFINE e1 == Ensured(e)
           x == Synced(e1.link[Primary], f, e.text[f])
           link2 == [e1.link EXCEPT ![Primary] = x]
           owed2 == e1.owed \ {f}
           r == [e1 EXCEPT !.owed = owed2, !.link = link2]
<1>0. /\ Sound(e1) /\ \A g \in Files : Told(e, g) => Told(e1, g)
      /\ e1.enabled = e.enabled /\ e1.text = e.text /\ e1.owed = e.owed /\ Forgets(e, e1)
  BY EnsuredSound
<1>1. r = Flushed(e, f)
  BY DEF Flushed
<1> HIDE DEF e1
<1>2. e1 \in Editors /\ e.text[f] \in Texts \cup {NoText}
  BY <1>0 DEF Sound, Editors
<1>3. /\ LinkSound(x) /\ Moved(e1.link[Primary], x, f)
      /\ Running(e1.link[Primary]) => /\ f \in x.refused \/ x.docs[f].text = e.text[f]
                                      /\ x.docs[f] # NoDoc \/ (f \in x.refused /\ ~Fits(x))
  <2>1. LinkSound(e1.link[Primary])
    BY <1>0, ServersAssumption DEF Sound
  <2> QED
    BY <1>2, <2>1, SyncedSound
<1> HIDE DEF x
<1>4. ASSUME NEW s \in Servers
      PROVE  /\ LinkSound(link2[s]) /\ Moved(e1.link[s], link2[s], f) /\ link2[s] \in Links
             /\ link2[Primary] = x
  <2>1. e1.link \in [Servers -> Links] /\ LinkSound(e1.link[s])
    BY <1>0, <1>2 DEF Sound, Editors
  <2>2. Moved(e1.link[s], e1.link[s], f)
    BY <2>1, MovedSame
  <2>3. x \in Links
    BY <1>3 DEF LinkSound
  <2> QED
    BY <1>3, <2>1, <2>2, <2>3, ServersAssumption
<1>5. link2 \in [Servers -> Links]
  <2>1. link2 = [s \in Servers |-> link2[s]]
    BY <1>2 DEF Editors
  <2> HIDE DEF link2
  <2> QED
    BY <1>4, <2>1
<1> HIDE DEF link2
<1>6. /\ r \in Editors /\ r.enabled = e1.enabled /\ r.text = e1.text /\ r.owed = owed2
      /\ r.link = link2 /\ r.slice = e1.slice
  BY <1>2, <1>5 DEF Editors
<1> HIDE DEF r
<1>7. Sound(r) /\ \A g \in Files \ {f} : Told(e1, g) => Told(r, g)
  BY <1>0, <1>4, <1>6, EditorMoves
<1>8. Told(r, f)
  <2>1. r.link[Primary] = x /\ r.text = e.text
    BY <1>0, <1>4, <1>6, ServersAssumption
  <2>2. Running(x) => Running(e1.link[Primary])
    BY <1>3 DEF Moved, Running
  <2> QED
    BY <1>3, <2>1, <2>2 DEF Told
<1>9. Running(x) => x.docs[f] # NoDoc \/ (f \in x.refused /\ ~Fits(x))
  BY <1>3 DEF Moved, Running
<1>10. Forgets(e, r)
  BY <1>0, <1>6 DEF Forgets
<1> QED
  <2>1. /\ Sound(r) /\ Told(r, f) /\ \A g \in Files : Told(e, g) => Told(r, g)
        /\ r.enabled = e.enabled /\ Forgets(e, r)
        /\ Running(r.link[Primary]) =>
             \/ r.link[Primary].docs[f] # NoDoc
             \/ f \in r.link[Primary].refused /\ ~Fits(r.link[Primary])
    BY <1>0, <1>4, <1>6, <1>7, <1>8, <1>9, <1>10, ServersAssumption
  <2> QED
    BY <1>1, <2>1

\* A change that is due is told to every server.
LEMMA DueSentSound ==
  ASSUME NEW e, Sound(e), NEW f \in Files
  PROVE  LET r == DueSent(e, f) IN
         /\ Sound(r) /\ Told(r, f) /\ \A g \in Files : Told(e, g) => Told(r, g)
         /\ r.enabled = e.enabled /\ r.text = e.text /\ Keeps(e, r) /\ Forgets(e, r)
<1> DEFINE taken == [e EXCEPT !.owed = @ \ {f}]
           e1 == Ensured(taken)
           e2 == SyncedAll(e1, f)
           r == DueSent(e, f)
<1>1. /\ Sound(taken) /\ \A g \in Files \ {f} : Told(e, g) => Told(taken, g)
      /\ taken.enabled = e.enabled /\ taken.text = e.text
      /\ taken.slice = e.slice
  BY EditTaken
<1>2. r = IF ~e.enabled THEN taken
          ELSE MarkDirty(ToAll(Ensured(taken), LAMBDA l : Synced(l, f, e.text[f])), f)
  BY DEF DueSent
<1> HIDE DEF taken, r
<1>3. CASE ~e.enabled
  <2>1. r = taken
    BY <1>2, <1>3
  <2>2. Told(taken, f)
    BY <1>1, <1>3, ServersAssumption DEF Sound, Told
  <2> QED
    BY <1>1, <2>1, <2>2 DEF r, Keeps, Forgets
<1>4. CASE e.enabled
  <2>1. /\ Sound(e1) /\ \A g \in Files : Told(taken, g) => Told(e1, g)
        /\ e1.enabled = taken.enabled /\ e1.text = taken.text
        /\ Keeps(taken, e1) /\ Forgets(taken, e1)
    BY <1>1, EnsuredSound
  <2>2. r = MarkDirty(e2, f)
    <3>1. r = MarkDirty(ToAll(e1, LAMBDA l : Synced(l, f, e.text[f])), f)
      BY <1>2, <1>4
    <3> HIDE DEF e1
    <3>2. ToAll(e1, LAMBDA l : Synced(l, f, e.text[f])) = e2
      BY <1>1, <2>1 DEF ToAll, SyncedAll
    <3> HIDE DEF e2
    <3> QED BY <3>1, <3>2
  <2> HIDE DEF e1
  <2>3. /\ Sound(e2) /\ Told(e2, f) /\ \A g \in Files : Told(e1, g) => Told(e2, g)
        /\ e2.enabled = e1.enabled /\ e2.text = e1.text /\ e2.slice = e1.slice
        /\ \A s \in Servers : e2.link[s].answers = e1.link[s].answers
    BY <2>1, AllSynced
  <2> HIDE DEF e2
  <2> DEFINE h == [e2.hints EXCEPT ![f].dirty = TRUE, ![f].inFlight = FALSE]
             e3 == [e2 EXCEPT !.hints = h]
  <2>4. h \in [Files -> Hints] /\ r = e3
    <3>1. e2.hints \in [Files -> Hints] /\ e2 \in Editors
      BY <2>3 DEF Sound, Editors
    <3>2. h \in [Files -> Hints]
      BY <3>1 DEF Hints
    <3>3. MarkDirty(e2, f) = e3
      BY <3>1 DEF MarkDirty, Editors
    <3> QED
      BY <2>2, <3>2, <3>3
  <2> HIDE DEF h
  <2>5. /\ Sound(e3) /\ \A g \in Files : Told(e2, g) => Told(e3, g)
        /\ e3.enabled = e2.enabled /\ e3.text = e2.text /\ e3.link = e2.link
        /\ e3.slice = e2.slice
    BY <2>3, <2>4, HintsKeep
  <2> HIDE DEF e3
  <2>6. Keeps(e, r) /\ Forgets(e, r)
    BY <1>1, <2>1, <2>3, <2>4, <2>5 DEF Keeps, Forgets
  <2> QED
    BY <1>1, <2>1, <2>3, <2>4, <2>5, <2>6 DEF r
<1> QED
  BY <1>3, <1>4

\* A server's link and findings are replaced.
Replaced(e, s, x, kept) ==
  [e EXCEPT !.link = [e.link EXCEPT ![s] = x], !.slice = [e.slice EXCEPT ![s] = kept]]

\* Nothing else changes.
LEMMA ReplacedFields ==
  ASSUME NEW e \in Editors, NEW s \in Servers, NEW x \in Links, NEW kept \in Slices,
         NEW r, r = Replaced(e, s, x, kept)
  PROVE  /\ r \in Editors /\ r.enabled = e.enabled /\ r.text = e.text /\ r.owed = e.owed
         /\ r.hints = e.hints /\ r.link[s] = x /\ r.slice[s] = kept
         /\ \A q \in Servers \ {s} : r.link[q] = e.link[q] /\ r.slice[q] = e.slice[q]
<1> DEFINE link2 == [e.link EXCEPT ![s] = x]
           slice2 == [e.slice EXCEPT ![s] = kept]
<1>1. /\ link2 \in [Servers -> Links] /\ slice2 \in [Servers -> Slices]
      /\ \A q \in Servers : IF q = s THEN link2[q] = x /\ slice2[q] = kept
                            ELSE link2[q] = e.link[q] /\ slice2[q] = e.slice[q]
  BY DEF Editors
<1>2. r = [e EXCEPT !.link = link2, !.slice = slice2]
  BY DEF Replaced
<1> HIDE DEF link2, slice2
<1>3. /\ r \in Editors /\ r.enabled = e.enabled /\ r.text = e.text /\ r.owed = e.owed
      /\ r.hints = e.hints /\ r.link = link2 /\ r.slice = slice2
  BY <1>1, <1>2 DEF Editors
<1> QED
  BY <1>1, <1>3 DEF link2, slice2

\* A link in order takes the place of another, with the findings that go with it.
LEMMA LinkReplaced ==
  ASSUME NEW e, Sound(e), NEW s \in Servers, NEW x, LinkSound(x), NEW kept \in Slices,
         Applied(x, kept), Running(x) => Running(e.link[s]),
         Running(x) => x.docs = e.link[s].docs /\ e.link[s].refused \subseteq x.refused,
         NEW r, r = Replaced(e, s, x, kept)
  PROVE  Sound(r) /\ \A g \in Files : Told(e, g) => Told(r, g)
<1>1. e \in Editors /\ x \in Links
  BY DEF Sound, LinkSound
<1>2. /\ r \in Editors /\ r.enabled = e.enabled /\ r.text = e.text /\ r.owed = e.owed
      /\ r.link[s] = x /\ r.slice[s] = kept
      /\ \A q \in Servers \ {s} : r.link[q] = e.link[q] /\ r.slice[q] = e.slice[q]
  BY <1>1, ReplacedFields
<1>3. Sound(r)
  BY <1>2 DEF Sound
<1>4. ASSUME NEW g \in Files, Told(e, g) PROVE Told(r, g)
  BY <1>2, <1>4, ServersAssumption DEF Told
<1> QED
  BY <1>3, <1>4

\* A message is read, its entry goes, or its version is noted.
LEMMA LinkReads ==
  ASSUME NEW l, LinkSound(l), NEW r \in Links, r.status = l.status, r.docs = l.docs,
         r.next = l.next, r.queue = l.queue, r.opens = l.opens, r.refused = l.refused,
         r.sent = l.sent, r.known = l.known, r.answers \subseteq l.answers,
         r.pend \subseteq l.pend
  PROVE  LinkSound(r)
<1>0. l \in Links /\ Phase(l) /\ Capped(l) /\ Editions(l)
  BY DEF LinkSound
<1>1. Phase(r) /\ Way(r) = Way(l)
  BY <1>0 DEF Phase, Way, Running
<1>2. Capped(r)
  <2>1. IsFiniteSet(r.pend)
    BY <1>0, FS_Subset DEF Capped
  <2>2. ASSUME NEW kind \in Kinds PROVE Cardinality(OfKind(r.pend, kind)) <= MaxPending
    <3> DEFINE S == OfKind(l.pend, kind)
               T == OfKind(r.pend, kind)
    <3>1. S \in SUBSET l.pend /\ T \in SUBSET S
      BY DEF OfKind
    <3>2. IsFiniteSet(S) /\ Cardinality(S) <= MaxPending
      BY <1>0, <3>1, FS_Subset DEF Capped
    <3> HIDE DEF S, T
    <3>3. IsFiniteSet(T) /\ Cardinality(T) <= Cardinality(S)
      BY <3>1, <3>2, FS_Subset
    <3>4. Cardinality(T) \in Nat /\ Cardinality(S) \in Nat
      BY <3>2, <3>3, FS_CardinalityType
    <3>5. Cardinality(T) <= MaxPending
      BY <3>2, <3>3, <3>4, BoundsAssumption
    <3> QED
      BY <3>5 DEF T
  <2> QED
    BY <1>0, <2>1, <2>2 DEF Capped
<1>3. l.next <= r.next /\ l.opens <= r.opens
  BY <1>0 DEF Links
<1>4. \A g \in Files : r.docs[g].opening <= r.opens /\ r.docs[g] = l.docs[g]
  BY <1>0 DEF Editions
<1>5. Running(r) => Running(l)
  BY DEF Running
<1> QED
  BY <1>1, <1>2, <1>3, <1>4, <1>5, QuietKeeps

\* The edits of a reply are owed.
LEMMA EditsAppliedSound ==
  ASSUME NEW e, Sound(e), NEW f \in Files, NEW t \in Texts
  PROVE  LET r == EditsApplied(e, f, t) IN
         /\ Sound(r) /\ \A g \in Files : Told(e, g) => Told(r, g)
         /\ r.enabled = e.enabled /\ r.link = e.link /\ r.slice = e.slice
<1> DEFINE text2 == [e.text EXCEPT ![f] = t]
           owed2 == e.owed \cup {f}
           r == [e EXCEPT !.text = text2, !.owed = owed2]
<1>0. e \in Editors
  BY DEF Sound
<1>1. CASE e.text[f] \in {NoText, t}
  BY <1>1 DEF EditsApplied
<1>2. CASE e.text[f] \notin {NoText, t}
  <2>1. EditsApplied(e, f, t) = r
    BY <1>2 DEF EditsApplied
  <2>2. text2 \in [Files -> Texts \cup {NoText}] /\ text2[f] = t
        /\ \A g \in Files \ {f} : text2[g] = e.text[g]
    BY <1>0 DEF Editors
  <2> HIDE DEF text2
  <2>3. /\ r \in Editors /\ r.enabled = e.enabled /\ r.text = text2 /\ r.owed = owed2
        /\ r.link = e.link /\ r.slice = e.slice
    BY <1>0, <2>2 DEF Editors
  <2> HIDE DEF r
  <2>4. Sound(r) /\ \A g \in Files \ {f} : Told(e, g) => Told(r, g)
    BY <2>2, <2>3, EditorStays
  <2>5. Told(r, f)
    BY <2>2, <2>3, TextsAssumption DEF Told
  <2> QED
    BY <2>1, <2>3, <2>4, <2>5
<1> QED
  BY <1>1, <1>2

\* One message of a server is handled: a publish that is current becomes what is
\* kept of its file, and nothing else of the findings changes.
LEMMA HandledSound ==
  ASSUME NEW e, Sound(e), NEW s \in Servers, NEW a \in e.link[s].answers, NEW t \in Texts
  PROVE  LET r == Handled(e, s, a, t) IN
         /\ Sound(r) /\ \A g \in Files : Told(e, g) => Told(r, g)
         /\ \/ r.slice = e.slice
            \/ /\ a.what = "publish" /\ a.file \in Files
               /\ a.doc.version >= e.link[s].applied[a.file]
               /\ r.slice[s][a.file].of = a.doc
               /\ \A g \in Files \ {a.file} : r.slice[s][g] = e.slice[s][g]
               /\ \A q \in Servers \ {s} : r.slice[q] = e.slice[q]
               /\ r.link[s].docs = e.link[s].docs
<1> DEFINE l0 == e.link[s]
           answers == l0.answers \ {a}
           l == [l0 EXCEPT !.answers = answers]
           r == Handled(e, s, a, t)
<1>0. /\ e \in Editors /\ e.link \in [Servers -> Links] /\ e.slice \in [Servers -> Slices]
      /\ LinkSound(l0) /\ Applied(l0, e.slice[s]) /\ l0 \in Links
      /\ Phase(l0) /\ Editions(l0) /\ l0 = e.link[s] /\ a \in l0.answers
  BY DEF Sound, Editors, LinkSound
<1>1. Running(l0) /\ a \in Answers
  BY <1>0 DEF Phase, Links
<1>2. a.what # "init" => l0.status # "starting"
  BY <1>0 DEF Phase
<1> DEFINE read == [e EXCEPT !.link[s] = l]
           p == Found(l, a)
           pend == l.pend \ {p}
           taken == [l EXCEPT !.pend = pend]
           answered == [e EXCEPT !.link[s] = taken]
<1>3. r = CASE a.what = "init" ->
                 [e EXCEPT !.link[s] = IF a.ok THEN Ready(l) ELSE Stopped(l)]
            [] a.what = "publish" /\ Current(l, a) ->
                 [e EXCEPT !.link[s] = [l EXCEPT !.applied[a.file] = a.doc.version],
                           !.slice[s][a.file] = [of |-> a.doc]]
            [] a.what = "reply" /\ Matches(l, a) # {} /\ ~Accepts(l, a) -> answered
            [] a.what = "reply" /\ Accepts(l, a) ->
                 CASE p.kind = "inlay" ->
                        [answered EXCEPT !.hints[p.file] =
                           [dirty |-> FALSE, inFlight |-> FALSE, of |-> a.doc.text]]
                   [] p.kind \in {"format", "rename"} -> EditsApplied(answered, p.file, t)
                   [] OTHER -> answered
            [] OTHER -> read
  BY DEF Handled
<1> HIDE DEF r, l0
<1>4. /\ l \in Links /\ l.status = l0.status /\ l.docs = l0.docs /\ l.applied = l0.applied
      /\ l.pend = l0.pend /\ l.next = l0.next /\ l.queue = l0.queue /\ l.opens = l0.opens
      /\ l.refused = l0.refused /\ l.sent = l0.sent /\ l.known = l0.known
      /\ l.answers = answers /\ answers \subseteq l0.answers
  <2>1. answers \in SUBSET Answers /\ answers \subseteq l0.answers
    BY <1>0 DEF Links
  <2> HIDE DEF answers
  <2> QED
    BY <1>0, <2>1 DEF Links
<1> HIDE DEF l
<1>5. LinkSound(l)
  <2> HIDE DEF answers
  <2> QED BY <1>0, <1>4, LinkReads
<1>6. Running(l) /\ e.slice[s] \in Slices /\ Applied(l, e.slice[s])
  BY <1>0, <1>1, <1>4 DEF Running, Applied
<1>7. \A x : [e EXCEPT !.link[s] = x] = Replaced(e, s, x, e.slice[s])
  <2>1. [e.slice EXCEPT ![s] = e.slice[s]] = e.slice
    BY <1>0
  <2> QED
    BY <1>0, <2>1 DEF Editors, Replaced
<1>8. ASSUME NEW x, LinkSound(x), Running(x) => x.docs = l0.docs /\ l0.refused \subseteq x.refused,
             Applied(x, e.slice[s])
      PROVE  LET e2 == [e EXCEPT !.link[s] = x] IN
             /\ Sound(e2) /\ \A g \in Files : Told(e, g) => Told(e2, g)
             /\ e2.slice = e.slice /\ e2.hints = e.hints
  <2> DEFINE e2 == [e EXCEPT !.link[s] = x]
             kept == e.slice[s]
  <2>1. kept = e.slice[s]
    OBVIOUS
  <2>2. e2 = Replaced(e, s, x, kept)
    BY <1>7
  <2> HIDE DEF e2
  <2>3. /\ kept \in Slices /\ Applied(x, kept) /\ Running(e.link[s])
        /\ Running(x) => x.docs = e.link[s].docs /\ e.link[s].refused \subseteq x.refused
    BY <1>0, <1>1, <1>6, <1>8
  <2> HIDE DEF kept
  <2>4. /\ Sound(e2) /\ \A g \in Files : Told(e, g) => Told(e2, g)
        /\ e2.slice[s] = kept /\ \A q \in Servers \ {s} : e2.slice[q] = e.slice[q]
        /\ e2.hints = e.hints /\ e2 \in Editors
    <3>1. Sound(e2) /\ \A g \in Files : Told(e, g) => Told(e2, g)
      BY <1>8, <2>2, <2>3, LinkReplaced
    <3>2. e \in Editors /\ x \in Links /\ kept \in Slices
      BY <1>0, <1>8, <2>3 DEF LinkSound
    <3>3. /\ e2.slice[s] = kept /\ \A q \in Servers \ {s} : e2.slice[q] = e.slice[q]
          /\ e2.hints = e.hints /\ e2 \in Editors
      BY <2>2, <3>2, ReplacedFields
    <3> QED
      BY <3>1, <3>3
  <2>5. e2.slice = e.slice
    BY <1>0, <2>1, <2>4 DEF Editors
  <2> QED
    BY <2>4, <2>5 DEF e2
<1>10. CASE a.what = "init"
  <2> DEFINE x == IF a.ok THEN Ready(l) ELSE Stopped(l)
  <2>1. r = [e EXCEPT !.link[s] = x]
    BY <1>3, <1>10
  <2>2. /\ LinkSound(x) /\ Applied(x, e.slice[s])
        /\ Running(x) => x.docs = l0.docs /\ l0.refused \subseteq x.refused
    <3>1. CASE a.ok
      <4>1. /\ LinkSound(Ready(l)) /\ Ready(l).docs = l.docs /\ Ready(l).refused = l.refused
            /\ Ready(l).applied = l.applied /\ Ready(l).opens = l.opens
            /\ Ready(l).status = "ready"
        BY <1>5, <1>6, ReadySound
      <4> QED
        BY <1>4, <1>6, <3>1, <4>1 DEF Applied
    <3>2. CASE ~a.ok
      <4>1. LinkSound(Stopped(l)) /\ Stopped(l).status = "stopped"
        BY <1>5, StoppedSound
      <4>2. ~Running(Stopped(l))
        BY <4>1 DEF Running
      <4> QED
        BY <3>2, <4>1, <4>2 DEF Applied
    <3> QED
      BY <3>1, <3>2
  <2> HIDE DEF x
  <2> DEFINE e2 == [e EXCEPT !.link[s] = x]
  <2>3. /\ Sound(e2) /\ \A g \in Files : Told(e, g) => Told(e2, g)
        /\ e2.slice = e.slice
    BY <1>8, <2>2
  <2>4. r = e2
    BY <2>1
  <2> HIDE DEF e2
  <2> QED
    BY <2>3, <2>4 DEF r
<1>11. CASE a.what = "publish" /\ Current(l, a)
  <2>1. /\ a.file \in Files /\ a.doc \in Doc /\ a.doc.version \in Nat /\ a.doc # NoDoc
        /\ a.doc.opening <= l0.opens
    <3>1. a.file \in Files /\ a.doc \in Doc
      BY <1>1, <1>11 DEF Answers
    <3>2. Mentions(l0, a.file, a.doc)
      BY <1>0, <1>11 DEF Mentions
    <3> QED
      BY <1>0, <3>1, <3>2, NoDocIsNone DEF Doc, Editions, Edition
  <2> DEFINE f == a.file
             d == a.doc
             applied == [l.applied EXCEPT ![f] = d.version]
             x == [l EXCEPT !.applied = applied]
             old == e.slice[s]
             kept == [old EXCEPT ![f] = [of |-> d]]
  <2>2. r = [e EXCEPT !.link[s] = x, !.slice[s][f] = [of |-> d]]
    BY <1>3, <1>11
  <2>3. /\ applied \in [Files -> Nat \cup {-1}] /\ applied[f] = d.version
        /\ \A g \in Files \ {f} : applied[g] = l.applied[g]
    BY <1>4, <2>1 DEF Links
  <2> HIDE DEF applied
  <2>4. /\ x \in Links /\ x.status = l.status /\ x.docs = l.docs /\ x.applied = applied
        /\ x.pend = l.pend /\ x.next = l.next /\ x.queue = l.queue /\ x.opens = l.opens
        /\ x.refused = l.refused /\ x.sent = l.sent /\ x.known = l.known
        /\ x.answers = l.answers
    BY <1>4, <2>3 DEF Links
  <2>5. LinkSound(x)
    <3> HIDE DEF x
    <3> QED BY <1>5, <2>4, LinkReads
  <2>6. old \in Slices
    BY <1>0
  <2>7. r = Replaced(e, s, x, kept)
    <3> HIDE DEF x
    <3> QED BY <1>0, <2>2 DEF Editors, Replaced
  <2> HIDE DEF x, old
  <2>8. /\ kept \in Slices /\ kept[f].of = d /\ \A g \in Files \ {f} : kept[g] = old[g]
    BY <2>1, <2>6 DEF Slices
  <2>9. Applied(x, kept)
    <3>1. x.status # "starting" /\ x.docs = l0.docs /\ x.opens = l0.opens
          /\ \A g \in Files \ {f} : x.applied[g] = l.applied[g] /\ x.applied[f] = d.version
      BY <1>2, <1>4, <1>11, <2>3, <2>4
    <3>2. ASSUME NEW g \in Files, kept[g].of # NoDoc
          PROVE  /\ kept[g].of.opening <= x.opens
                 /\ x.docs[g] # NoDoc /\ kept[g].of.opening = x.docs[g].opening
                      => x.applied[g] >= kept[g].of.version
      <4>1. CASE g = f
        BY <2>1, <2>3, <2>4, <2>8, <3>1, <4>1
      <4>2. CASE g # f
        <5>1. Applied(l, old)
          BY <1>6 DEF old
        <5>2. kept[g] = old[g] /\ x.applied[g] = l.applied[g] /\ x.docs = l.docs
              /\ x.opens = l.opens
          BY <2>3, <2>4, <2>8, <4>2
        <5> QED
          BY <1>6, <3>2, <5>1, <5>2 DEF Applied
      <4> QED
        BY <4>1, <4>2
    <3> QED
      BY <3>1, <3>2 DEF Applied
  <2>10. x.docs = l0.docs /\ l0.refused \subseteq x.refused
    BY <1>4, <2>4
  <2>11. /\ Sound(r) /\ \A g \in Files : Told(e, g) => Told(r, g)
         /\ r.link[s] = x /\ r.slice[s] = kept
         /\ \A q \in Servers \ {s} : r.slice[q] = e.slice[q]
    <3>1. Running(e.link[s]) /\ x.docs = e.link[s].docs /\ e.link[s].refused \subseteq x.refused
      BY <1>0, <1>1, <2>10
    <3> HIDE DEF kept
    <3>2. kept \in Slices
      BY <2>8
    <3>3. Sound(r) /\ \A g \in Files : Told(e, g) => Told(r, g)
      BY <2>5, <2>7, <2>9, <3>1, <3>2, LinkReplaced
    <3>4. /\ r.link[s] = x /\ r.slice[s] = kept
          /\ \A q \in Servers \ {s} : r.slice[q] = e.slice[q]
      <4>1. e \in Editors /\ x \in Links
        BY <1>0, <2>4
      <4> QED
        BY <2>7, <3>2, <4>1, ReplacedFields
    <3> QED BY <3>3, <3>4
  <2>12. a.doc.version >= l0.applied[a.file]
    BY <1>4, <1>11 DEF Current
  <2>13. /\ a.file \in Files /\ a.doc.version >= e.link[s].applied[a.file]
         /\ r.slice[s][a.file].of = a.doc
         /\ \A g \in Files \ {a.file} : r.slice[s][g] = e.slice[s][g]
         /\ \A q \in Servers \ {s} : r.slice[q] = e.slice[q]
         /\ r.link[s].docs = e.link[s].docs
    BY <1>0, <2>1, <2>8, <2>10, <2>11, <2>12 DEF old
  <2> HIDE DEF kept
  <2> QED
    BY <1>11, <2>11, <2>13 DEF r
<1>12. /\ Sound(read) /\ \A g \in Files : Told(e, g) => Told(read, g)
       /\ read.slice = e.slice
  BY <1>4, <1>5, <1>6, <1>8
<1>13. ASSUME Matches(l, a) # {}
       PROVE  /\ Sound(answered) /\ \A g \in Files : Told(e, g) => Told(answered, g)
              /\ answered.slice = e.slice /\ answered.hints = e.hints /\ p.file \in Files
  <2>1. p \in l.pend /\ p \in Entries
    <3>1. p \in l.pend
      BY <1>4, <1>13, FoundMatches
    <3> QED
      BY <1>4, <3>1 DEF Links
  <2> HIDE DEF p
  <2>2. pend \in SUBSET Entries /\ pend \subseteq l.pend
    BY <1>4 DEF Links
  <2> HIDE DEF pend
  <2>3. /\ taken \in Links /\ taken.status = l.status /\ taken.docs = l.docs
        /\ taken.applied = l.applied
        /\ taken.pend = pend /\ taken.next = l.next /\ taken.queue = l.queue
        /\ taken.opens = l.opens /\ taken.refused = l.refused /\ taken.sent = l.sent
        /\ taken.known = l.known /\ taken.answers = l.answers
    BY <1>4, <2>2 DEF Links
  <2> HIDE DEF taken
  <2>4. LinkSound(taken)
    BY <1>5, <2>2, <2>3, LinkReads
  <2>5. Applied(taken, e.slice[s])
    BY <1>6, <2>3 DEF Applied
  <2>6. taken.docs = l0.docs /\ l0.refused \subseteq taken.refused
    BY <1>4, <2>3
  <2>7. answered = [e EXCEPT !.link[s] = taken]
    OBVIOUS
  <2> HIDE DEF answered
  <2> QED
    BY <1>8, <2>1, <2>4, <2>5, <2>6, <2>7 DEF Entries
<1>14. CASE a.what = "reply" /\ Matches(l, a) # {} /\ ~Accepts(l, a)
  <2>1. r = answered
    BY <1>3, <1>14
  <2> HIDE DEF answered
  <2> QED
    BY <1>13, <1>14, <2>1 DEF r
<1>15. CASE a.what = "reply" /\ Accepts(l, a)
  <2>1. Matches(l, a) # {}
    BY <1>15 DEF Accepts
  <2>2. r = CASE p.kind = "inlay" ->
                   [answered EXCEPT !.hints[p.file] =
                      [dirty |-> FALSE, inFlight |-> FALSE, of |-> a.doc.text]]
              [] p.kind \in {"format", "rename"} -> EditsApplied(answered, p.file, t)
              [] OTHER -> answered
    BY <1>3, <1>15, <2>1
  <2>3. /\ Sound(answered) /\ \A g \in Files : Told(e, g) => Told(answered, g)
        /\ answered.slice = e.slice /\ answered.hints = e.hints /\ p.file \in Files
    BY <1>13, <2>1
  <2> HIDE DEF answered, p
  <2>4. CASE p.kind = "inlay"
    <3> DEFINE entry == [dirty |-> FALSE, inFlight |-> FALSE, of |-> a.doc.text]
               h == [answered.hints EXCEPT ![p.file] = entry]
               e3 == [answered EXCEPT !.hints = h]
    <3>1. r = e3
      BY <2>2, <2>4
    <3>2. entry \in Hints
      <4>1. a.doc \in Doc \cup {NoDoc}
        BY <1>1, <1>15 DEF Answers
      <4>2. a.doc.text \in Texts \cup {NoText}
        BY <4>1 DEF Doc, NoDoc
      <4> QED
        BY <4>2 DEF Hints
    <3> HIDE DEF entry
    <3>3. h \in [Files -> Hints]
      BY <2>3, <3>2 DEF Sound, Editors
    <3> HIDE DEF h
    <3>4. /\ Sound(e3) /\ \A g \in Files : Told(answered, g) => Told(e3, g)
          /\ e3.slice = answered.slice
      BY <2>3, <3>3, HintsKeep
    <3> HIDE DEF e3
    <3> QED
      BY <2>3, <3>1, <3>4 DEF r
  <2>5. CASE p.kind \in {"format", "rename"}
    <3>1. r = EditsApplied(answered, p.file, t)
      BY <2>2, <2>5
    <3>2. /\ Sound(r) /\ \A g \in Files : Told(answered, g) => Told(r, g)
          /\ r.slice = answered.slice
      BY <2>3, <3>1, EditsAppliedSound
    <3> QED
      BY <2>3, <3>2 DEF r
  <2>6. CASE p.kind \notin {"inlay", "format", "rename"}
    <3>1. r = answered
      BY <2>2, <2>6
    <3> QED
      BY <2>3, <3>1 DEF r
  <2> QED
    BY <2>4, <2>5, <2>6
<1>16. CASE /\ a.what # "init" /\ ~(a.what = "publish" /\ Current(l, a))
            /\ ~(a.what = "reply" /\ Matches(l, a) # {} /\ ~Accepts(l, a))
            /\ ~(a.what = "reply" /\ Accepts(l, a))
  <2>1. r = read
    BY <1>3, <1>16
  <2> HIDE DEF read
  <2> QED
    BY <1>12, <2>1 DEF r
<1> QED
  BY <1>10, <1>11, <1>14, <1>15, <1>16

\* Hints are asked only where the document is claimed.
LEMMA HintsAskedSound ==
  ASSUME NEW e, Sound(e), NEW f \in Files, NEW moved
  PROVE  LET r == HintsAsked(e, f, moved) IN
         /\ Sound(r) /\ \A g \in Files : Told(e, g) => Told(r, g)
         /\ r.slice = e.slice /\ \A s \in Servers : r.link[s].docs = e.link[s].docs
<1> DEFINE asks(s) == Running(e.link[s]) /\ e.link[s].docs[f] # NoDoc
           after == [s \in Servers |-> IF asks(s) THEN Request(e.link[s], "inlay", f)
                                       ELSE e.link[s]]
           sent == \E s \in Servers : \E p \in after[s].pend :
                     p.id = e.link[s].next /\ p.kind = "inlay" /\ ~p.old /\ after[s].next > p.id
           r == HintsAsked(e, f, moved)
<1>0. e \in Editors
  BY DEF Sound
<1>1. r = e \/ r = [e EXCEPT !.link = after, !.hints[f].inFlight = sent]
  BY DEF HintsAsked
<1> HIDE DEF r
<1>2. CASE r = e
  BY <1>2 DEF r
<1>3. CASE r = [e EXCEPT !.link = after, !.hints[f].inFlight = sent]
  <2>1. ASSUME NEW s \in Servers
        PROVE  /\ LinkSound(after[s]) /\ Moved(e.link[s], after[s], f)
               /\ after[s].docs = e.link[s].docs /\ after[s].refused = e.link[s].refused
    <3>1. LinkSound(e.link[s]) /\ e.link[s] \in Links
      BY DEF Sound, LinkSound
    <3>2. CASE asks(s)
      <4> DEFINE x == Request(e.link[s], "inlay", f)
      <4>1. /\ LinkSound(x) /\ Moved(e.link[s], x, f) /\ x.refused = e.link[s].refused
            /\ x.docs = e.link[s].docs
        BY <3>1, <3>2, RequestSound DEF Kinds
      <4>2. after[s] = x
        BY <3>2
      <4> HIDE DEF x, after
      <4> QED
        BY <4>1, <4>2
    <3>3. CASE ~asks(s)
      <4>1. after[s] = e.link[s]
        BY <3>3
      <4> HIDE DEF after
      <4> QED
        BY <3>1, <4>1, MovedSame
    <3> QED
      BY <3>2, <3>3
  <2>2. sent \in BOOLEAN
    OBVIOUS
  <2> HIDE DEF sent
  <2>3. after = [s \in Servers |-> after[s]]
    OBVIOUS
  <2> HIDE DEF after
  <2>4. after \in [Servers -> Links]
    BY <2>1, <2>3 DEF LinkSound
  <2> DEFINE h == [e.hints EXCEPT ![f].inFlight = sent]
  <2>5. h \in [Files -> Hints]
    BY <1>0, <2>2 DEF Editors, Hints
  <2>6. r = [e EXCEPT !.link = after, !.hints = h]
    BY <1>3
  <2> HIDE DEF h
  <2>7. /\ r \in Editors /\ r.enabled = e.enabled /\ r.text = e.text /\ r.owed = e.owed
        /\ r.link = after /\ r.slice = e.slice
    BY <1>0, <2>4, <2>5, <2>6 DEF Editors
  <2>8. Sound(r)
    BY <2>1, <2>7, EditorMoves
  <2>9. \A g \in Files : Told(e, g) => Told(r, g)
    BY <2>1, <2>7, ServersAssumption DEF Told, Moved, Running
  <2> QED
    BY <2>1, <2>7, <2>8, <2>9 DEF r
<1> QED
  BY <1>1, <1>2, <1>3

-----------------------------------------------------------------------------
(* The invariant *)

\* Every link is in order, and every file told or owed.
IInv == Sound(ed) /\ \A g \in Files : Told(ed, g)

\* What an editor becomes is the next state.
LEMMA BecomesNext ==
  ASSUME NEW e, Sound(e), \A g \in Files : Told(e, g), Becomes(e)
  PROVE  IInv' /\ slice' = e.slice /\ link' = e.link
<1>1. e \in Editors
  BY DEF Sound
<1>2. e = [enabled |-> e.enabled, text |-> e.text, owed |-> e.owed, link |-> e.link,
           slice |-> e.slice, hints |-> e.hints]
  BY <1>1 DEF Editors
<1>3. ed' = [enabled |-> enabled', text |-> text', owed |-> owed', link |-> link',
             slice |-> slice', hints |-> hints']
  BY DEF ed
<1>4. ed' = e
  BY <1>2, <1>3 DEF Becomes
<1>5. IInv' = (Sound(ed') /\ \A g \in Files : Told(ed', g))
  BY DEF IInv
<1> QED
  BY <1>4, <1>5 DEF Becomes

\* The fields of the state.
LEMMA EdFields ==
  /\ ed.enabled = enabled /\ ed.text = text /\ ed.owed = owed
  /\ ed.link = link /\ ed.slice = slice /\ ed.hints = hints
BY DEF ed

-----------------------------------------------------------------------------
(* The steps *)

\* No findings are on show but those there were.
Forgotten == \A s \in Servers, g \in Files : slice'[s][g].of \in {slice[s][g].of, NoDoc}

\* The buffer of one file changes.
LEMMA TextSet ==
  ASSUME NEW e, Sound(e), NEW f \in Files, NEW t \in Texts \cup {NoText},
         NEW r, r = [e EXCEPT !.text[f] = t]
  PROVE  /\ Sound(r) /\ r.slice = e.slice /\ \A g \in Files \ {f} : Told(e, g) => Told(r, g)
<1> DEFINE text2 == [e.text EXCEPT ![f] = t]
<1>0. e \in Editors
  BY DEF Sound
<1>1. text2 \in [Files -> Texts \cup {NoText}] /\ \A g \in Files \ {f} : text2[g] = e.text[g]
  BY <1>0 DEF Editors
<1>2. r = [e EXCEPT !.text = text2]
  OBVIOUS
<1> HIDE DEF text2
<1>3. /\ r \in Editors /\ r.enabled = e.enabled /\ r.text = text2 /\ r.owed = e.owed
      /\ r.link = e.link /\ r.slice = e.slice
  BY <1>0, <1>1, <1>2 DEF Editors
<1> QED
  BY <1>1, <1>3, EditorStays

\* A request of the primary keeps what it is told.
LEMMA RequestedSound ==
  ASSUME NEW e, Sound(e), NEW f \in Files, NEW kind \in Kinds,
         LET l == e.link[Primary] IN
           Running(l) => l.docs[f] # NoDoc \/ (f \in l.refused /\ ~Fits(l)),
         NEW r, r = [e EXCEPT !.link[Primary] = Request(@, kind, f)]
  PROVE  Sound(r) /\ r.slice = e.slice /\ \A g \in Files : Told(e, g) => Told(r, g)
<1> DEFINE x == Request(e.link[Primary], kind, f)
           link2 == [e.link EXCEPT ![Primary] = x]
<1>0. e \in Editors /\ Primary \in Servers /\ \A s \in Servers : LinkSound(e.link[s])
  BY ServersAssumption DEF Sound
<1>1. /\ LinkSound(x) /\ Moved(e.link[Primary], x, f) /\ x.refused = e.link[Primary].refused
      /\ x.docs[f] = e.link[Primary].docs[f] \/ f \in e.link[Primary].refused
  BY <1>0, RequestSound
<1>2. r = [e EXCEPT !.link = link2]
  OBVIOUS
<1> HIDE DEF x
<1>3. /\ link2 \in [Servers -> Links] /\ link2[Primary] = x
      /\ \A s \in Servers \ {Primary} : link2[s] = e.link[s]
  <2>1. x \in Links
    BY <1>1 DEF LinkSound
  <2> QED
    BY <1>0, <2>1 DEF Editors
<1> HIDE DEF link2
<1>4. /\ r \in Editors /\ r.enabled = e.enabled /\ r.text = e.text /\ r.owed = e.owed
      /\ r.link = link2 /\ r.slice = e.slice
  BY <1>0, <1>2, <1>3 DEF Editors
<1>5. \A s \in Servers : LinkSound(link2[s]) /\ Moved(e.link[s], link2[s], f)
  BY <1>0, <1>1, <1>3, MovedSame DEF LinkSound
<1>6. Sound(r) /\ \A g \in Files \ {f} : Told(e, g) => Told(r, g)
  BY <1>4, <1>5, EditorMoves
<1>7. Told(e, f) => Told(r, f)
  BY <1>1, <1>3, <1>4 DEF Told, Moved, Running
<1> QED
  BY <1>4, <1>6, <1>7

\* A file is opened.
LEMMA OpenStep ==
  ASSUME IInv, NEW f \in Files, Open(f)
  PROVE  IInv' /\ Forgotten
<1>1. PICK t \in Texts : Becomes(NotifyOpen([ed EXCEPT !.text[f] = t], f))
  BY DEF Open
<1> DEFINE e == [ed EXCEPT !.text[f] = t]
           r == NotifyOpen(e, f)
<1>2. /\ Sound(e) /\ e.slice = ed.slice /\ \A g \in Files \ {f} : Told(ed, g) => Told(e, g)
  BY TextSet DEF IInv
<1>3. Becomes(r)
  BY <1>1
<1> HIDE DEF e
<1>4. /\ Sound(r) /\ Told(r, f) /\ \A g \in Files : Told(e, g) => Told(r, g)
      /\ Forgets(e, r)
  BY <1>2, NotifyOpenSound
<1> HIDE DEF r
<1>5. \A g \in Files : Told(r, g)
  BY <1>2, <1>4 DEF IInv
<1>6. IInv' /\ slice' = r.slice
  BY <1>3, <1>4, <1>5, BecomesNext
<1> QED
  BY <1>2, <1>4, <1>6, EdFields DEF Forgets, Forgotten

\* A buffer is edited.
LEMMA EditStep ==
  ASSUME IInv, NEW f \in Files, Edit(f)
  PROVE  IInv' /\ Forgotten
<1>1. PICK t \in Texts \ {text[f]} : Becomes([ed EXCEPT !.text[f] = t, !.owed = @ \cup {f}])
  BY DEF Edit
<1> DEFINE r == EditsApplied(ed, f, t)
<1>2. ed.text[f] \notin {NoText, t}
  BY EdFields DEF Edit
<1>3. Becomes(r)
  BY <1>1, <1>2 DEF EditsApplied
<1>4. Sound(r) /\ (\A g \in Files : Told(r, g)) /\ r.slice = ed.slice
  BY EditsAppliedSound DEF IInv
<1> HIDE DEF r
<1>5. IInv' /\ slice' = r.slice
  BY <1>3, <1>4, BecomesNext
<1> QED
  BY <1>4, <1>5, EdFields DEF Forgotten

\* A file is saved.
LEMMA SaveStep ==
  ASSUME IInv, NEW f \in Files, Save(f)
  PROVE  IInv' /\ Forgotten
<1> DEFINE taken == [ed EXCEPT !.owed = @ \ {f}]
           e == Ensured(taken)
           saved == ToAll(e, LAMBDA l : Saved(l, f, text[f]))
           r == SavedAll(e, f)
<1>1. Becomes(IF ~enabled THEN taken ELSE saved)
  BY DEF Save
<1>2. /\ Sound(taken) /\ \A g \in Files \ {f} : Told(ed, g) => Told(taken, g)
      /\ taken.enabled = ed.enabled /\ taken.text = ed.text /\ taken.slice = ed.slice
  BY EditTaken DEF IInv
<1> HIDE DEF taken
<1>3. /\ Sound(e) /\ \A g \in Files : Told(taken, g) => Told(e, g)
      /\ e.text = taken.text /\ Forgets(taken, e)
  BY <1>2, EnsuredSound
<1> HIDE DEF e
<1>4. \A g \in Files \ {f} : Told(ed, g)
  BY DEF IInv
<1>5. CASE ~enabled
  <2>1. Becomes(taken)
    BY <1>1, <1>5
  <2>2. ~Running(taken.link[Primary])
    BY <1>2, <1>5, EdFields, ServersAssumption DEF Sound
  <2>3. Told(taken, f)
    BY <2>2 DEF Told
  <2>4. IInv' /\ slice' = taken.slice
    BY <1>2, <1>4, <2>1, <2>3, BecomesNext
  <2> QED
    BY <1>2, <2>4, EdFields DEF Forgotten
<1>6. CASE enabled
  <2>1. Becomes(r)
    <3>1. text[f] = e.text[f]
      BY <1>2, <1>3, EdFields
    <3>2. r = saved
      BY <3>1 DEF ToAll, SavedAll
    <3> HIDE DEF r, saved
    <3> QED
      BY <1>1, <1>6, <3>2
  <2>3. Sound(r) /\ (\A g \in Files : Told(r, g)) /\ r.slice = e.slice
    <3>1. \A g \in Files \ {f} : Told(e, g)
      BY <1>2, <1>3, <1>4
    <3> QED
      BY <1>3, <3>1, AllSaved
  <2> HIDE DEF r
  <2>4. IInv' /\ slice' = r.slice
    BY <2>1, <2>3, BecomesNext
  <2> QED
    BY <1>2, <1>3, <2>3, <2>4, EdFields DEF Forgets, Forgotten
<1> QED
  BY <1>5, <1>6

\* A file is closed.
LEMMA CloseStep ==
  ASSUME IInv, NEW f \in Files, Close(f)
  PROVE  IInv' /\ Forgotten
<1> DEFINE closed == [ToAll(ed, LAMBDA l : Closed(l, f)) EXCEPT !.owed = @ \ {f},
                                                               !.text[f] = NoText]
           r == ClosedAll(ed, f)
<1>1. Becomes(r)
  <2>1. ed \in Editors
    BY DEF IInv, Sound
  <2>2. closed = r
    <3> DEFINE e == ed
    <3>1. e \in Editors
      BY <2>1
    <3> HIDE DEF e
    <3>2. [ToAll(e, LAMBDA l : Closed(l, f)) EXCEPT !.owed = @ \ {f}, !.text[f] = NoText]
            = ClosedAll(e, f)
      BY <3>1 DEF ToAll, ClosedAll, Editors
    <3> QED
      BY <3>2 DEF e
  <2>3. Becomes(closed)
    BY DEF Close
  <2> HIDE DEF closed, r
  <2> QED
    BY <2>2, <2>3
<1>2. Sound(r) /\ (\A g \in Files : Told(r, g)) /\ r.slice = ed.slice
  BY AllClosed DEF IInv
<1> HIDE DEF r
<1>3. IInv' /\ slice' = r.slice
  BY <1>1, <1>2, BecomesNext
<1> QED
  BY <1>2, <1>3, EdFields DEF Forgotten

\* The user asks, after the flush.
LEMMA AskStep ==
  ASSUME IInv, NEW f \in Files, NEW kind \in Kinds, Ask(f, kind)
  PROVE  IInv' /\ Forgotten
<1> DEFINE e == Flushed(ed, f)
           r == [e EXCEPT !.link[Primary] = Request(@, kind, f)]
<1>1. Becomes(r)
  BY DEF Ask
<1>2. /\ Sound(e) /\ Told(e, f) /\ \A g \in Files : Told(ed, g) => Told(e, g)
      /\ Forgets(ed, e)
      /\ LET l == e.link[Primary] IN
           Running(l) => l.docs[f] # NoDoc \/ (f \in l.refused /\ ~Fits(l))
  BY FlushedSound DEF IInv
<1> HIDE DEF e
<1>3. Sound(r) /\ r.slice = e.slice /\ \A g \in Files : Told(e, g) => Told(r, g)
  BY <1>2, RequestedSound
<1> HIDE DEF r
<1>4. \A g \in Files : Told(r, g)
  BY <1>2, <1>3 DEF IInv
<1>5. IInv' /\ slice' = r.slice
  BY <1>1, <1>3, <1>4, BecomesNext
<1> QED
  BY <1>2, <1>3, <1>5, EdFields DEF Forgets, Forgotten

\* The user asks for the format of a document that is open.
LEMMA AskFormatStep ==
  ASSUME IInv, NEW f \in Files, AskFormat(f)
  PROVE  IInv' /\ Forgotten
<1> DEFINE e == Ensured(ed)
           r == IF e.link[Primary].docs[f] = NoDoc THEN e
                ELSE [e EXCEPT !.link[Primary] = Request(@, "format", f)]
<1>1. Becomes(r)
  BY DEF AskFormat
<1>2. /\ Sound(e) /\ \A g \in Files : Told(ed, g) => Told(e, g)
      /\ Forgets(ed, e)
  BY EnsuredSound DEF IInv
<1> HIDE DEF e
<1>3. Sound(r) /\ r.slice = e.slice /\ \A g \in Files : Told(e, g) => Told(r, g)
  <2>1. CASE e.link[Primary].docs[f] = NoDoc
    BY <1>2, <2>1
  <2>2. CASE e.link[Primary].docs[f] # NoDoc
    <3>1. r = [e EXCEPT !.link[Primary] = Request(@, "format", f)]
      BY <2>2
    <3> HIDE DEF r
    <3>2. "format" \in Kinds
      BY DEF Kinds
    <3> QED
      BY <1>2, <2>2, <3>1, <3>2, RequestedSound
  <2> QED
    BY <2>1, <2>2
<1> HIDE DEF r
<1>4. \A g \in Files : Told(r, g)
  BY <1>2, <1>3 DEF IInv
<1>5. IInv' /\ slice' = r.slice
  BY <1>1, <1>3, <1>4, BecomesNext
<1> QED
  BY <1>2, <1>3, <1>5, EdFields DEF Forgets, Forgotten

\* A document that stays claimed has findings that are as new as those there were.
Advances(s, f) ==
  LET was == slice[s][f].of is == slice'[s][f].of IN
  /\ NoDoc \notin {was, is, link[s].docs[f], link'[s].docs[f]} /\ was.opening = is.opening
  /\ link[s].docs[f].opening = was.opening
  /\ link'[s].docs[f].opening = was.opening
  => is.version >= was.version

\* Findings that are only forgotten do not go back.
LEMMA ForgottenAdvances ==
  ASSUME IInv, Forgotten
  PROVE  \A s \in Servers, f \in Files : Advances(s, f)
<1> SUFFICES ASSUME NEW s \in Servers, NEW f \in Files PROVE Advances(s, f)
  OBVIOUS
<1>1. slice[s][f].of \in Doc \cup {NoDoc} /\ slice'[s][f].of \in {slice[s][f].of, NoDoc}
  BY EdFields DEF IInv, Sound, Editors, Slices, Forgotten
<1> QED
  BY <1>1 DEF Advances, Doc

\* At most one of a set is the one that is chosen.
LEMMA OnlyOf ==
  ASSUME NEW S, NEW x \in AtMostOne(S), x # {}
  PROVE  Only(x) \in S /\ x = {Only(x)}
BY DEF AtMostOne, Only

\* The poll: a change that is due, a message, the hints.
LEMMA PollStep ==
  ASSUME IInv, NEW s \in Servers, NEW due \in AtMostOne(owed),
         NEW got \in AtMostOne(link[s].answers), NEW view \in AtMostOne(InFront \X BOOLEAN),
         Poll(due, s, got, view)
  PROVE  IInv' /\ \A q \in Servers, f \in Files : Advances(q, f)
<1>1. PICK t \in IF got = {} THEN {NoText} ELSE Texts :
        LET sent == IF due = {} THEN ed ELSE DueSent(ed, Only(due))
            here == got \cap sent.link[s].answers
            read == IF here = {} THEN sent ELSE Handled(sent, s, Only(here), t) IN
        Becomes(IF view = {} THEN read ELSE HintsAsked(read, Only(view)[1], Only(view)[2]))
  BY DEF Poll
<1> DEFINE sent == IF due = {} THEN ed ELSE DueSent(ed, Only(due))
           here == got \cap sent.link[s].answers
           a == Only(here)
           read == IF here = {} THEN sent ELSE Handled(sent, s, a, t)
           r == IF view = {} THEN read ELSE HintsAsked(read, Only(view)[1], Only(view)[2])
<1>2. Becomes(r)
  BY <1>1
<1>3. /\ Sound(ed) /\ (\A g \in Files : Told(ed, g)) /\ ed \in Editors
      /\ ed.owed = owed /\ ed.link = link /\ ed.slice = slice /\ owed \subseteq Files
  <2>1. ed \in Editors
    BY DEF IInv, Sound
  <2> QED
    BY <2>1, EdFields DEF IInv, Editors
<1>4. Sound(sent) /\ (\A g \in Files : Told(sent, g)) /\ Keeps(ed, sent) /\ Forgets(ed, sent)
  <2>1. CASE due = {}
    BY <1>3, <2>1 DEF Keeps, Forgets
  <2>2. CASE due # {}
    <3>1. Only(due) \in Files
      BY <1>3, <2>2, OnlyOf
    <3> QED
      BY <1>3, <2>2, <3>1, DueSentSound
  <2> QED
    BY <2>1, <2>2
<1> HIDE DEF sent
<1>5. here # {} => a \in sent.link[s].answers /\ t \in Texts
  <2> SUFFICES ASSUME here # {} PROVE a \in sent.link[s].answers /\ t \in Texts
    OBVIOUS
  <2>1. got # {} /\ a \in here
    BY DEF Only
  <2> QED
    BY <2>1
<1>6. /\ Sound(read) /\ (\A g \in Files : Told(read, g))
      /\ \/ read.slice = sent.slice
         \/ /\ a \in sent.link[s].answers /\ a.what = "publish" /\ a.file \in Files
            /\ a.doc.version >= sent.link[s].applied[a.file]
            /\ read.slice[s][a.file].of = a.doc
            /\ \A g \in Files \ {a.file} : read.slice[s][g] = sent.slice[s][g]
            /\ \A q \in Servers \ {s} : read.slice[q] = sent.slice[q]
            /\ read.link[s].docs = sent.link[s].docs
  <2>1. CASE here = {}
    BY <1>4, <2>1
  <2>2. CASE here # {}
    <3>1. read = Handled(sent, s, a, t)
      BY <2>2
    <3> HIDE DEF a, here, read
    <3> QED
      BY <1>4, <1>5, <2>2, <3>1, HandledSound
  <2> QED
    BY <2>1, <2>2
<1> HIDE DEF a, here, read
<1>7. /\ Sound(r) /\ (\A g \in Files : Told(r, g)) /\ r.slice = read.slice
      /\ \A q \in Servers : r.link[q].docs = read.link[q].docs
  <2>1. CASE view = {}
    BY <1>6, <2>1
  <2>2. CASE view # {}
    <3> DEFINE f == Only(view)[1]
               moved == Only(view)[2]
    <3>1. Only(view) \in InFront \X BOOLEAN
      BY <2>2, OnlyOf
    <3>2. f \in Files
      BY <3>1, AskedAssumption
    <3>3. r = HintsAsked(read, f, moved)
      BY <2>2
    <3> HIDE DEF f, moved, r
    <3> QED
      BY <1>6, <3>2, <3>3, HintsAskedSound
  <2> QED
    BY <2>1, <2>2
<1> HIDE DEF r
<1>8. IInv' /\ slice' = r.slice /\ link' = r.link
  BY <1>2, <1>7, BecomesNext
<1>9. ASSUME NEW q \in Servers, NEW f \in Files PROVE Advances(q, f)
  <2> DEFINE was == slice[q][f].of
             is == slice'[q][f].of
  <2>1. was \in Doc \cup {NoDoc} /\ slice[q] \in Slices
    BY <1>3 DEF Editors, Slices
  <2>2. CASE is \in {was, NoDoc}
    BY <2>1, <2>2 DEF Advances, Doc
  <2>3. CASE is \notin {was, NoDoc}
    <3>1. sent.slice[q][f].of \in {was, NoDoc}
      BY <1>3, <1>4 DEF Forgets
    <3>2. is = read.slice[q][f].of
      BY <1>7, <1>8
    <3>3. /\ q = s /\ f = a.file /\ a \in sent.link[s].answers /\ a.what = "publish"
          /\ a.doc.version >= sent.link[s].applied[a.file] /\ is = a.doc
          /\ read.link[s].docs = sent.link[s].docs
      BY <1>6, <2>3, <3>1, <3>2
    <3>4. sent.slice[s] = slice[s]
      BY <1>3, <1>4, <3>3 DEF Keeps
    <3>5. LinkSound(sent.link[s]) /\ Applied(sent.link[s], slice[s])
      BY <1>4, <3>4 DEF Sound
    <3>6. Running(sent.link[s]) /\ sent.link[s].applied[f] \in Nat \cup {-1}
          /\ a \in Answers
      BY <3>3, <3>5 DEF LinkSound, Phase, Links
    <3>7. a.doc.version \in Nat
      BY <3>3, <3>6 DEF Answers, Doc
    <3>8. link'[s].docs = sent.link[s].docs
      BY <1>7, <1>8, <3>3
    <3> SUFFICES ASSUME was # NoDoc, link'[q].docs[f] # NoDoc,
                        link'[q].docs[f].opening = was.opening
                 PROVE  is.version >= was.version
      BY DEF Advances
    <3>9. sent.link[s].applied[f] >= was.version
      BY <3>3, <3>5, <3>6, <3>8 DEF Applied
    <3>10. was.version \in Nat
      BY <2>1 DEF Doc
    <3> HIDE DEF was, is
    <3> QED
      BY <3>3, <3>6, <3>7, <3>9, <3>10
  <2> QED
    BY <2>2, <2>3
<1> QED
  BY <1>8, <1>9

\* No findings and no claims are in order, whatever else there is.
LEMMA ClaimNothing ==
  ASSUME NEW e \in Editors,
         \A s \in Servers : /\ LinkSound(e.link[s]) /\ e.slice[s] = NoSlices
                            /\ Running(e.link[s]) => e.enabled /\ e.link[s].docs = NoDocs
  PROVE  Sound(e) /\ \A g \in Files : Told(e, g)
<1>1. Sound(e)
  BY NoneApplied DEF Sound
<1>2. ASSUME NEW g \in Files PROVE Told(e, g)
  BY ServersAssumption DEF Told, NoDocs
<1> QED
  BY <1>1, <1>2

\* A state with no findings forgets.
LEMMA NothingForgotten ==
  ASSUME NEW e \in Editors, \A s \in Servers : e.slice[s] = NoSlices, NEW r, Forgets(e, r),
         slice' = r.slice
  PROVE  Forgotten
BY NoneApplied DEF Forgets, Forgotten

\* Every server is stopped and started.
LEMMA RestartStep ==
  ASSUME IInv, Restart
  PROVE  IInv' /\ Forgotten
<1> DEFINE slice2 == [s \in Servers |-> NoSlices]
           link2 == [s \in Servers |-> IF link[s].status = "absent" THEN link[s]
                                       ELSE Restarted(link[s])]
           e == [ed EXCEPT !.owed = {}, !.slice = slice2, !.link = link2]
<1>0. ed \in Editors /\ enabled /\ \A s \in Servers : LinkSound(link[s])
  BY EdFields DEF IInv, Sound, Restart
<1>1. \E order \in Orders : Becomes(Reopened(e, order))
  BY EdFields DEF Restart
<1>2. PICK order \in Orders : Becomes(Reopened(e, order))
  BY <1>1
<1>3. ASSUME NEW s \in Servers
      PROVE  LinkSound(link2[s]) /\ (Running(link2[s]) => link2[s].docs = NoDocs)
             /\ slice2[s] = NoSlices
  <2>1. CASE link[s].status = "absent"
    BY <1>0, <2>1 DEF Running
  <2>2. CASE link[s].status # "absent"
    BY <1>0, <2>2, RestartedSound
  <2> QED
    BY <2>1, <2>2
<1>4. link2 \in [Servers -> Links] /\ slice2 \in [Servers -> Slices]
  BY <1>3, NoneApplied DEF LinkSound
<1> HIDE DEF link2, slice2
<1>5. e \in Editors /\ e.link = link2 /\ e.slice = slice2 /\ e.enabled = enabled
  BY <1>0, <1>4, EdFields DEF Editors
<1> HIDE DEF e
<1>6. Sound(e) /\ \A g \in Files : Told(e, g)
  BY <1>0, <1>3, <1>5, ClaimNothing
<1> DEFINE r == Reopened(e, order)
<1>7. Sound(r) /\ (\A g \in Files : Told(r, g)) /\ Forgets(e, r) /\ Becomes(r)
  BY <1>2, <1>6, ReopenedSound
<1> HIDE DEF r
<1>8. IInv' /\ slice' = r.slice
  BY <1>7, BecomesNext
<1> QED
  BY <1>3, <1>5, <1>7, <1>8, NothingForgotten

\* Every server is stopped.
LEMMA AllStoppedSound ==
  ASSUME NEW e \in Editors
  PROVE  LET r == AllStopped(e) IN
         /\ r \in Editors /\ r.enabled = e.enabled /\ r.text = e.text
         /\ \A s \in Servers : LinkSound(r.link[s]) /\ ~Running(r.link[s])
                               /\ r.slice[s] = NoSlices
<1> DEFINE slice2 == [s \in Servers |-> NoSlices]
           link2 == [s \in Servers |-> NoLink]
           r == [e EXCEPT !.owed = {}, !.slice = slice2, !.link = link2]
<1>1. NoLink \in Links
  BY NoLinkSound DEF LinkSound
<1>2. /\ link2 \in [Servers -> Links] /\ slice2 \in [Servers -> Slices]
      /\ \A s \in Servers : link2[s] = NoLink /\ slice2[s] = NoSlices
  BY <1>1, NoneApplied
<1>3. AllStopped(e) = r
  BY DEF AllStopped
<1> HIDE DEF link2, slice2
<1>4. /\ r \in Editors /\ r.enabled = e.enabled /\ r.text = e.text /\ r.link = link2
      /\ r.slice = slice2
  BY <1>2 DEF Editors
<1> HIDE DEF r
<1> QED
  BY <1>2, <1>3, <1>4, NoLinkSound

\* The language servers are turned off.
LEMMA DisableStep ==
  ASSUME IInv, Disable
  PROVE  IInv' /\ Forgotten
<1> DEFINE e == AllStopped(ed)
           r == [e EXCEPT !.enabled = FALSE]
<1>0. ed \in Editors
  BY DEF IInv, Sound
<1>1. Becomes(r)
  BY DEF Disable
<1>2. e \in Editors /\ \A s \in Servers : LinkSound(e.link[s]) /\ ~Running(e.link[s])
                                          /\ e.slice[s] = NoSlices
  BY <1>0, AllStoppedSound
<1> HIDE DEF e
<1>3. r \in Editors /\ r.link = e.link /\ r.slice = e.slice
  BY <1>2 DEF Editors
<1> HIDE DEF r
<1>4. Sound(r) /\ \A g \in Files : Told(r, g)
  BY <1>2, <1>3, ClaimNothing
<1>5. IInv' /\ slice' = r.slice
  BY <1>1, <1>4, BecomesNext
<1> QED
  BY <1>2, <1>3, <1>5, NoneApplied DEF Forgotten

\* They are turned on: none was running.
LEMMA EnableStep ==
  ASSUME IInv, Enable
  PROVE  IInv' /\ Forgotten
<1> DEFINE e == [ed EXCEPT !.enabled = TRUE]
<1>0. ed \in Editors /\ ~ed.enabled /\ Sound(ed)
  BY EdFields DEF IInv, Sound, Enable
<1>1. PICK order \in Orders : Becomes(Reopened(e, order))
  BY DEF Enable
<1>2. /\ e \in Editors /\ e.enabled = TRUE /\ e.link = ed.link /\ e.slice = ed.slice
  BY <1>0 DEF Editors
<1> HIDE DEF e
<1>3. Sound(e)
  BY <1>0, <1>2 DEF Sound
<1>4. \A g \in Files : Told(e, g)
  BY <1>0, <1>2, ServersAssumption DEF Sound, Told
<1> DEFINE r == Reopened(e, order)
<1>5. Sound(r) /\ (\A g \in Files : Told(r, g)) /\ Forgets(e, r) /\ Becomes(r)
  BY <1>1, <1>3, <1>4, ReopenedSound
<1> HIDE DEF r
<1>6. IInv' /\ slice' = r.slice
  BY <1>5, BecomesNext
<1> QED
  BY <1>2, <1>5, <1>6, EdFields DEF Forgets, Forgotten

\* Another workspace is opened.
LEMMA OpenWorkspaceStep ==
  ASSUME IInv, OpenWorkspace
  PROVE  IInv' /\ Forgotten
<1> DEFINE e == AllStopped(ed)
           text2 == [f \in Files |-> NoText]
           r == [e EXCEPT !.text = text2]
<1>0. ed \in Editors
  BY DEF IInv, Sound
<1>1. Becomes(r)
  BY DEF OpenWorkspace
<1>2. e \in Editors /\ \A s \in Servers : LinkSound(e.link[s]) /\ ~Running(e.link[s])
                                          /\ e.slice[s] = NoSlices
  BY <1>0, AllStoppedSound
<1> HIDE DEF e
<1>3. text2 \in [Files -> Texts \cup {NoText}]
  OBVIOUS
<1> HIDE DEF text2
<1>4. r \in Editors /\ r.link = e.link /\ r.slice = e.slice
  BY <1>2, <1>3 DEF Editors
<1> HIDE DEF r
<1>5. Sound(r) /\ \A g \in Files : Told(r, g)
  BY <1>2, <1>4, ClaimNothing
<1>6. IInv' /\ slice' = r.slice
  BY <1>1, <1>5, BecomesNext
<1> QED
  BY <1>2, <1>4, <1>6, NoneApplied DEF Forgotten

\* A server acts alone.
LEMMA ServerStep ==
  ASSUME IInv, NEW s \in Servers, NEW x, LinkSound(x), Running(x) => Running(link[s]),
         Running(x) => x.docs = link[s].docs /\ link[s].refused \subseteq x.refused,
         Applied(x, slice[s]), link' = [link EXCEPT ![s] = x],
         UNCHANGED <<enabled, text, owed, slice, hints>>
  PROVE  IInv' /\ Forgotten
<1> DEFINE kept == slice[s]
           r == Replaced(ed, s, x, kept)
<1>0. /\ Sound(ed) /\ (\A g \in Files : Told(ed, g)) /\ ed \in Editors
      /\ slice \in [Servers -> Slices] /\ x \in Links
  BY EdFields DEF IInv, Sound, Editors, LinkSound
<1>1. kept \in Slices /\ [slice EXCEPT ![s] = kept] = slice
  BY <1>0
<1>2. r = [ed EXCEPT !.link = link', !.slice = slice]
  BY <1>1, EdFields DEF Replaced
<1> HIDE DEF r
<1>3. /\ r.enabled = enabled /\ r.text = text /\ r.owed = owed /\ r.hints = hints
      /\ r.link = link' /\ r.slice = slice
  BY <1>2 DEF ed
<1>4. Becomes(r)
  BY <1>3 DEF Becomes
<1>5. r = Replaced(ed, s, x, kept) /\ Running(x) => Running(ed.link[s])
  BY EdFields DEF r
<1>6. Sound(r) /\ \A g \in Files : Told(r, g)
  <2> HIDE DEF kept
  <2>1. r = Replaced(ed, s, x, kept)
    BY DEF r
  <2>2. Applied(x, kept)
    BY DEF kept
  <2>3. /\ Running(x) => Running(ed.link[s])
        /\ Running(x) => x.docs = ed.link[s].docs /\ ed.link[s].refused \subseteq x.refused
    BY EdFields
  <2>4. Sound(r) /\ \A g \in Files : Told(ed, g) => Told(r, g)
    BY <1>0, <1>1, <2>1, <2>2, <2>3, LinkReplaced
  <2> QED
    BY <1>0, <2>4
<1>7. IInv'
  BY <1>4, <1>6, BecomesNext
<1> QED
  BY <1>7 DEF Forgotten

\* The server reads, and answers.
LEMMA ServeStep ==
  ASSUME IInv, NEW s \in Servers, Serve(s)
  PROVE  IInv' /\ Forgotten
<1> DEFINE l == link[s]
<1>0. /\ LinkSound(l) /\ Applied(l, slice[s]) /\ Running(l) /\ l.sent # <<>> /\ l \in Links
  BY EdFields DEF IInv, Sound, Serve, LinkSound
<1>1. PICK ok \in BOOLEAN :
        LET m == Head(link[s].sent)
            answer == CASE m.what = "init" -> {[what |-> "init", ok |-> ok]}
                        [] m.what = "ask" -> {Reply(m, link[s].known)}
                        [] OTHER -> {} IN
        link' = [link EXCEPT ![s].sent = Tail(@), ![s].known = Heard(@, m),
                             ![s].answers = @ \cup answer]
  BY DEF Serve
<1> DEFINE answer == CASE Head(l.sent).what = "init" -> {[what |-> "init", ok |-> ok]}
                       [] Head(l.sent).what = "ask" -> {Reply(Head(l.sent), l.known)}
                       [] OTHER -> {}
           x == [l EXCEPT !.sent = Tail(@), !.known = Heard(@, Head(l.sent)),
                          !.answers = @ \cup answer]
<1>2. LinkSound(x)
  <2> HIDE DEF l
  <2> QED BY <1>0, ServedKeeps
<1>3. x.docs = l.docs /\ x.refused = l.refused /\ x.status = l.status /\ x.opens = l.opens
      /\ x.applied = l.applied
  <2> HIDE DEF l, answer
  <2> QED BY <1>0 DEF Links
<1>4. link' = [link EXCEPT ![s] = x]
  <2>1. link \in [Servers -> Links]
    BY EdFields DEF IInv, Sound, Editors
  <2> HIDE DEF answer
  <2>2. link' = [link EXCEPT ![s].sent = Tail(@), ![s].known = Heard(@, Head(l.sent)),
                             ![s].answers = @ \cup answer]
    BY <1>1 DEF answer
  <2> QED
    BY <1>0, <2>1, <2>2 DEF Links
<1> HIDE DEF x
<1>5. Running(x) /\ Applied(x, slice[s])
  BY <1>0, <1>3 DEF Running, Applied
<1>6. UNCHANGED <<enabled, text, owed, slice, hints>>
  BY DEF Serve
<1> QED
  BY <1>0, <1>2, <1>3, <1>4, <1>5, <1>6, ServerStep

\* The server publishes.
LEMMA PublishStep ==
  ASSUME IInv, NEW s \in Servers, NEW f \in Files, Publish(s, f)
  PROVE  IInv' /\ Forgotten
<1> DEFINE l == link[s]
           x == [l EXCEPT !.answers =
                   @ \cup {[what |-> "publish", file |-> f, doc |-> l.known[f]]}]
<1>0. /\ LinkSound(l) /\ Applied(l, slice[s]) /\ Running(l) /\ l.known[f] # NoDoc
  BY EdFields DEF IInv, Sound, Publish
<1>1. /\ LinkSound(x) /\ x.docs = l.docs /\ x.refused = l.refused /\ x.status = l.status
      /\ x.applied = l.applied /\ x.opens = l.opens
  <2> HIDE DEF l
  <2> QED BY <1>0, PublishSound
<1>2. link' = [link EXCEPT ![s] = x]
  BY DEF Publish
<1> HIDE DEF x
<1>3. Running(x) /\ Applied(x, slice[s])
  BY <1>0, <1>1 DEF Running, Applied
<1>4. UNCHANGED <<enabled, text, owed, slice, hints>>
  BY DEF Publish
<1> QED
  BY <1>0, <1>1, <1>2, <1>3, <1>4, ServerStep

\* The server exits.
LEMMA ExitStep ==
  ASSUME IInv, NEW s \in Servers, Exit(s)
  PROVE  IInv' /\ Forgotten
<1> DEFINE x == Stopped(link[s])
<1>1. LinkSound(link[s])
  BY EdFields DEF IInv, Sound
<1>2. LinkSound(x) /\ x.status = "stopped"
  BY <1>1, StoppedSound
<1>3. link' = [link EXCEPT ![s] = x] /\ UNCHANGED <<enabled, text, owed, slice, hints>>
  BY DEF Exit
<1> HIDE DEF x
<1>4. ~Running(x) /\ Applied(x, slice[s])
  BY <1>2 DEF Running, Applied
<1> QED
  BY <1>2, <1>3, <1>4, ServerStep

-----------------------------------------------------------------------------
(* The theorems *)

\* No server has been started and no file opened.
LEMMA InitIInv ==
  ASSUME Init PROVE IInv
<1>1. LinkSound(NoLink) /\ NoLink.docs = NoDocs /\ ~Running(NoLink) /\ NoLink \in Links
  BY NoLinkSound DEF LinkSound
<1>2. NoHints \in Hints
  BY DEF NoHints, Hints
<1>3. /\ ed \in Editors /\ ed.link = [s \in Servers |-> NoLink]
      /\ ed.slice = [s \in Servers |-> NoSlices]
  <2>1. /\ enabled \in BOOLEAN /\ text \in [Files -> Texts \cup {NoText}]
        /\ owed \in SUBSET Files /\ hints \in [Files -> Hints]
    BY <1>2 DEF Init
  <2>2. link \in [Servers -> Links] /\ slice \in [Servers -> Slices]
    BY <1>1, NoneApplied DEF Init
  <2>3. ed \in Editors
    BY <2>1, <2>2 DEF ed, Editors
  <2> QED
    BY <2>3, EdFields DEF Init
<1>4. Sound(ed) /\ \A g \in Files : Told(ed, g)
  <2>1. \A s \in Servers : /\ LinkSound(ed.link[s]) /\ ed.slice[s] = NoSlices
                           /\ ~Running(ed.link[s])
    BY <1>1, <1>3
  <2> QED
    BY <1>3, <2>1, ClaimNothing
<1> QED
  BY <1>4 DEF IInv

\* Every step keeps the invariant, and no findings go back.
LEMMA NextIInv ==
  ASSUME IInv, Next
  PROVE  IInv' /\ \A s \in Servers, f \in Files : Advances(s, f)
<1>1. CASE \E f \in Files : Open(f) \/ Edit(f) \/ Save(f) \/ Close(f)
  BY <1>1, OpenStep, EditStep, SaveStep, CloseStep, ForgottenAdvances
<1>2. CASE \E f \in Files, kind \in Asked \cap FlushFirst : Ask(f, kind)
  <2>1. PICK f \in Files, kind \in Kinds : Ask(f, kind)
    BY <1>2, AskedAssumption
  <2> QED
    BY <2>1, AskStep, ForgottenAdvances
<1>3. CASE "format" \in Asked /\ \E f \in Files : AskFormat(f)
  BY <1>3, AskFormatStep, ForgottenAdvances
<1>4. CASE \E s \in Servers, due \in AtMostOne(owed) :
             \E got \in AtMostOne(link[s].answers) : PollSome(due, s, got)
  <2>1. PICK s \in Servers, due \in AtMostOne(owed) :
               \E got \in AtMostOne(link[s].answers) : PollSome(due, s, got)
    BY <1>4
  <2>2. PICK got \in AtMostOne(link[s].answers), view \in AtMostOne(InFront \X BOOLEAN) :
               Poll(due, s, got, view)
    BY <2>1 DEF PollSome
  <2> QED
    BY <2>2, PollStep
<1>5. CASE Restart \/ Disable \/ Enable \/ OpenWorkspace
  BY <1>5, RestartStep, DisableStep, EnableStep, OpenWorkspaceStep, ForgottenAdvances
<1>6. CASE \E s \in Servers : Serve(s) \/ Exit(s) \/ \E f \in Files : Publish(s, f)
  BY <1>6, ServeStep, ExitStep, PublishStep, ForgottenAdvances
<1> QED
  BY <1>1, <1>2, <1>3, <1>4, <1>5, <1>6 DEF Next

\* Nor does a step that changes nothing.
LEMMA StutterIInv ==
  ASSUME IInv, UNCHANGED vars PROVE IInv'
<1>1. ed' = ed
  BY DEF ed, vars
<1>2. IInv' = (Sound(ed') /\ \A g \in Files : Told(ed', g))
  BY DEF IInv
<1> QED
  BY <1>1, <1>2 DEF IInv

\* What a link in order says of the type.
LEMMA IInvType ==
  ASSUME IInv PROVE TypeOK
<1>1. /\ enabled \in BOOLEAN /\ text \in [Files -> Texts \cup {NoText}]
      /\ owed \in SUBSET Files /\ slice \in [Servers -> Slices] /\ hints \in [Files -> Hints]
      /\ \A s \in Servers : LinkSound(link[s])
  BY EdFields DEF IInv, Sound, Editors
<1>2. ASSUME NEW s \in Servers
      PROVE  LET l == link[s] IN
             /\ l.status \in {"absent", "stopped", "starting", "ready"}
             /\ l.docs \in [Files -> Doc \cup {NoDoc}] /\ l.known \in [Files -> Doc \cup {NoDoc}]
             /\ l.applied \in [Files -> Nat \cup {-1}]
             /\ \A p \in l.pend : p.kind \in Kinds /\ p.file \in Files /\ p.version \in Nat
             /\ \A k \in Kinds : Cardinality({p \in l.pend : p.kind = k}) <= MaxPending
             /\ Len(l.queue) <= MaxQueue
             /\ l.sent \in Seq(Messages) /\ l.queue \in Seq(Messages)
             /\ l.answers \subseteq Answers /\ l.refused \subseteq Files
  <2> DEFINE l == link[s]
  <2>1. l \in Links /\ Capped(l)
    BY <1>1 DEF LinkSound
  <2> HIDE DEF l
  <2>2. \A k \in Kinds : Cardinality({p \in l.pend : p.kind = k}) <= MaxPending
    BY <2>1 DEF Capped, OfKind
  <2>3. \A p \in l.pend : p.kind \in Kinds /\ p.file \in Files /\ p.version \in Nat
    BY <2>1 DEF Links, Entries
  <2>4. Len(l.queue) <= MaxQueue
    BY <2>1 DEF Capped
  <2>5. /\ l.status \in {"absent", "stopped", "starting", "ready"}
        /\ l.docs \in [Files -> Doc \cup {NoDoc}] /\ l.known \in [Files -> Doc \cup {NoDoc}]
        /\ l.applied \in [Files -> Nat \cup {-1}]
        /\ l.sent \in Seq(Messages) /\ l.queue \in Seq(Messages)
        /\ l.answers \subseteq Answers /\ l.refused \subseteq Files
    BY <2>1 DEF Links, Docs
  <2> QED
    BY <2>2, <2>3, <2>4, <2>5 DEF l
<1> QED
  BY <1>1, <1>2 DEF TypeOK, Slices, Hints

\* The entry a reply is used for asked the question it answers, of the text claimed.
LEMMA IInvAnswers ==
  ASSUME IInv PROVE AnswersFitTheirDocument
<1> SUFFICES ASSUME NEW s \in Servers, NEW a \in link[s].answers, a.what = "reply",
                    Accepts(link[s], a)
             PROVE  LET p == Found(link[s], a) doc == link[s].docs[p.file] IN
                    \/ p.old /\ p.kind \notin {"hover", "format"}
                    \/ ~p.old /\ p.opening # doc.opening
                    \/ p.file \in link[s].refused
                    \/ p.kind = a.kind /\ p.file = a.file /\ a.doc.text = doc.text
  BY DEF AnswersFitTheirDocument
<1> DEFINE l == link[s]
           p == Found(l, a)
           doc == l.docs[p.file]
<1>0. LinkSound(l)
  BY EdFields DEF IInv, Sound
<1>1. l \in Links /\ Editions(l) /\ Questions(l)
  BY <1>0 DEF LinkSound
<1>2. p \in l.pend /\ p.id = a.id /\ Usable(l, p)
  BY <1>1, FoundMatches DEF Accepts
<1>3. a \in l.answers /\ a.what = "reply"
  OBVIOUS
<1> HIDE DEF p, l
<1>4. p \in Entries /\ a \in Answers
  BY <1>1, <1>2, <1>3 DEF Links
<1>5. CASE p.old
  BY <1>1, <1>2, <1>5 DEF Questions, ClearedByStop, p, l
<1>6. CASE ~p.old /\ p.file \notin l.refused /\ p.opening = doc.opening
  <2>1. /\ p.kind = a.kind /\ p.file = a.file /\ a.doc.version = p.version
        /\ a.doc.opening = p.opening
    BY <1>1, <1>2, <1>3, <1>6 DEF Questions, Suits
  <2>2. Mentions(l, p.file, a.doc) /\ p.file \in Files
    BY <1>3, <1>4, <2>1 DEF Mentions, Entries
  <2>3. Edition(l, p.file, a.doc)
    BY <1>1, <2>2 DEF Editions
  <2>4. p.version \in Nat /\ a.doc # NoDoc
    BY <1>4, <2>1 DEF Entries, NoDoc
  <2>5. doc # NoDoc /\ doc.version = p.version
    BY <1>2 DEF Usable
  <2>6. a.doc = doc
    BY <1>6, <2>1, <2>3, <2>4, <2>5 DEF Edition
  <2> QED
    BY <2>1, <2>6 DEF p, l
<1>7. CASE ~p.old /\ (p.file \in l.refused \/ p.opening # doc.opening)
  BY <1>7 DEF p, l
<1> QED
  BY <1>4, <1>5, <1>6, <1>7 DEF Entries

\* The invariant of the client and its servers.
THEOREM SyncInvariance == Spec => []IInv
<1>1. Init => IInv
  BY InitIInv
<1>2. IInv /\ [Next]_vars => IInv'
  BY NextIInv, StutterIInv
<1> QED
  BY <1>1, <1>2, PTL DEF Spec

\* The state keeps its type: so the deferred queue and the pending requests of each
\* kind keep to their caps, whatever is asked, sent and answered.
THEOREM TypeCorrect == Spec => []TypeOK
<1>1. IInv => TypeOK
  BY IInvType
<1> QED
  BY <1>1, SyncInvariance, PTL

\* What the client claims of a document is what the server will hold once it has
\* read all that is on its way, unless a message about it was refused.
THEOREM ClaimHolds == Spec => []ClaimIsWhatTheServerWillHold
<1>1. IInv => ClaimIsWhatTheServerWillHold
  <2> SUFFICES ASSUME IInv PROVE ClaimIsWhatTheServerWillHold
    OBVIOUS
  <2>1. \A s \in Servers : Claimed(link[s])
    BY EdFields DEF IInv, Sound, LinkSound
  <2> QED
    BY <2>1 DEF Claimed, ClaimIsWhatTheServerWillHold
<1> QED
  BY <1>1, SyncInvariance, PTL

\* No edit is forgotten on its way to the primary server.
THEOREM BehindIsOwed == Spec => []BehindMeansOwed
<1>1. IInv => BehindMeansOwed
  BY EdFields DEF IInv, Told, BehindMeansOwed
<1> QED
  BY <1>1, SyncInvariance, PTL

\* A reply that is used was computed on the text it is used on, but for the entries
\* of an old process and the documents opened again.
THEOREM AnswersFit == Spec => []AnswersFitTheirDocument
<1>1. IInv => AnswersFitTheirDocument
  BY IInvAnswers
<1> QED
  BY <1>1, SyncInvariance, PTL

\* Findings of a document that stays open never go back to an earlier version.
THEOREM FindingsAdvance == Spec => FindingsNeverGoBack
<1> DEFINE Advance == \A s \in Servers, f \in Files : Advances(s, f)
<1>1. IInv /\ [Next]_vars => [Advance]_vars
  BY NextIInv
<1>2. Spec => [][Advance]_vars
  <2> HIDE DEF Advance
  <2> QED
    BY <1>1, SyncInvariance, PTL DEF Spec
<1>3. ([][Advance]_vars) <=> FindingsNeverGoBack
  BY DEF Advances, FindingsNeverGoBack
<1> QED
  BY <1>2, <1>3
=============================================================================
