------------------------------- MODULE LspSync -------------------------------
(***************************************************************************)
(* The language-server client (lsp/client.cpp, requests.cpp, messages.cpp) *)
(* and the half of the editor that drives it (lsp/attach.cpp,              *)
(* lifecycle.cpp, inlay_hints.cpp and the request features).               *)
(*                                                                         *)
(* Everything here runs on the main thread, one handler at a time; what    *)
(* interleaves is the user, the poll of the loop and the server process,   *)
(* which reads its pipe, answers and publishes when it likes.  A handler   *)
(* is a function from one state of the editor to the next (`ed'), so that  *)
(* a handler that calls others is their composition, in the code's order.  *)
(*                                                                         *)
(* Documents are full texts (the client only sends full texts), so a text  *)
(* is a member of a small set.  The process of a server and its pipes live *)
(* in the server's link: `sent' is what was written and not yet read,      *)
(* `known' the documents the process holds, `answers' what it wrote back.  *)
(* It may write answers in another order than it was asked.                *)
(***************************************************************************)
EXTENDS Integers, Sequences, FiniteSets, SequencesExt

CONSTANTS
  Servers,    \* language servers: the primary of the files and its extras
  Primary,    \* detect_lsp_language() of every file
  Files,      \* paths
  Texts,      \* what a document can hold
  NoText,     \* not a text
  Asked,      \* the kinds of request the user makes
  InFront,    \* the files the user looks at
  MaxQueue,   \* kMaxDeferredMessages (256)
  MaxPending, \* the cap on the pending requests of one kind (16, 32, 64)
  MaxVersion, \* bound: edits stop when a claim has this version
  MaxId,      \* bound: requests stop at this id
  MaxOpens,   \* bound: opens stop after so many documents of one process
  MaxAnswers, \* bound: publishes stop when so many answers are unread
  MaxUnread   \* bound: the user waits while a server has so many to read

Kinds == {"hover", "inlay", "references", "format", "rename"}
LookupOrder == <<"hover", "inlay", "references", "format", "rename">>
Rank(kind) == CHOOSE i \in DOMAIN LookupOrder : LookupOrder[i] = kind
FlushFirst == Kinds \ {"inlay", "format"}
NeedsReady == {"format", "rename"}
ClearedByStop == {"hover", "format"}

ASSUME ServersAssumption == IsFiniteSet(Servers) /\ Primary \in Servers
ASSUME FilesAssumption == IsFiniteSet(Files)
ASSUME TextsAssumption == NoText \notin Texts
ASSUME AskedAssumption == Asked \subseteq Kinds \ {"inlay"} /\ InFront \subseteq Files
ASSUME BoundsAssumption ==
  /\ MaxQueue \in Nat /\ MaxPending \in Nat /\ MaxVersion \in Nat
  /\ MaxId \in Nat /\ MaxOpens \in Nat /\ MaxAnswers \in Nat
  /\ MaxUnread \in Nat

VARIABLES
  enabled, \* lsp_enabled
  text,    \* the buffer of each file, NoText when no buffer has it
  owed,    \* keys of lsp_pending_changes: edits whose debounce still runs
  link,    \* lsp_clients, with the process and the pipes of each
  slice,   \* lsp_diag_slices_: the findings kept per server and file
  hints    \* lsp_inlay_hint_caches

vars == <<enabled, text, owed, link, slice, hints>>
ed == [enabled |-> enabled, text |-> text, owed |-> owed, link |-> link,
       slice |-> slice, hints |-> hints]
Becomes(e) ==
  /\ enabled' = e.enabled /\ text' = e.text /\ owed' = e.owed /\ link' = e.link
  /\ slice' = e.slice /\ hints' = e.hints

-----------------------------------------------------------------------------
(* The client: file_versions and document_texts are one claim per file.  A *)
(* claim remembers (for the properties only) which didOpen it goes back    *)
(* to; NoDoc is a missing entry, ZeroDoc the entry operator[] invents.     *)

Doc == [version : Nat, text : Texts \cup {NoText}, opening : Nat]
NoDoc == [version |-> -1, text |-> NoText, opening |-> 0]
ZeroDoc == [version |-> 0, text |-> NoText, opening |-> 0]
NoDocs == [f \in Files |-> NoDoc]

Initialize == [what |-> "init"]
About(what, f, doc) == [what |-> what, file |-> f, doc |-> doc]
Question(kind, id, f) == [what |-> "ask", file |-> f, kind |-> kind, id |-> id]

(* start(): every table is emptied but the maps of pending requests it     *)
(* forgets to clear, and ids begin again after the one of `initialize'.    *)
Fresh(survivors) ==
  [status |-> "starting", docs |-> NoDocs, applied |-> [f \in Files |-> -1],
   pend |-> survivors, next |-> 2, queue |-> <<>>, opens |-> 0, refused |-> {},
   sent |-> <<Initialize>>, known |-> NoDocs, answers |-> {}]

(* stop(): the same tables are emptied and the process is gone.            *)
Stopped(l) ==
  [Fresh({[p EXCEPT !.old = TRUE, !.opening = 0] :
            p \in {q \in l.pend : q.kind \notin ClearedByStop}})
     EXCEPT !.status = "stopped", !.sent = <<>>]

\* The claims of the old process survive a restart
RestartedWithClaims(l) == [Fresh(Stopped(l).pend) EXCEPT !.docs = l.docs]
Restarted(l) == Fresh(Stopped(l).pend)

NoLink == [Fresh({}) EXCEPT !.status = "absent", !.sent = <<>>]

Running(l) == l.status \in {"starting", "ready"}

(* send_message(): until the server has answered `initialize' messages     *)
(* wait in a queue; when it is full they are refused.  `refused' remembers *)
(* the files a message about whose document was refused.                   *)
\* One message too many waits
FitsOneMore(l) == l.status = "ready" \/ Len(l.queue) <= MaxQueue
Fits(l) == l.status = "ready" \/ Len(l.queue) < MaxQueue
Sent(l, m) ==
  IF l.status = "ready" THEN [l EXCEPT !.sent = Append(@, m)]
  ELSE IF Fits(l) THEN [l EXCEPT !.queue = Append(@, m)]
  ELSE [l EXCEPT !.refused = IF m.what \in {"open", "change", "close"} THEN @ \cup {m.file} ELSE @]

Opened(l, f, t) ==
  LET doc == [version |-> 1, text |-> t, opening |-> l.opens + 1]
      out == Sent(l, About("open", f, doc)) IN
  IF ~Fits(l) THEN out
  ELSE [out EXCEPT !.docs[f] = doc, !.applied[f] = -1, !.opens = @ + 1]

Changed(l, f, t) ==
  LET doc == [l.docs[f] EXCEPT !.version = @ + 1, !.text = t]
      out == Sent(l, About("change", f, doc)) IN
  IF l.docs[f].text = t THEN l
  ELSE IF ~Fits(l) THEN out ELSE [out EXCEPT !.docs[f] = doc]

(* did_open() and did_change(), which turn into each other.                *)
Synced(l, f, t) ==
  IF ~Running(l) THEN l
  ELSE IF l.docs[f] = NoDoc THEN Opened(l, f, t) ELSE Changed(l, f, t)

(* did_save(): the text goes first, and without it the save stays home.    *)
Saved(l, f, t) ==
  LET out == Synced(l, f, t) IN
  IF ~Running(l) \/ out.docs[f].text # t THEN out
  ELSE Sent(out, About("save", f, out.docs[f]))

(* did_close(): the tables forget the file before the message is accepted. *)
Closed(l, f) ==
  IF ~Running(l) \/ l.docs[f] = NoDoc THEN l
  ELSE Sent([l EXCEPT !.docs[f] = NoDoc, !.applied[f] = -1], About("close", f, NoDoc))

(* The requests: the pending entry reads file_versions[path], which makes  *)
(* an entry for a document that has none; a refused request is forgotten,  *)
(* the id and that entry are not.                                          *)
Request(l, kind, f) ==
  LET doc == IF l.docs[f] = NoDoc THEN ZeroDoc ELSE l.docs[f]
      entry == [id |-> l.next, kind |-> kind, file |-> f, version |-> doc.version,
                opening |-> doc.opening, old |-> FALSE]
      others == {p \in l.pend : <<p.id, p.kind>> # <<l.next, kind>>}
      taken == [l EXCEPT !.docs[f] = doc, !.next = @ + 1,
                         !.pend = IF Fits(l) THEN others \cup {entry} ELSE others] IN
  IF \/ ~Running(l) \/ (kind \in NeedsReady /\ l.status # "ready")
     \/ Cardinality({p \in l.pend : p.kind = kind}) >= MaxPending
  THEN l ELSE Sent(taken, Question(kind, l.next, f))

(* The reply dispatch: the maps are searched in a fixed order for the id,  *)
(* and a reply is used only if its document still has the version asked.   *)
Matches(l, a) == {p \in l.pend : p.id = a.id}
Found(l, a) == CHOOSE p \in Matches(l, a) : \A q \in Matches(l, a) : Rank(p.kind) <= Rank(q.kind)
\* The version is not compared
UsableAnyVersion(l, p) == l.docs[p.file] # NoDoc
Usable(l, p) == l.docs[p.file] # NoDoc /\ l.docs[p.file].version = p.version
Accepts(l, a) == Matches(l, a) # {} /\ Usable(l, Found(l, a))

(* A publish is dropped only when it is older than one already applied.    *)
\* A publish of any version is applied
CurrentAlways(l, a) == TRUE
Current(l, a) == a.doc.version >= l.applied[a.file]

-----------------------------------------------------------------------------
(* What the server process does: external, as its client uses it.          *)

Heard(known, m) ==
  CASE m.what = "open" -> [known EXCEPT ![m.file] = m.doc]
    [] m.what = "change" /\ known[m.file] # NoDoc -> [known EXCEPT ![m.file] = m.doc]
    [] m.what = "close" -> [known EXCEPT ![m.file] = NoDoc]
    [] OTHER -> known

Reply(m, known) ==
  [what |-> "reply", id |-> m.id, kind |-> m.kind, file |-> m.file, doc |-> known[m.file]]

Serve(s) ==
  /\ Running(link[s]) /\ link[s].sent # <<>>
  /\ \E ok \in BOOLEAN :
       LET m == Head(link[s].sent)
           answer == CASE m.what = "init" -> {[what |-> "init", ok |-> ok]}
                       [] m.what = "ask" -> {Reply(m, link[s].known)}
                       [] OTHER -> {} IN
       link' = [link EXCEPT ![s].sent = Tail(@), ![s].known = Heard(@, m),
                            ![s].answers = @ \cup answer]
  /\ UNCHANGED <<enabled, text, owed, slice, hints>>

Publish(s, f) ==
  /\ Running(link[s]) /\ link[s].known[f] # NoDoc
  /\ Cardinality(link[s].answers) < MaxAnswers
  /\ link' = [link EXCEPT ![s].answers =
                @ \cup {[what |-> "publish", file |-> f, doc |-> link[s].known[f]]}]
  /\ UNCHANGED <<enabled, text, owed, slice, hints>>

-----------------------------------------------------------------------------
(* The editor's handlers, as functions from one of its states to the next. *)

NoFindings == [of |-> NoDoc]
NoSlices == [f \in Files |-> NoFindings]
NoHints == [dirty |-> TRUE, inFlight |-> FALSE, of |-> NoText]

(* ensure_lsp_for_file(): a client that is not running is dropped with its *)
(* findings and built anew, the primary first, then the extras.            *)
Ensured(e) ==
  IF ~e.enabled THEN e
  ELSE [e EXCEPT
          !.link = [s \in Servers |-> IF Running(@[s]) THEN @[s] ELSE Fresh({})],
          !.slice = [s \in Servers |-> IF Running(e.link[s]) THEN @[s] ELSE NoSlices]]

(* attached_lsp_clients_for(): a document notification is broadcast.       *)
ToAll(e, F(_)) == [e EXCEPT !.link = [s \in Servers |-> F(@[s])]]

NotifyOpen(e, f) ==
  LET cleared == [e EXCEPT !.slice = [s \in Servers |-> [@[s] EXCEPT ![f] = NoFindings]]] IN
  IF ~e.enabled THEN cleared ELSE ToAll(Ensured(cleared), LAMBDA l : Synced(l, f, e.text[f]))

(* Every open file, in the order of the buffers, which is any.             *)
Orders == SetToSeqs({f \in Files : text[f] # NoText})
Reopened(e, order) ==
  LET opened[k \in 0..Len(order)] ==
        IF k = 0 THEN e ELSE NotifyOpen(opened[k - 1], order[k])
  IN  opened[Len(order)]

MarkDirty(e, f) == [e EXCEPT !.hints[f].dirty = TRUE, !.hints[f].inFlight = FALSE]

(* The flush of the requests: only the primary is told, and the pending    *)
(* change is forgotten.                                                    *)
Flushed(e, f) ==
  [Ensured(e) EXCEPT !.owed = @ \ {f}, !.link[Primary] = Synced(@, f, e.text[f])]

(* The debounced change, sent to every server when it is due.              *)
DueSent(e, f) ==
  LET taken == [e EXCEPT !.owed = @ \ {f}] IN
  IF ~e.enabled THEN taken
  ELSE MarkDirty(ToAll(Ensured(taken), LAMBDA l : Synced(l, f, e.text[f])), f)

\* The queue is emptied before it is sent
ReadyForgets(l) == [l EXCEPT !.status = "ready", !.queue = <<>>]
Ready(l) == [l EXCEPT !.status = "ready", !.sent = @ \o l.queue, !.queue = <<>>]

(* apply_lsp_text_edits(): whatever buffer has the file now is edited.     *)
\* The edits of a reply do not notify the change
EditsUnannounced(e, f, t) == IF e.text[f] \in {NoText, t} THEN e ELSE [e EXCEPT !.text[f] = t]
EditsApplied(e, f, t) ==
  IF e.text[f] \in {NoText, t} THEN e ELSE [e EXCEPT !.text[f] = t, !.owed = @ \cup {f}]

(* One message of a server, handled; `t' is what the edits of a format or  *)
(* a rename make of the buffer.                                            *)
Handled(e, s, a, t) ==
  LET l == [e.link[s] EXCEPT !.answers = @ \ {a}]
      read == [e EXCEPT !.link[s] = l]
      p == Found(l, a)
      answered == [e EXCEPT !.link[s] = [l EXCEPT !.pend = @ \ {p}]] IN
  CASE a.what = "init" ->
         [e EXCEPT !.link[s] = IF a.ok THEN Ready(l) ELSE Stopped(l)]
    [] a.what = "publish" /\ Current(l, a) ->
         [e EXCEPT !.link[s] = [l EXCEPT !.applied[a.file] = a.doc.version],
                   !.slice[s][a.file] = [of |-> a.doc]]
    [] a.what = "reply" /\ Matches(l, a) # {} /\ ~Accepts(l, a) -> answered
    [] a.what = "reply" /\ Accepts(l, a) ->
         CASE p.kind = "inlay" ->
                [answered EXCEPT !.hints[p.file] =
                   [dirty |-> FALSE, inFlight |-> FALSE, of |-> a.doc.text]]
           [] p.kind \in {"format", "rename"} -> EditsApplied(answered, p.file, t)
           [] OTHER -> answered
    [] OTHER -> read

(* refresh_lsp_inlay_hints_if_needed() for the file in front: asked when   *)
(* the cache is stale or the view has `moved' out of it.                   *)
HintsAsked(e, f, moved) ==
  LET asks(s) == Running(e.link[s]) /\ e.link[s].docs[f] # NoDoc
      after == [s \in Servers |-> IF asks(s) THEN Request(e.link[s], "inlay", f) ELSE e.link[s]]
      sent == \E s \in Servers : \E p \in after[s].pend :
                 p.id = e.link[s].next /\ p.kind = "inlay" /\ ~p.old /\ after[s].next > p.id IN
  IF \/ e.text[f] = NoText \/ e.hints[f].inFlight \/ ~(e.hints[f].dirty \/ moved)
     \/ \E s \in Servers : e.link[s].next >= MaxId
  THEN e
  ELSE [e EXCEPT !.link = after, !.hints[f].inFlight = sent]

-----------------------------------------------------------------------------
Init ==
  /\ enabled = TRUE
  /\ text = [f \in Files |-> NoText]
  /\ owed = {}
  /\ link = [s \in Servers |-> NoLink]
  /\ slice = [s \in Servers |-> NoSlices]
  /\ hints = [f \in Files |-> NoHints]

(* The user acts while no server is too far behind (a bound).              *)
Paced == \A s \in Servers : Len(link[s].sent) < MaxUnread

Open(f) ==
  /\ Paced /\ text[f] = NoText /\ \A s \in Servers : link[s].opens < MaxOpens
  /\ \E t \in Texts : Becomes(NotifyOpen([ed EXCEPT !.text[f] = t], f))

Edit(f) ==
  /\ text[f] # NoText /\ \A s \in Servers : link[s].docs[f].version < MaxVersion
  /\ \E t \in Texts \ {text[f]} : Becomes([ed EXCEPT !.text[f] = t, !.owed = @ \cup {f}])

Save(f) ==
  /\ Paced /\ text[f] # NoText
  /\ LET sent == [ed EXCEPT !.owed = @ \ {f}] IN
     Becomes(IF ~enabled THEN sent ELSE ToAll(Ensured(sent), LAMBDA l : Saved(l, f, text[f])))

Close(f) ==
  /\ Paced /\ text[f] # NoText
  /\ Becomes([ToAll(ed, LAMBDA l : Closed(l, f)) EXCEPT !.owed = @ \ {f}, !.text[f] = NoText])

(* A request of the user: completion, hover, signature help, references,   *)
(* rename ... of the primary server, after the flush.                      *)
Ask(f, kind) ==
  /\ Paced /\ enabled /\ text[f] # NoText /\ kind \in FlushFirst
  /\ link[Primary].next < MaxId
  /\ Becomes([Flushed(ed, f) EXCEPT !.link[Primary] = Request(@, kind, f)])

(* lsp_format_active_buffer(): no flush, and only an open document.        *)
AskFormat(f) ==
  /\ Paced /\ enabled /\ text[f] # NoText /\ link[Primary].next < MaxId
  /\ LET e == Ensured(ed) IN
     Becomes(IF e.link[Primary].docs[f] = NoDoc THEN e
             ELSE [e EXCEPT !.link[Primary] = Request(@, "format", f)])

AtMostOne(S) == {{}} \cup {{x} : x \in S}
Only(S) == CHOOSE x \in S : TRUE

(* poll_lsp_clients(): the changes that are due, what a server wrote, then *)
(* the hints of the file in front, whose view may have left their range.   *)
Poll(due, s, got, view) ==
  \E t \in IF got = {} THEN {NoText} ELSE Texts :
    LET sent == IF due = {} THEN ed ELSE DueSent(ed, Only(due))
        here == got \cap sent.link[s].answers
        read == IF here = {} THEN sent ELSE Handled(sent, s, Only(here), t) IN
    Becomes(IF view = {} THEN read ELSE HintsAsked(read, Only(view)[1], Only(view)[2]))

PollSome(due, s, got) == \E view \in AtMostOne(InFront \X BOOLEAN) : Poll(due, s, got, view)

Restart ==
  /\ enabled /\ \E s \in Servers : link[s].status # "absent"
  /\ LET e == [ed EXCEPT
             !.owed = {}, !.slice = [s \in Servers |-> NoSlices],
             !.link = [s \in Servers |-> IF @[s].status = "absent" THEN @[s] ELSE Restarted(@[s])]]
     IN  \E order \in Orders : Becomes(Reopened(e, order))

AllStopped(e) ==
  [e EXCEPT !.owed = {}, !.slice = [s \in Servers |-> NoSlices],
            !.link = [s \in Servers |-> NoLink]]

Disable == enabled /\ Becomes([AllStopped(ed) EXCEPT !.enabled = FALSE])
Enable == /\ ~enabled
          /\ \E order \in Orders : Becomes(Reopened([ed EXCEPT !.enabled = TRUE], order))

(* open_workspace(): the servers stop and the buffers go, with no didClose.*)
OpenWorkspace ==
  /\ \E f \in Files : text[f] # NoText
  /\ Becomes([AllStopped(ed) EXCEPT !.text = [f \in Files |-> NoText]])

(* The process is gone and the poll that follows (waitpid) notices.  Its   *)
(* tables stay, and nobody reads them before start() empties them, so they *)
(* are emptied here.                                                       *)
Exit(s) ==
  /\ Running(link[s])
  /\ link' = [link EXCEPT ![s] = Stopped(@)]
  /\ UNCHANGED <<enabled, text, owed, slice, hints>>

Next ==
  \/ \E f \in Files : Open(f) \/ Edit(f) \/ Save(f) \/ Close(f)
  \/ \E f \in Files, kind \in Asked \cap FlushFirst : Ask(f, kind)
  \/ "format" \in Asked /\ \E f \in Files : AskFormat(f)
  \/ \E s \in Servers, due \in AtMostOne(owed) :
       \E got \in AtMostOne(link[s].answers) : PollSome(due, s, got)
  \/ Restart \/ Disable \/ Enable \/ OpenWorkspace
  \/ \E s \in Servers : Serve(s) \/ Exit(s) \/ \E f \in Files : Publish(s, f)

Spec == Init /\ [][Next]_vars

(* The timer polls every 250 ms and the watched pipes wake the loop; the   *)
(* user pauses longer than the debounce now and then; a server reads its   *)
(* pipe.  Of what a server writes only the answer to `initialize' need be  *)
(* read.                                                                   *)
FairSpec ==
  /\ Spec
  /\ \A f \in Files : WF_vars(f \in owed /\ PollSome({f}, Primary, {}))
  /\ \A s \in Servers :
       /\ WF_vars(\E a \in link[s].answers : a.what = "init" /\ PollSome({}, s, {a}))
       /\ WF_vars(Serve(s))

-----------------------------------------------------------------------------
(* Properties.                                                             *)

Answers ==
  [what : {"init"}, ok : BOOLEAN]
    \cup [what : {"publish"}, file : Files, doc : Doc]
    \cup [what : {"reply"}, id : Nat, kind : Kinds, file : Files, doc : Doc \cup {NoDoc}]
Messages ==
  {Initialize} \cup [what : {"ask"}, file : Files, kind : Kinds, id : Nat]
    \cup [what : {"open", "change", "close", "save"}, file : Files, doc : Doc \cup {NoDoc}]

(* The type of the state, the cap on the queue and the one on the requests *)
(* that wait for an answer (kMaxDeferredMessages, the caps of the requests). *)
TypeOK ==
  /\ enabled \in BOOLEAN /\ owed \subseteq Files
  /\ text \in [Files -> Texts \cup {NoText}]
  /\ \A s \in Servers : LET l == link[s] IN
       /\ l.status \in {"absent", "stopped", "starting", "ready"}
       /\ l.docs \in [Files -> Doc \cup {NoDoc}] /\ l.known \in [Files -> Doc \cup {NoDoc}]
       /\ l.applied \in [Files -> Nat \cup {-1}]
       /\ \A p \in l.pend : p.kind \in Kinds /\ p.file \in Files /\ p.version \in Nat
       /\ \A k \in Kinds : Cardinality({p \in l.pend : p.kind = k}) <= MaxPending
       /\ Len(l.queue) <= MaxQueue /\ l.sent \in Seq(Messages) /\ l.queue \in Seq(Messages)
       /\ l.answers \subseteq Answers /\ l.refused \subseteq Files
  /\ slice \in [Servers -> [Files -> [of : Doc \cup {NoDoc}]]]
  /\ hints \in [Files -> [dirty : BOOLEAN, inFlight : BOOLEAN, of : Texts \cup {NoText}]]

(* "The version and the text are this client's claim about the server's    *)
(* document" (requests.cpp:48-52): once the server has read everything on  *)
(* its way, through restarts, the deferred queue and closes, it holds what *)
(* the client claims, unless a message about the document was refused.     *)
Hearing(known, ms) ==
  LET heard[k \in 0..Len(ms)] == IF k = 0 THEN known ELSE Heard(heard[k - 1], ms[k])
  IN  heard
WillKnow(l) == LET ms == l.sent \o l.queue IN Hearing(l.known, ms)[Len(ms)]
ClaimIsWhatTheServerWillHold ==
  \A s \in Servers, f \in Files :
    Running(link[s]) /\ f \notin link[s].refused => WillKnow(link[s])[f] = link[s].docs[f]

(* No edit is forgotten on its way to the primary: its claim is the text   *)
(* of the buffer or the change is owed, whatever flushed, saved, restarted *)
(* or answered in between; and it claims nothing of a file that is closed. *)
BehindMeansOwed ==
  \A f \in Files : LET l == link[Primary] IN
    Running(l) /\ f \notin l.refused /\ l.docs[f] # NoDoc
      => l.docs[f].text = text[f] \/ (f \in owed /\ text[f] # NoText)

(* The version check (messages.cpp) does what it is for: a reply that will *)
(* be used answers the question its entry asked, and was computed on the   *)
(* text the client claims.  Excepted are an entry a stopped process left   *)
(* in a map that stop() does not clear, whose id the next process uses     *)
(* again, and a document closed and opened again in between: its versions  *)
(* start over and the check cannot tell.                                   *)
AnswersFitTheirDocument ==
  \A s \in Servers : \A a \in link[s].answers :
    a.what = "reply" /\ Accepts(link[s], a) =>
      LET p == Found(link[s], a) doc == link[s].docs[p.file] IN
      \/ p.old /\ p.kind \notin {"hover", "format"}
      \/ ~p.old /\ p.opening # doc.opening
      \/ p.file \in link[s].refused
      \/ p.kind = a.kind /\ p.file = a.file /\ a.doc.text = doc.text

(* Findings of a document that stays open never go back to an earlier      *)
(* version of it, in whatever order the publishes arrive.                  *)
FindingsNeverGoBack ==
  [][\A s \in Servers, f \in Files :
       LET was == slice[s][f].of is == slice'[s][f].of IN
       /\ NoDoc \notin {was, is, link[s].docs[f], link'[s].docs[f]} /\ was.opening = is.opening
       /\ link[s].docs[f].opening = was.opening
       /\ link'[s].docs[f].opening = was.opening
       => is.version >= was.version]_vars

(* A server that is not started again for ever ends up with the text of    *)
(* every open file it was told of, whatever the user goes on doing.        *)
InStep(f) == LET l == link[Primary] IN
  \/ ~Running(l) \/ f \in l.refused \/ text[f] = NoText \/ l.docs[f] = NoDoc
  \/ l.known[f].text = text[f]
Starts ==
  link'[Primary].sent = <<Initialize>> /\ link[Primary].sent # <<Initialize>>
ServerCatchesUp == []<><<Starts>>_vars \/ \A f \in Files : []<>InStep(f)

(* As above for every server of the file, the extras included.             *)
EveryServerIsTold ==
  \A s \in Servers, f \in Files : LET l == link[s] IN
    Running(l) /\ f \notin l.refused /\ l.docs[f] # NoDoc /\ text[f] # NoText
      => l.docs[f].text = text[f] \/ f \in owed

(* A publish that will be dropped is older than the findings on show.      *)
DroppedFindingsAreOlder ==
  \A s \in Servers : \A a \in link[s].answers :
    /\ a.what = "publish" /\ ~Current(link[s], a)
    /\ a.doc.opening = link[s].docs[a.file].opening
    => slice[s][a.file].of.opening = a.doc.opening

(* "Hints refresh when the file changes" (inlay_hints.cpp:4): the hints of *)
(* an open file are those of its text, or a refresh is due or on its way.  *)
HintsFollowTheText ==
  \A f \in Files : LET l == link[Primary] IN
    l.status = "ready" /\ text[f] # NoText /\ f \notin l.refused
      => \/ hints[f].of = text[f]
         \/ f \in owed \/ (hints[f].dirty /\ ~hints[f].inFlight)
         \/ \E p \in l.pend : p.kind = "inlay" /\ p.file = f /\ Usable(l, p)
=============================================================================
