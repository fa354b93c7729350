-------------------------------- MODULE Report --------------------------------
(* From search hits to the citations of the final report.  The search tools of *)
(* a run's workers register every hit as an evidence row and show it to the    *)
(* model under its src_id (agents/tools); a stage's output may claim evidence  *)
(* of its own (nodes/stage.py); the synthesis node lets a model draft the      *)
(* report, rejects citations of src_ids it does not know, strips the ones that *)
(* stay, and stores the report with its sources (nodes/synthesis.py).          *)
(*                                                                             *)
(* Workers that a failed drive left running may search while the synthesis of  *)
(* the next drive runs.  Fanout has the workers, Pipeline the drives.          *)
EXTENDS Naturals, Sequences, FiniteSets

CONSTANTS
    Web,          \* what search engines find
    Docs,         \* chunks of ingested documents
    Srcs,         \* src_ids
    SrcId,        \* make_src_id: 8 hex digits of a hash, so hits may share one
    Calls,        \* the tool calls
    K,            \* bound on the k of each call
    Drafts,       \* what a model may write: texts over "[", "^", "]" and src_ids
    None,         \* an absent row
    Claimed,      \* the card of a row a stage's output claimed
    MaxFailures   \* bound on the failures of the synthesis

Hits == Web \cup Docs

Symbols == {"[", "^", "]"} \cup Srcs

ASSUME ReportAssumption ==
    /\ SrcId \in [Hits -> Srcs]
    /\ Srcs \cap {"[", "^", "]"} = {}
    /\ None \notin Hits \cup {Claimed} /\ Claimed \notin Hits
    /\ Drafts \subseteq Seq(Symbols)
    /\ K \in [Calls -> Nat] /\ MaxFailures \in Nat

VARIABLES
    cards,     \* the evidence table: what the row of a src_id says
    call,      \* the tool calls: step, hits left, hits registered
    shown,     \* history: the hits models were shown, each with its src_id and
               \* what the row of that src_id said then
    synth,     \* the synthesis node
    stored,    \* REPORT_PATH in the artifacts table
    failures   \* failures of the synthesis so far

vars == <<cards, call, shown, synth, stored, failures>>

-------------------------------------------------------------------------------
(* Text.  A citation is "[", "^", one or more symbols that are not "]", "]".   *)

(* Where the citation that starts at i ends: 0 if none starts there.           *)
End(text, i) ==
    LET ends == {j \in i + 3 .. Len(text) :
                    text[j] = "]" /\ \A m \in i + 2 .. j - 1 : text[m] # "]"}
    IN  IF text[i] = "[" /\ i < Len(text) /\ text[i + 1] = "^" /\ ends # {}
        THEN CHOOSE j \in ends : TRUE ELSE 0

(* CITATION_RE.findall: leftmost matches that do not overlap.                  *)
Cited(text) ==
    LET from[i \in 1 .. Len(text) + 1] ==
            IF i > Len(text) THEN {}
            ELSE IF End(text, i) = 0 THEN from[i + 1]
            ELSE {SubSeq(text, i + 2, End(text, i) - 1)} \cup from[End(text, i) + 1]
    IN  from[1]

Token(id) == <<"[", "^">> \o id \o <<"]">>

(* body.replace(token, "").                                                    *)
Without(text, token) ==
    LET from[i \in 1 .. Len(text) + 1] ==
            IF i > Len(text) THEN <<>>
            ELSE IF /\ i + Len(token) - 1 <= Len(text)
                    /\ SubSeq(text, i, i + Len(token) - 1) = token
            THEN from[i + Len(token)]
            ELSE <<text[i]>> \o from[i + 1]
    IN  from[1]

(* The src_ids of a set of citations, as a report cites them.                  *)
Ids(S) == {<<s>> : s \in S}

(* A text whose brackets are those of its citations.                           *)
Tidy(text) ==
    \A i \in 1 .. Len(text) : text[i] = "[" =>
        End(text, i) # 0 /\ \A m \in i + 1 .. End(text, i) : text[m] # "["

-------------------------------------------------------------------------------

Rows == {s \in Srcs : cards[s] # None}

Quiet == [pc |-> "idle", hits |-> <<>>, out |-> {}]
Over == [pc |-> "over", hits |-> <<>>, out |-> {}]

Waiting == [pc |-> "stages", known |-> {}, attempt |-> 0, draft |-> <<>>, body |-> <<>>,
            bad |-> {}, told |-> {}]

Init ==
    /\ cards = [s \in Srcs |-> None]
    /\ call = [c \in Calls |-> Quiet]
    /\ shown = {}
    /\ synth = Waiting
    /\ stored = None
    /\ failures = 0

(* A call goes on to its next hit, or returns all of them to the model.        *)
Proceed(c, hits, out) ==
    IF hits = <<>>
    THEN call' = [call EXCEPT ![c] = Over] /\ shown' = shown \cup out
    ELSE /\ call' = [call EXCEPT ![c] = [pc |-> "select", hits |-> hits, out |-> out]]
         /\ UNCHANGED shown

FirstOf(items, k) == SubSeq(items, 1, IF k < Len(items) THEN k ELSE Len(items))

(* The adapters cut what their engine returns, repetitions included, to k;     *)
(* Perplexity's first drops the citations that are no strings (None).          *)
TavilyProvider(results, k) == FirstOf(results, k)

ExaProvider(results, k) == FirstOf(results, k)

_extract_citations(citations) ==
    LET from[i \in 1 .. Len(citations) + 1] ==
            IF i > Len(citations) THEN <<>>
            ELSE IF citations[i] \in Web THEN <<citations[i]>> \o from[i + 1]
            ELSE from[i + 1]
    IN  from[1]

PerplexityProvider(citations, k) == FirstOf(_extract_citations(citations), k)

UpTo(n, S) == UNION {[1 .. m -> S] : m \in 0 .. n}

(* web_search: a blank query or a k of 0 or less finds nothing.                *)
WebSearch(c) ==
    /\ call[c].pc = "idle"
    /\ \E k \in 0 .. K[c] :
         \/ \E items \in UpTo(K[c], Web) :
               \/ Proceed(c, TavilyProvider(items, k), {})
               \/ Proceed(c, ExaProvider(items, k), {})
         \/ \E items \in UpTo(K[c], Web \cup {None}) :
               Proceed(c, PerplexityProvider(items, k), {})
    /\ UNCHANGED <<cards, synth, stored, failures>>

(* rag_search_for_run: the query orders the chunks and LIMITs them to k.       *)
RagSearch(c) ==
    /\ call[c].pc = "idle"
    /\ \E chunks \in UpTo(K[c], Docs) :
         /\ \A i, j \in DOMAIN chunks : chunks[i] = chunks[j] => i = j
         /\ Proceed(c, chunks, {})
    /\ UNCHANGED <<cards, synth, stored, failures>>

BugSelect(c) ==                   \* shown before it is registered
    /\ call[c].pc = "select"
    /\ LET h == Head(call[c].hits) IN
       /\ shown' = shown \cup {<<SrcId[h], h, cards[SrcId[h]]>>}
       /\ IF cards[SrcId[h]] = None
          THEN call' = [call EXCEPT ![c].pc = "insert"]
          ELSE call' = [call EXCEPT ![c] = Over]
    /\ UNCHANGED <<cards, synth, stored, failures>>

(* register_evidence: a row that is there is taken for the hit's own.          *)
Select(c) ==
    /\ call[c].pc = "select"
    /\ LET h == Head(call[c].hits) IN
       IF cards[SrcId[h]] = None
       THEN call' = [call EXCEPT ![c].pc = "insert"] /\ UNCHANGED shown
       ELSE Proceed(c, Tail(call[c].hits), call[c].out \cup {<<SrcId[h], h, cards[SrcId[h]]>>})
    /\ UNCHANGED <<cards, synth, stored, failures>>

(* The insert is committed at once: hits before a failing one keep their rows. *)
(* Where another call was faster the unique constraint fails this one.         *)
Insert(c) ==
    /\ call[c].pc = "insert"
    /\ LET h == Head(call[c].hits) IN
       IF cards[SrcId[h]] = None
       THEN /\ cards' = [cards EXCEPT ![SrcId[h]] = h]
            /\ Proceed(c, Tail(call[c].hits), call[c].out \cup {<<SrcId[h], h, h>>})
       ELSE /\ call' = [call EXCEPT ![c] = Over]
            /\ UNCHANGED <<cards, shown>>
    /\ UNCHANGED <<synth, stored, failures>>

(* The engine refuses, a query fails, the worker is cancelled: nothing is      *)
(* shown, and what is registered stays.                                        *)
Abandon(c) ==
    /\ call[c].pc \in {"idle", "select", "insert"}
    /\ call' = [call EXCEPT ![c] = Over]
    /\ UNCHANGED <<cards, shown, synth, stored, failures>>

BugClaim ==                       \* the row is overwritten
    /\ synth.pc = "stages"
    /\ \E s \in Srcs : cards' = [cards EXCEPT ![s] = Claimed]
    /\ UNCHANGED <<call, shown, synth, stored, failures>>

(* _persist_stage_output: evidence of the output whose src_id has no row gets  *)
(* the row the model describes.                                                *)
Claim ==
    /\ synth.pc = "stages"
    /\ \E s \in Srcs : cards[s] = None /\ cards' = [cards EXCEPT ![s] = Claimed]
    /\ UNCHANGED <<call, shown, synth, stored, failures>>

-------------------------------------------------------------------------------
(* The synthesis node.                                                         *)

max_attempts == 3

Unknown(text, known) == Cited(text) \ Ids(known)

ReadEvidence ==
    /\ synth.pc = "stages"
    /\ synth' = [Waiting EXCEPT !.pc = "draft", !.known = Rows,
                                !.told = {p[1] : p \in shown}]
    /\ UNCHANGED <<cards, call, shown, stored, failures>>

BugDraft ==                       \* a rejected draft is not counted
    /\ synth.pc = "draft"
    /\ \E d \in Drafts :
         synth' = [synth EXCEPT !.draft = d, !.body = d, !.bad = Unknown(d, synth.known),
                     !.pc = IF Unknown(d, synth.known) = {} THEN "write" ELSE "reject"]
    /\ UNCHANGED <<cards, call, shown, stored, failures>>

Draft ==
    /\ synth.pc = "draft"
    /\ \E d \in Drafts :
         synth' = [synth EXCEPT !.draft = d, !.body = d, !.bad = Unknown(d, synth.known),
                     !.attempt = @ + 1,
                     !.pc = IF Unknown(d, synth.known) = {} THEN "write" ELSE "reject"]
    /\ UNCHANGED <<cards, call, shown, stored, failures>>

(* The next draft replaces this one; the model is told what was wrong with it. *)
Discarded == [synth EXCEPT !.pc = "draft", !.draft = <<>>, !.body = <<>>, !.bad = {}]

BugReject ==                      \* the last draft is taken as it is
    /\ synth.pc = "reject"
    /\ synth' = IF synth.attempt < max_attempts THEN Discarded ELSE [synth EXCEPT !.pc = "write"]
    /\ UNCHANGED <<cards, call, shown, stored, failures>>

(* The message that goes with a rejected draft, the last one's included.       *)
Reject ==
    /\ synth.pc = "reject"
    /\ synth' = IF synth.attempt < max_attempts THEN Discarded ELSE [synth EXCEPT !.pc = "strip"]
    /\ UNCHANGED <<cards, call, shown, stored, failures>>

(* The unknown citations of the last draft are removed one after the other, in *)
(* the order of a set of strings; nobody looks at what is left.                *)
Strip ==
    /\ synth.pc = "strip"
    /\ \E id \in synth.bad :
         synth' = [synth EXCEPT !.body = Without(@, Token(id)), !.bad = @ \ {id},
                     !.pc = IF synth.bad = {id} THEN "announce" ELSE "strip"]
    /\ UNCHANGED <<cards, call, shown, stored, failures>>

Announce ==
    /\ synth.pc = "announce"
    /\ synth' = [synth EXCEPT !.pc = "write"]
    /\ UNCHANGED <<cards, call, shown, stored, failures>>

(* The report and a list of all the evidence that was read, inserted or        *)
(* replacing the report of an earlier drive.                                   *)
Write ==
    /\ synth.pc = "write"
    /\ stored' = [body |-> synth.body, sources |-> synth.known,
                  draft |-> synth.draft, told |-> synth.told]
    /\ synth' = [Waiting EXCEPT !.pc = "publish"]
    /\ UNCHANGED <<cards, call, shown, failures>>

Publish ==
    /\ synth.pc = "publish"
    /\ synth' = [synth EXCEPT !.pc = "done"]
    /\ UNCHANGED <<cards, call, shown, stored, failures>>

(* The model, a query or a publish fails, or the run is cancelled: a retry     *)
(* starts the node again, or a stage before it.                                *)
Fail ==
    /\ synth.pc \notin {"stages", "done"}
    /\ failures < MaxFailures
    /\ failures' = failures + 1
    /\ synth' = Waiting
    /\ UNCHANGED <<cards, call, shown, stored>>

Tools ==
    \/ \E c \in Calls : WebSearch(c) \/ RagSearch(c) \/ Select(c) \/ Insert(c) \/ Abandon(c)
    \/ Claim

Node == Draft \/ Reject \/ Strip \/ Announce \/ Write \/ Publish

Next == Tools \/ ReadEvidence \/ Node \/ Fail

Spec == Init /\ [][Next]_vars

(* A node that runs goes on: models, queries and publishes answer or fail.     *)
FairSpec == Spec /\ WF_vars(Node)

-------------------------------------------------------------------------------
(* Correctness                                                                 *)

Cards == Srcs \X Hits \X (Hits \cup {Claimed, None})

TypeOK ==
    /\ cards \in [Srcs -> Hits \cup {Claimed, None}]
    /\ call \in [Calls -> [pc : {"idle", "select", "insert", "over"},
                           hits : Seq(Hits), out : SUBSET Cards]]
    /\ \A c \in Calls : call[c].pc \in {"select", "insert"} => call[c].hits # <<>>
    /\ shown \subseteq Cards
    /\ synth \in [pc : {"stages", "draft", "reject", "strip", "announce", "write",
                        "publish", "done"},
                  known : SUBSET Srcs, attempt : 0 .. max_attempts,
                  draft : Seq(Symbols), body : Seq(Symbols), bad : SUBSET Seq(Symbols),
                  told : SUBSET Srcs]
    /\ failures \in 0 .. MaxFailures

(* What is stored as the report of a run cites only evidence it lists, and     *)
(* lists only evidence of the run, whatever the model wrote in three drafts    *)
(* and in whatever order its inventions were stripped, unless the brackets of  *)
(* the draft are not those of its citations: then what is left of two of them  *)
(* may form a third (synthesis.py:132).                                        *)
CitesKnown ==
    stored # None =>
        /\ Tidy(stored.draft) => Cited(stored.body) \subseteq Ids(stored.sources)
        /\ stored.sources \subseteq Rows

(* A citation of something a tool had shown to a model before the synthesis    *)
(* began is never taken for an invention: it is in the stored report if it was *)
(* in the last draft, unless the brackets of that draft are not those of its   *)
(* citations: then the removal of one can let the next bracket swallow another *)
(* (cite.py:59, synthesis.py:120).                                             *)
ShownKept ==
    stored # None /\ Tidy(stored.draft) =>
        Cited(stored.draft) \cap Ids(stored.told) \subseteq Cited(stored.body)

(* A row a model was shown a hit for stays what it was, whatever searches and  *)
(* outputs come after it, and it says what the model was shown, unless two     *)
(* hits share the src_id or an output had claimed it (cite.py:34,              *)
(* stage.py:299).                                                              *)
CardMatches ==
    \A p \in shown :
        /\ cards[p[1]] = p[3]
        /\ \/ p[3] \in {p[2], Claimed}
           \/ \E h \in Hits \ {p[2]} : SrcId[h] = p[1] /\ p[3] = h

(* Every variable stays in its range, no more drafts are made than the node    *)
(* allows itself, and every row says what the models were shown.               *)
ReportInv == TypeOK /\ CardMatches

(* A synthesis that has begun ends, however often its drafts are rejected.     *)
Reported == synth.pc = "draft" ~> synth.pc \in {"done", "stages"}
===============================================================================
