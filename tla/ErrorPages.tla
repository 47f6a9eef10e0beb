----------------------------- MODULE ErrorPages -----------------------------
(***************************************************************************)
(* Error pages: the store that JavaScript updates at run time              *)
(* (src/server/error_page_store.rs), the responses the proxy generates     *)
(* itself (src/proxy/response.rs), and the middleware that replaces error  *)
(* responses of upstreams (src/middlewares/rewrite_error_page/mod.rs) with *)
(* the help of the body filter in src/proxy/proxy.rs.                      *)
(***************************************************************************)
EXTENDS Integers, FiniteSets, Sequences, TLC

CONSTANTS
  Id,             \* ids of error pages
  Priority,       \* their priorities
  StatusSpec,     \* status specs: sequences of tokens
  BodyLen,        \* lengths of page bodies
  Class,          \* classes of requests that page matchers tell apart
  Req,            \* downstream connections
  Status,         \* statuses of responses
  RewriteStatuses,\* statuses of the rewrite_error_page middleware
  RewriteRule,    \* classes for which its rule holds
  MaxUpdates,     \* bound on updates of the store
  MaxChunks,      \* bound on body chunks of an upstream response
  NoPage          \* None

VARIABLES
  entries,        \* the entries of the current snapshot
  updates,        \* number of updates so far
  pc,             \* request -> "idle", "streaming", "done" or "failed"
  class,          \* request -> its class
  errorStatus,    \* request -> CelHttpSession.error_status, 0 for None
  bodyOverride,   \* request -> response_body_override: "none", "replace", "drop"
  page,           \* request -> the page that was rendered for it
  chunks,         \* request -> body chunks its upstream still has to send
  shape,          \* request -> how its upstream's response says it has a body
  advertised,     \* request -> Content-Length written downstream, -1 if none
  sent            \* request -> what was written to its body, in order

vars == <<entries, updates, pc, class, errorStatus, bodyOverride, page, chunks, shape,
          advertised, sent>>
perRequest == <<pc, class, errorStatus, bodyOverride, page, chunks, shape, advertised, sent>>

-----------------------------------------------------------------------------
(* A token of a status spec: a code or a range, or one that does not parse. *)
TokenOK(t) == t.kind = "range" /\ t.from <= t.to /\ t.from >= 400 /\ t.to <= 599

(* parse_status_spec: token by token; the first that is malformed, reversed *)
(* or leaves 400..599 rejects the spec. The empty spec is any status.       *)
ParseStatusSpec(tokens) ==
  LET after[n \in 0..Len(tokens)] ==
        IF n = 0 THEN [ok |-> TRUE, set |-> {}]
        ELSE LET before == after[n - 1] IN
             IF before.ok /\ TokenOK(tokens[n])
               THEN [ok |-> TRUE, set |-> before.set \cup (tokens[n].from .. tokens[n].to)]
               ELSE [ok |-> FALSE, set |-> {}]
  IN after[Len(tokens)]

-----------------------------------------------------------------------------
(* The store.                                                               *)

Config ==  \* with a matcher that some requests fit
  [id : Id, spec : StatusSpec, classes : SUBSET Class \ {{}}, priority : Priority, len : BodyLen]

(* build: an entry, with the number of the update that made it. Its         *)
(* headers, content type and status_override only shape the response.       *)
Build(c, n) ==
  [id |-> c.id, statuses |-> ParseStatusSpec(c.spec).set, spec |-> c.spec, classes |-> c.classes,
   priority |-> c.priority, len |-> c.len, update |-> n]

(* sort_by priority, descending; the sort is stable.                        *)
Sorted(s) ==
  LET before(i, j) == s[i].priority > s[j].priority \/ (s[i].priority = s[j].priority /\ i < j)
      place(i) == 1 + Cardinality({j \in DOMAIN s : before(j, i)})
  IN [k \in DOMAIN s |-> s[CHOOSE i \in DOMAIN s : place(i) = k]]

(* Mutant: an update replaces its entry in place and does not sort.         *)
UpdateInPlace(c) ==
  LET entry == Build(c, updates + 1)
      old == {i \in DOMAIN entries : entries[i].id = c.id}
  IN /\ updates < MaxUpdates /\ ParseStatusSpec(c.spec).ok
     /\ updates' = updates + 1
     /\ entries' = IF old = {} THEN Append(entries, entry)
                   ELSE [i \in DOMAIN entries |-> IF i \in old THEN entry ELSE entries[i]]
     /\ UNCHANGED perRequest

(* update: retain the others, push, sort, store; a configuration that does  *)
(* not build, for its spec or for any other field, changes nothing.         *)
Update(c) ==
  /\ updates < MaxUpdates /\ ParseStatusSpec(c.spec).ok
  /\ updates' = updates + 1
  /\ entries' = Sorted(Append(SelectSeq(entries, LAMBDA e : e.id # c.id), Build(c, updates + 1)))
  /\ UNCHANGED perRequest

(* remove.                                                                  *)
Remove(id) ==
  /\ \E i \in DOMAIN entries : entries[i].id = id
  /\ entries' = SelectSeq(entries, LAMBDA e : e.id # id)
  /\ UNCHANGED <<updates, perRequest>>

(* lookup_error_page: the first entry of the snapshot that applies.         *)
Applies(e, s, c) == (e.statuses = {} \/ s \in e.statuses) /\ c \in e.classes
LookupErrorPage(s, c) ==
  LET fits == {i \in DOMAIN entries : Applies(entries[i], s, c)}
  IN IF fits = {} THEN NoPage ELSE entries[CHOOSE i \in fits : \A j \in fits : i <= j]

-----------------------------------------------------------------------------
(* Responses.                                                               *)

Idle(r) == pc[r] = "idle"

(* The body of a page as it is written: nothing if it is empty.             *)
PageBody(p) == IF p.len = 0 THEN <<>> ELSE <<[from |-> "page", len |-> p.len]>>

(* write_response: explicit content is written as it is, an error status    *)
(* consults the store, everything else is a bare response.                  *)
WriteResponse(r, s, explicit) ==
  /\ Idle(r)
  /\ pc' = [pc EXCEPT ![r] = "done"]
  /\ \/ /\ explicit
        /\ sent' = [sent EXCEPT ![r] = <<[from |-> "explicit", len |-> 1]>>]
        /\ advertised' = [advertised EXCEPT ![r] = 1]
        /\ UNCHANGED <<page, errorStatus>>
     \/ /\ ~explicit /\ s >= 400
        /\ errorStatus' = [errorStatus EXCEPT ![r] = s]
        /\ LET p == LookupErrorPage(s, class[r]) IN
             IF p = NoPage
               THEN advertised' = [advertised EXCEPT ![r] = 0] /\ UNCHANGED <<sent, page>>
               ELSE /\ sent' = [sent EXCEPT ![r] = PageBody(p)]
                    /\ advertised' = [advertised EXCEPT ![r] = p.len]
                    /\ page' = [page EXCEPT ![r] = p]
     \/ /\ ~explicit /\ s < 400
        /\ advertised' = [advertised EXCEPT ![r] = 0]
        /\ UNCHANGED <<sent, page, errorStatus>>
  /\ UNCHANGED <<entries, updates, class, bodyOverride, chunks, shape>>

(* An error return of write_response: a header is refused, or the client is *)
(* gone.                                                                    *)
WriteFails(r, s, explicit) ==
  /\ Idle(r)
  /\ pc' = [pc EXCEPT ![r] = "failed"]
  /\ errorStatus' = IF ~explicit /\ s >= 400 THEN [errorStatus EXCEPT ![r] = s] ELSE errorStatus
  /\ UNCHANGED <<entries, updates, class, bodyOverride, page, chunks, shape, advertised, sent>>

(* How a response of an upstream shows its body: with content, with         *)
(* Content-Length: 0, or with no content and no Content-Length (HTTP/2      *)
(* headers that end the stream).                                            *)
Shapes == {"content", "zero", "bare"}

(* upstream_response_filter of rewrite_error_page, up to the lookup.        *)
RewriteApplies(s, sh, c) ==
  c \in RewriteRule /\ s >= 400 /\ (RewriteStatuses = {} \/ s \in RewriteStatuses) /\ sh # "zero"

(* Header phase of an upstream's response.                                  *)
UpstreamResponse(r, s, sh, n) ==
  /\ Idle(r) /\ (sh = "content" <=> n > 0)
  /\ pc' = [pc EXCEPT ![r] = "streaming"]
  /\ chunks' = [chunks EXCEPT ![r] = n] /\ shape' = [shape EXCEPT ![r] = sh]
  /\ LET p == LookupErrorPage(s, class[r]) IN
       /\ errorStatus' =
            IF RewriteApplies(s, sh, class[r]) THEN [errorStatus EXCEPT ![r] = s] ELSE errorStatus
       /\ IF RewriteApplies(s, sh, class[r]) /\ p # NoPage
            THEN /\ page' = [page EXCEPT ![r] = p]
                 /\ bodyOverride' = [bodyOverride EXCEPT ![r] = "replace"]
                 /\ advertised' = [advertised EXCEPT ![r] = p.len]
            ELSE /\ advertised' = [advertised EXCEPT ![r] = IF sh = "bare" THEN -1 ELSE n]
                 /\ UNCHANGED <<page, bodyOverride>>
  /\ UNCHANGED <<entries, updates, class, sent>>

(* Mutant: the override is taken with the first chunk.                      *)
BodyChunkOnce(r) ==
  /\ pc[r] = "streaming" /\ chunks[r] > 0
  /\ chunks' = [chunks EXCEPT ![r] = @ - 1]
  /\ sent' = [sent EXCEPT ![r] = IF bodyOverride[r] = "replace" THEN @ \o PageBody(page[r])
                                 ELSE Append(@, [from |-> "upstream", len |-> 1])]
  /\ bodyOverride' = [bodyOverride EXCEPT ![r] = "none"]
  /\ UNCHANGED <<entries, updates, pc, class, errorStatus, page, shape, advertised>>

(* upstream_response_body_filter: the first chunk becomes the page, the     *)
(* others are dropped.                                                      *)
BodyChunk(r) ==
  /\ pc[r] = "streaming" /\ chunks[r] > 0
  /\ chunks' = [chunks EXCEPT ![r] = @ - 1]
  /\ \/ /\ bodyOverride[r] = "none"
        /\ sent' = [sent EXCEPT ![r] = Append(@, [from |-> "upstream", len |-> 1])]
        /\ UNCHANGED bodyOverride
     \/ /\ bodyOverride[r] = "replace"
        /\ sent' = [sent EXCEPT ![r] = @ \o PageBody(page[r])]
        /\ bodyOverride' = [bodyOverride EXCEPT ![r] = "drop"]
     \/ /\ bodyOverride[r] = "drop"
        /\ UNCHANGED <<sent, bodyOverride>>
  /\ UNCHANGED <<entries, updates, pc, class, errorStatus, page, shape, advertised>>

(* The upstream's response ends; without a body the filter never ran.       *)
EndOfStream(r) ==
  /\ pc[r] = "streaming" /\ chunks[r] = 0
  /\ pc' = [pc EXCEPT ![r] = "done"]
  /\ UNCHANGED <<entries, updates, class, errorStatus, bodyOverride, page, chunks, shape,
                 advertised, sent>>

(* The next request, on this connection (reset_for_request) or, after a     *)
(* failure, on a new one.                                                   *)
ResetForRequest(r) ==
  /\ pc[r] \in {"done", "failed"}
  /\ pc' = [pc EXCEPT ![r] = "idle"]
  /\ \E c \in Class : class' = [class EXCEPT ![r] = c]
  /\ errorStatus' = [errorStatus EXCEPT ![r] = 0]
  /\ bodyOverride' = [bodyOverride EXCEPT ![r] = "none"]
  /\ page' = [page EXCEPT ![r] = NoPage] /\ shape' = [shape EXCEPT ![r] = "none"]
  /\ advertised' = [advertised EXCEPT ![r] = -1] /\ sent' = [sent EXCEPT ![r] = <<>>]
  /\ UNCHANGED <<entries, updates, chunks>>

Init ==
  /\ entries = <<>> /\ updates = 0
  /\ pc = [r \in Req |-> "idle"] /\ class \in [Req -> Class]
  /\ errorStatus = [r \in Req |-> 0] /\ bodyOverride = [r \in Req |-> "none"]
  /\ page = [r \in Req |-> NoPage] /\ chunks = [r \in Req |-> 0]
  /\ shape = [r \in Req |-> "none"] /\ advertised = [r \in Req |-> -1]
  /\ sent = [r \in Req |-> <<>>]

Next ==
  \/ \E c \in Config : Update(c)
  \/ \E id \in Id : Remove(id)
  \/ \E r \in Req :
       \/ \E s \in Status, x \in BOOLEAN : WriteResponse(r, s, x) \/ WriteFails(r, s, x)
       \/ \E s \in Status, sh \in Shapes, n \in 0..MaxChunks : UpstreamResponse(r, s, sh, n)
       \/ BodyChunk(r) \/ EndOfStream(r) \/ ResetForRequest(r)

Spec == Init /\ [][Next]_vars

-----------------------------------------------------------------------------
Codes(spec) == UNION {spec[i].from .. spec[i].to : i \in DOMAIN spec}

(* Type invariant; the statuses of an entry are exactly the codes its spec  *)
(* lists, all of them error statuses.                                       *)
TypeOK ==
  /\ \A i \in DOMAIN entries :
       entries[i].statuses = Codes(entries[i].spec) /\ entries[i].statuses \subseteq 400..599
  /\ updates \in 0..MaxUpdates
  /\ pc \in [Req -> {"idle", "streaming", "done", "failed"}] /\ class \in [Req -> Class]
  /\ errorStatus \in [Req -> {0} \cup Status]
  /\ bodyOverride \in [Req -> {"none", "replace", "drop"}]
  /\ chunks \in [Req -> 0..MaxChunks] /\ shape \in [Req -> Shapes \cup {"none"}]
  /\ advertised \in [Req -> Int]

(* Whatever sequence of updates and removals built the store, the page      *)
(* looked up first is the one of highest priority that applies and, among   *)
(* those, the one updated longest ago: "insertion order" counts from the    *)
(* last update of an id, which takes its entry out and pushes it again.     *)
(* Ids are unique.                                                          *)
FirstIsBest ==
  /\ Cardinality({entries[i].id : i \in DOMAIN entries}) = Len(entries)
  /\ \A s \in Status, c \in Class :
       LET fits == {e \in {entries[i] : i \in DOMAIN entries} : Applies(e, s, c)}
           p == LookupErrorPage(s, c)
       IN IF fits = {} THEN p = NoPage
          ELSE /\ p \in fits
               /\ \A e \in fits \ {p} : e.priority < p.priority
                                          \/ (e.priority = p.priority /\ e.update > p.update)

SentFrom(r) == {sent[r][i].from : i \in DOMAIN sent[r]}
SentLen(r) == LET upTo[n \in 0..Len(sent[r])] == IF n = 0 THEN 0 ELSE upTo[n - 1] + sent[r][n].len
              IN upTo[Len(sent[r])]

(* A response never mixes a page with the upstream's content, and a page is *)
(* written once: what was promised as Content-Length is what was sent, for  *)
(* every response that has content or says that it has none. (A response    *)
(* that does neither is replaced in its header only.)                       *)
WholeBody ==
  \A r \in Req :
    /\ Cardinality(SentFrom(r)) <= 1
    /\ pc[r] = "done" /\ shape[r] # "bare" => SentLen(r) = advertised[r]
=============================================================================
