-------------------------- MODULE RequestPipeline --------------------------
(***************************************************************************)
(* The life of a request in the proxy: the callbacks of LonesomeProxy      *)
(* (src/proxy/proxy.rs) in the order in which the proxy library makes      *)
(* them, the middlewares each of them runs (src/middlewares), the SNI      *)
(* policy, and the response cache with its purge. Routes and upstreams     *)
(* have modules of their own; here a routing table is fixed, and an        *)
(* attempt to reach an upstream succeeds or fails.                         *)
(***************************************************************************)
EXTENDS Integers, FiniteSets, Sequences

CONSTANTS
  Req,        \* requests
  Request,    \* what clients send: [sni, authority, host, path, scheme, method, cred, https]
  Setup,      \* [policy, table]: the SNI policy a server is started with, and
              \* its routing table, a function from hosts to routes
  MaxTtl,     \* max_ttl_secs of the cache middlewares
  HeaderValue,   \* hosts that may stand in a header
  UriAuthority,  \* hosts that may stand in a URI; a name is in both sets
  MaxTries,   \* the proxy library's bound on attempts
  MaxTime,    \* bound on the clock
  MaxPurges,  \* bound on purges of a route
  NoHost, NoRoute, NoObj, NoReq  \* None

VARIABLES
  policy, table,   \* configuration of the server
  now,             \* SystemTime::now
  pc,              \* request -> the callback it is in
  req,             \* request -> as received: also what CEL expressions see
  route,           \* request -> ProxyCtx.current_route
  hdr,             \* request -> the request header of the session
  pos,             \* request -> the middleware request_filter has come to
  tries,           \* request -> attempts to reach an upstream
  forwarded,       \* request -> headers sent to upstreams
  status,          \* request -> status of the response, 0 while there is none
  stale,           \* request -> stale object found by its lookup
  pending,         \* request -> object it is writing to the cache
  served,          \* request -> object its response was served from
  observed,        \* count of the rate limiter in its window, for the one key
  cache,           \* the cache: key -> object
  purgeAt,         \* NAMESPACE_PURGE_AT: route id -> time
  purging,         \* route id -> the map a purge under way is going to store
  begun, stored,   \* history: purges of a route whose time was read, that returned
  asOf             \* history: purges that had returned at a request's lookup

config == <<policy, table>>
session == <<req, route, hdr, pos>>
upstream == <<tries, forwarded>>
objects == <<stale, pending, served, asOf>>
purges == <<purgeAt, purging, begun, stored>>
vars == <<config, now, pc, session, upstream, status, objects, observed, cache, purges>>

-----------------------------------------------------------------------------
(* Hosts and the SNI policy. A host is the sequence of the parts of its     *)
(* text, one part for a name. Hosts are compared without case and final     *)
(* dot, so a host stands for all its spellings.                             *)

(* http_authority: :authority before Host.                                  *)
HttpAuthority(q) == IF q.authority # NoHost THEN q.authority ELSE q.host

AuthorityConflict(q) == q.authority # NoHost /\ q.host # NoHost /\ q.authority # q.host

(* host(): what routing and expressions see.                                *)
RoutingHost(q) ==
  IF policy \in {"loose_by_sni", "strict_rewrite_header"} /\ q.sni # NoHost
    THEN q.sni ELSE HttpAuthority(q)

(* sni_host_policy_reject, 0 for None.                                      *)
PolicyReject(q) ==
  IF policy \in {"strict", "strict_rewrite_header"} /\ AuthorityConflict(q) THEN 400
  ELSE IF policy = "strict" /\ NoHost \notin {q.sni, HttpAuthority(q)} /\ q.sni # HttpAuthority(q)
    THEN 421
  ELSE 0

-----------------------------------------------------------------------------
(* Middlewares: [kind, rule], and a limit for rate_limit; a rule is a       *)
(* method or "any". It is evaluated on the request as received, whatever    *)
(* was rewritten since.                                                     *)
ShouldApply(m, q) == m.rule \in {"any", q.method}

MiddlewaresOf(rt) == IF rt = NoRoute THEN <<>> ELSE rt.middlewares

(* The middlewares of a kind that apply to a request, by their positions.   *)
ApplyingIn(rt, q, kind) ==
  {i \in DOMAIN MiddlewaresOf(rt) : MiddlewaresOf(rt)[i].kind = kind
                                     /\ ShouldApply(MiddlewaresOf(rt)[i], q)}

Middlewares(r) == MiddlewaresOf(route[r])
Applying(r, kind) == ApplyingIn(route[r], req[r], kind)

(* Mutant: the scheme of the Authorization header is not looked at.         *)
BasicAuthAnyScheme(q) ==
  IF q.cred # "none" THEN {"next"} ELSE {"respond"}

(* request_filter of the middlewares that may answer themselves: the        *)
(* outcomes "next", "respond" and "error".                                  *)
BasicAuth(q) ==
  IF q.cred = "basic" THEN {"next"} ELSE {"respond"}

Jwt(q) == IF q.cred = "token" THEN {"next"} ELSE {"respond"}
JwtPassthrough == {"next"}
Redirect == {"next", "respond", "error"}

(* The scheme of the URI, which HTTP/2 and absolute URIs carry, comes       *)
(* before that of the connection.                                           *)
RequestScheme(q) ==
  IF q.scheme # "none" THEN q.scheme ELSE IF q.https THEN "https" ELSE "http"

(* redirect_https, to https or, with to_http, the other way; a request that *)
(* names no host cannot be redirected.                                      *)
RedirectHttps(q, h, target) ==
  IF RequestScheme(q) = target \/ (h.host = NoHost /\ h.authority = NoHost)
    THEN {"next"} ELSE {"respond"}

Respond == {"respond", "error"}
Cors(h) == IF h.method = "OPTIONS" THEN {"respond"} ELSE {"next"}
Intercept == {"next", "respond", "error"}

(* Every limiter has its own limit, and all compare it with the one counter *)
(* of the key. A request without a key is one the limiter does not apply to.*)
RateLimit(m) ==
  IF observed + 1 <= m.limit THEN {"next"} ELSE {"respond"}

(* Those that change the request of the session, or the context.            *)
Rewrite == {"next", "error"}
SetVariable == {"next", "error"}

Outcomes(m, q, h) ==
  CASE m.kind = "basic_auth" -> BasicAuth(q)
    [] m.kind = "jwt" -> Jwt(q)
    [] m.kind = "jwt_passthrough" -> JwtPassthrough
    [] m.kind = "redirect" -> Redirect
    [] m.kind = "redirect_https" -> RedirectHttps(q, h, "https")
    [] m.kind = "redirect_http" -> RedirectHttps(q, h, "http")
    [] m.kind = "respond" -> Respond
    [] m.kind = "cors" -> Cors(h)
    [] m.kind = "interceptor" -> Intercept
    [] m.kind = "rate_limit" -> RateLimit(m)
    [] m.kind = "rewrite" -> Rewrite
    [] m.kind = "set_variable" -> SetVariable
    [] OTHER -> {"next"}

(* A path is the sequence of its parts; each rewrite shows in it.           *)
RewrittenPath(h) == [h EXCEPT !.path = Append(@, "/rewritten")]
RewrittenMethod(h) == [h EXCEPT !.method = "POST"]

(* request_headers on the header of an attempt: a value is appended to some *)
(* header, or Host is set, set where there is none, or removed.             *)
AppendHeader(h) == [h EXCEPT !.extra = @ + 1]
SetHost(h, own) == [h EXCEPT !.host = own]
SetDefaultHost(h, own) == IF h.host = NoHost THEN SetHost(h, own) ELSE h
RemoveHost(h) == [h EXCEPT !.host = NoHost]

HostActions == {"set_host", "set_default_host", "remove_host"}

(* upstream_request_filter: the header after the first n middlewares.       *)
HeaderAfter(r) ==
  LET after[n \in 0..Len(Middlewares(r))] ==
        IF n = 0 THEN hdr[r]
        ELSE CASE n \in Applying(r, "append_header") -> AppendHeader(after[n - 1])
               [] n \in Applying(r, "set_host") -> SetHost(after[n - 1], route[r].own)
               [] n \in Applying(r, "set_default_host") ->
                    SetDefaultHost(after[n - 1], route[r].own)
               [] n \in Applying(r, "remove_host") -> RemoveHost(after[n - 1])
               [] OTHER -> after[n - 1]
  IN after

(* An expression whose value is wanted fails, or is no string.              *)
ValueMayFail(r) ==
  \/ Applying(r, "append_header") \cup Applying(r, "set_host") # {}
  \/ \E n \in Applying(r, "set_default_host") : HeaderAfter(r)[n - 1].host = NoHost

(* Mutant: only the Host header is forced.                                  *)
ForceHostOnly(h, name) ==
  IF name \in HeaderValue THEN [h EXCEPT !.host = name] ELSE h

(* force_authority passes over each of the two places that cannot hold the  *)
(* name.                                                                    *)
ForceAuthority(h, name) ==
  [h EXCEPT !.host = IF name \in HeaderValue THEN name ELSE @,
            !.authority = IF name \in UriAuthority THEN name ELSE @]

(* ... and then, with strict_rewrite_header, the authority is forced to the *)
(* SNI.                                                                     *)
RequestHeaders(r) ==
  LET h == HeaderAfter(r)[Len(Middlewares(r))]
  IN IF policy = "strict_rewrite_header" /\ req[r].sni # NoHost
       THEN ForceAuthority(h, req[r].sni) ELSE h

(* Callbacks of middlewares that may fail, such as header expressions and   *)
(* variables on a response.                                                 *)
ResponseHooks == {"response_headers", "set_variable", "cors"}
MayFail(r, kinds) == \E kind \in kinds : Applying(r, kind) # {}

-----------------------------------------------------------------------------
(* End of a request: a response was written, or an error is answered.       *)
Ends(r, code) == pc' = [pc EXCEPT ![r] = "done"] /\ status' = [status EXCEPT ![r] = code]
Goes(r, to) == pc' = [pc EXCEPT ![r] = to] /\ UNCHANGED status

(* fail_to_proxy: the status of the error, 502 for most.                    *)
FailToProxy(r, code) ==
  Ends(r, code)

(* early_request_filter: the route is found and its early filters run. Two  *)
(* caches, or two health checks, that apply to one request are an error.    *)
EarlyRequestFilter(r, q) ==
  /\ pc[r] = "idle"
  /\ LET rt == table[RoutingHost(q)] IN
       /\ route' = [route EXCEPT ![r] = rt]
       /\ IF \E kind \in {"cache", "health_check"} : Cardinality(ApplyingIn(rt, q, kind)) > 1
            THEN FailToProxy(r, 502) ELSE Goes(r, "policy")
  /\ req' = [req EXCEPT ![r] = q]
  /\ hdr' = [hdr EXCEPT ![r] = [method |-> q.method, path |-> q.path, authority |-> q.authority,
                                host |-> q.host, extra |-> 0]]
  /\ pos' = [pos EXCEPT ![r] = 1]
  /\ UNCHANGED <<config, now, upstream, objects, observed, cache, purges>>

(* request_filter: the SNI policy comes before every middleware.            *)
SniHostReject(r) ==
  /\ pc[r] = "policy"
  /\ IF PolicyReject(req[r]) # 0 THEN Ends(r, PolicyReject(req[r])) ELSE Goes(r, "filter")
  /\ UNCHANGED <<config, now, session, upstream, objects, observed, cache, purges>>

(* Rate::observe counts every request, refused ones too, and for every      *)
(* limiter it passes.                                                       *)
Observe(r, m) ==
  IF m.kind = "rate_limit" /\ ShouldApply(m, req[r])
    THEN observed' = observed + 1 ELSE UNCHANGED observed

(* What a middleware makes of the session's header. A rewrite whose pattern *)
(* does not match leaves the path.                                          *)
Rewrites(m, h) ==
  CASE m.kind = "rewrite" -> {h, RewrittenPath(h)}
    [] m.kind = "rewrite_method" -> {RewrittenMethod(h)}
    [] OTHER -> {h}

(* One middleware's request_filter; the first that answers or fails ends    *)
(* the loop. Writing an answer may fail too.                                *)
FilterStep(r) ==
  /\ pc[r] = "filter" /\ pos[r] <= Len(Middlewares(r))
  /\ LET m == Middlewares(r)[pos[r]]
         applies == ShouldApply(m, req[r])
     IN \E out \in IF applies THEN Outcomes(m, req[r], hdr[r]) ELSE {"next"} :
          /\ Observe(r, m)
          /\ \/ out = "next" /\ Goes(r, "filter")
             \/ out = "respond" /\ Ends(r, 401)
             \/ out \in {"respond", "error"} /\ FailToProxy(r, 502)
          /\ \E h \in IF applies /\ out = "next" THEN Rewrites(m, hdr[r]) ELSE {hdr[r]} :
               hdr' = [hdr EXCEPT ![r] = h]
  /\ pos' = [pos EXCEPT ![r] = @ + 1]
  /\ UNCHANGED <<config, now, req, route, upstream, objects, cache, purges>>

-----------------------------------------------------------------------------
(* The cache.                                                               *)

HasCache(r) == Applying(r, "cache") # {}

(* Mutant: the host is not part of the key.                                 *)
CacheKeyPath(r) ==
  <<route[r].id, hdr[r].path>>

(* cache_key_callback: Host before :authority, and the path as rewritten,   *)
(* run together without a separator.                                        *)
CacheKey(r) ==
  LET h == hdr[r]
      host == IF h.host # NoHost THEN h.host ELSE h.authority
  IN <<route[r].id, (IF host = NoHost THEN <<>> ELSE host) \o h.path>>

(* cache_hit_filter forces a miss.                                          *)
Purged(o, id) ==
  o.created <= purgeAt[id]

(* request_cache_filter, the lookup, and response_filter on a fresh hit.    *)
Lookup(r) ==
  /\ pc[r] = "filter" /\ pos[r] > Len(Middlewares(r))
  /\ LET o == IF HasCache(r) /\ CacheKey(r) \in DOMAIN cache THEN cache[CacheKey(r)] ELSE NoObj
         usable == o # NoObj /\ ~Purged(o, route[r].id)
     IN /\ asOf' = [asOf EXCEPT ![r] = IF HasCache(r) THEN stored[route[r].id] ELSE 0]
        /\ \/ /\ usable /\ now < o.until
              /\ \/ Ends(r, 200) /\ served' = [served EXCEPT ![r] = o]
                 \/ MayFail(r, ResponseHooks) /\ FailToProxy(r, 502)
                      /\ UNCHANGED served
              /\ UNCHANGED stale
           \/ /\ usable /\ now >= o.until
              /\ stale' = [stale EXCEPT ![r] = o] /\ Goes(r, "peer") /\ UNCHANGED served
           \/ ~usable /\ Goes(r, "peer") /\ UNCHANGED <<stale, served>>
  /\ UNCHANGED <<config, now, session, upstream, pending, observed, cache, purges>>

RouteIds ==
  {rt.id : rt \in UNION {{s.table[h] : h \in DOMAIN s.table} : s \in Setup} \ {NoRoute}}

(* Ids of the routes that cache: only there a purge, or time, matters.      *)
Namespaces ==
  {table[h].id : h \in {g \in DOMAIN table : \E i \in DOMAIN MiddlewaresOf(table[g]) :
                                               MiddlewaresOf(table[g])[i].kind = "cache"}}

(* Mutant: purges do not wait for each other.                               *)
PurgeBeginUnlocked(id) ==
  /\ purging[id] = NoRoute /\ begun[id] < MaxPurges /\ id \in Namespaces
  /\ purging' = [purging EXCEPT ![id] = [purgeAt EXCEPT ![id] = now]]
  /\ begun' = [begun EXCEPT ![id] = @ + 1]
  /\ UNCHANGED <<config, now, pc, session, upstream, status, objects, observed, cache, purgeAt,
                 stored>>

(* purge_route_namespace takes the write lock and puts the time it reads    *)
(* into a copy of the map of all routes, ...                                *)
PurgeBegin(id) ==
  /\ \A other \in RouteIds : purging[other] = NoRoute
  /\ begun[id] < MaxPurges /\ id \in Namespaces
  /\ purging' = [purging EXCEPT ![id] = [purgeAt EXCEPT ![id] = now]]
  /\ begun' = [begun EXCEPT ![id] = @ + 1]
  /\ UNCHANGED <<config, now, pc, session, upstream, status, objects, observed, cache, purgeAt,
                 stored>>

(* ... and stores the copy.                                                 *)
PurgeStore(id) ==
  /\ purging[id] # NoRoute
  /\ purgeAt' = purging[id]
  /\ stored' = [stored EXCEPT ![id] = @ + 1] /\ purging' = [purging EXCEPT ![id] = NoRoute]
  /\ UNCHANGED <<config, now, pc, session, upstream, status, objects, observed, cache, begun>>

-----------------------------------------------------------------------------
(* Attempts to reach an upstream.                                           *)

(* An upstream failed for good: a stale object may be served instead        *)
(* (should_serve_stale), else the error is answered.                        *)
UpstreamFails(r) ==
  \/ stale[r] # NoObj /\ Ends(r, 200) /\ served' = [served EXCEPT ![r] = stale[r]]
  \/ FailToProxy(r, 502) /\ UNCHANGED served

Retries(r) ==
  IF tries'[r] < MaxTries THEN Goes(r, "peer") /\ UNCHANGED served ELSE UpstreamFails(r)

(* Mutant: the header of the session itself is changed for the upstream.    *)
AttemptInPlace(r) ==
  /\ pc[r] = "peer" /\ route[r] # NoRoute
  /\ tries' = [tries EXCEPT ![r] = IF @ < MaxTries THEN @ + 1 ELSE @]
  /\ Goes(r, "wait") /\ hdr' = [hdr EXCEPT ![r] = RequestHeaders(r)]
  /\ forwarded' = [forwarded EXCEPT ![r] = @ \cup {hdr'[r]}]
  /\ UNCHANGED <<config, now, req, route, pos, objects, observed, cache, purges>>

(* upstream_peer, connected_to_upstream and upstream_request_filter, which  *)
(* works on a copy of the session's header. A failed connect is retried     *)
(* only where a health check asks for it.                                   *)
Attempt(r) ==
  /\ pc[r] = "peer" /\ route[r] # NoRoute
  /\ tries' = [tries EXCEPT ![r] = IF @ < MaxTries THEN @ + 1 ELSE @]
  /\ \/ /\ Goes(r, "wait") /\ UNCHANGED served
        /\ forwarded' = [forwarded EXCEPT ![r] = @ \cup {RequestHeaders(r)}]
     \/ /\ ValueMayFail(r) /\ FailToProxy(r, 502) /\ UNCHANGED <<served, forwarded>>
     \/ /\ MayFail(r, {"health_check"}) /\ Retries(r) /\ UNCHANGED forwarded
     \/ /\ UpstreamFails(r) /\ UNCHANGED forwarded
  /\ UNCHANGED <<config, now, session, stale, pending, asOf, observed, cache, purges>>

(* Without a route there is no peer: 404.                                   *)
NoPeer(r) ==
  /\ pc[r] = "peer" /\ route[r] = NoRoute /\ FailToProxy(r, 404)
  /\ UNCHANGED <<config, now, session, upstream, objects, observed, cache, purges>>

(* error_while_proxy: a pooled connection was dead, or the upstream broke.  *)
Broken(r) ==
  /\ pc[r] = "wait"
  /\ UNCHANGED upstream
  /\ Retries(r) \/ UpstreamFails(r)
  /\ UNCHANGED <<config, now, session, stale, pending, asOf, observed, cache, purges>>

FreshUntil(ttl) ==
  now + IF ttl <= MaxTtl THEN ttl ELSE MaxTtl

(* upstream_response_filter, response_cache_filter, which may decline, and  *)
(* response_filter, on the header of a response.                            *)
UpstreamResponse(r) ==
  /\ pc[r] = "wait"
  /\ \/ /\ Goes(r, "body")
        /\ \/ /\ HasCache(r)
              /\ \E ttl \in 1..MaxTtl + 1 :
                   pending' = [pending EXCEPT ![r] =
                     [created |-> now, until |-> FreshUntil(ttl),
                      begun |-> begun[route[r].id], host |-> RoutingHost(req[r])]]
           \/ UNCHANGED pending
     \/ /\ MayFail(r, ResponseHooks) /\ FailToProxy(r, 502)
        /\ UNCHANGED pending
  /\ UNCHANGED <<config, now, session, upstream, stale, served, asOf, observed, cache, purges>>

(* A stale object is revalidated: a 304 confirms its content as of now, and *)
(* response_cache_filter dates it anew, or declines.                        *)
Revalidated(r) ==
  /\ pc[r] = "wait" /\ stale[r] # NoObj
  /\ \E ttl \in 1..MaxTtl + 1 :
       LET o == [stale[r] EXCEPT !.created = now, !.until = FreshUntil(ttl),
                                 !.begun = begun[route[r].id]]
       IN /\ \/ Ends(r, 200) /\ served' = [served EXCEPT ![r] = o]
             \/ MayFail(r, ResponseHooks) /\ FailToProxy(r, 502)
                  /\ UNCHANGED served
          /\ \/ cache' = [k \in DOMAIN cache |-> IF k = CacheKey(r) THEN o ELSE cache[k]]
             \/ UNCHANGED cache
  /\ UNCHANGED <<config, now, session, upstream, stale, pending, asOf, observed, purges>>

(* The body has been passed on: what was being cached becomes an object. If *)
(* it breaks off, it does not, and the response stays as far as it came.    *)
BodyEnds(r) ==
  /\ pc[r] = "body" /\ Ends(r, 200)
  /\ \/ /\ pending[r] # NoObj
        /\ cache' = [k \in DOMAIN cache \cup {CacheKey(r)} |->
                       IF k = CacheKey(r) THEN pending[r] ELSE cache[k]]
     \/ UNCHANGED cache
  /\ pending' = [pending EXCEPT ![r] = NoObj]
  /\ UNCHANGED <<config, now, session, upstream, stale, served, asOf, observed, purges>>

-----------------------------------------------------------------------------
Tick ==
  /\ now < MaxTime /\ Namespaces # {} /\ now' = now + 1
  /\ UNCHANGED <<config, pc, session, upstream, status, objects, observed, cache, purges>>

(* The rate estimator starts a new window.                                  *)
NewWindow ==
  /\ observed > 0 /\ observed' = 0
  /\ UNCHANGED <<config, now, pc, session, upstream, status, objects, cache, purges>>

Init ==
  /\ \E s \in Setup : policy = s.policy /\ table = s.table
  /\ now = 0
  /\ pc = [r \in Req |-> "idle"] /\ status = [r \in Req |-> 0]
  /\ req = [r \in Req |-> NoReq] /\ route = [r \in Req |-> NoRoute]
  /\ hdr = [r \in Req |-> NoReq] /\ pos = [r \in Req |-> 0]
  /\ tries = [r \in Req |-> 0] /\ forwarded = [r \in Req |-> {}]
  /\ stale = [r \in Req |-> NoObj] /\ pending = [r \in Req |-> NoObj]
  /\ served = [r \in Req |-> NoObj] /\ asOf = [r \in Req |-> 0]
  /\ observed = 0 /\ cache = <<>>
  /\ purgeAt = [id \in RouteIds |-> -1] /\ purging = [id \in RouteIds |-> NoRoute]
  /\ begun = [id \in RouteIds |-> 0] /\ stored = [id \in RouteIds |-> 0]

Step(r) ==
  \/ SniHostReject(r) \/ FilterStep(r) \/ Lookup(r) \/ Attempt(r) \/ NoPeer(r)
  \/ Broken(r) \/ UpstreamResponse(r) \/ Revalidated(r) \/ BodyEnds(r)

Next ==
  \/ \E r \in Req : Step(r) \/ \E q \in Request : EarlyRequestFilter(r, q)
  \/ \E id \in RouteIds : PurgeBegin(id) \/ PurgeStore(id)
  \/ NewWindow \/ Tick

Spec == Init /\ [][Next]_vars

-----------------------------------------------------------------------------
(* Type invariant of the requests, the limiter and the purge map.           *)
TypeOK ==
  /\ pc \in [Req -> {"idle", "policy", "filter", "peer", "wait", "body", "done"}]
  /\ \A r \in Req : pc[r] = "done" <=> status[r] \in {200, 400, 401, 404, 421, 502}
  /\ tries \in [Req -> 0..MaxTries] /\ now \in 0..MaxTime
  /\ observed \in Nat
  /\ purgeAt \in [RouteIds -> -1..now]
  /\ \A id \in RouteIds : begun[id] - stored[id] \in {0, 1}

Reached(r) == forwarded[r] # {} \/ served[r] # NoObj

(* Whatever else a route's middlewares rewrite, and whether an upstream or  *)
(* the cache answers, a request gets past request_filter only if the SNI    *)
(* policy accepts it and every gate whose rule holds for the request as it  *)
(* was received accepts it.                                                 *)
GatesHold ==
  \A r \in Req : Reached(r) =>
    /\ PolicyReject(req[r]) = 0
    /\ Applying(r, "basic_auth") # {} => req[r].cred = "basic"
    /\ Applying(r, "jwt") # {} => req[r].cred = "token"
    /\ Applying(r, "respond") = {}
    /\ HttpAuthority(req[r]) # NoHost =>
         /\ Applying(r, "redirect_https") # {} => RequestScheme(req[r]) = "https"
         /\ Applying(r, "redirect_http") # {} => RequestScheme(req[r]) = "http"

(* The Host an HTTP/1.1 hop shows to the upstream, and the :authority an    *)
(* HTTP/2 hop shows.                                                        *)
ShownHost(h) == IF h.host # NoHost THEN h.host ELSE h.authority
ShownAuthority(h) == IF h.authority # NoHost THEN h.authority ELSE h.host

(* "an upstream doing vhost routing can never see a mismatched value": with *)
(* strict_rewrite_header and an SNI, every hop shows the SNI, whatever Host *)
(* and :authority the client sent and request_headers made of them; without *)
(* an SNI, and with strict, it shows the host the request was routed by,    *)
(* unless request_headers changes Host. (An SNI that is no host name is not *)
(* written into the header, or the URI, that cannot hold it.)               *)
UpstreamSeesRoutedHost ==
  policy \in {"strict", "strict_rewrite_header"} =>
    \A r \in Req : \A h \in forwarded[r] :
      IF policy = "strict_rewrite_header" /\ req[r].sni # NoHost
        THEN /\ req[r].sni \in HeaderValue => ShownHost(h) = req[r].sni
             /\ req[r].sni \in UriAuthority => ShownAuthority(h) = req[r].sni
        ELSE (\A kind \in HostActions : Applying(r, kind) = {}) =>
               ShownHost(h) = RoutingHost(req[r]) /\ ShownAuthority(h) = RoutingHost(req[r])

(* However often a request is tried again, every upstream gets the same     *)
(* header: rewritten once, with each value appended once.                   *)
AttemptsAlike == \A r \in Req : Cardinality(forwarded[r]) <= 1

(* "A purge marks existing objects in that route namespace stale for future *)
(* lookups": an object served to a request whose lookup came after a purge  *)
(* returned was created after that purge had read its time; also when the   *)
(* object was being written during the purge, or is served stale later.     *)
PurgeHolds == \A r \in Req : served[r] # NoObj => served[r].begun >= asOf[r]

(* Under the strict policy, an object is only served to requests routed by  *)
(* the host it was fetched for, although the key prefers Host and routing   *)
(* prefers :authority: requests whose two names differ are refused. This    *)
(* holds between host names, which are one part: the key does not separate  *)
(* a Host that goes on with "/..." from the path.                           *)
CachedIsOwn ==
  policy = "strict" =>
    \A r \in Req : served[r] # NoObj =>
      LET hosts == {served[r].host, RoutingHost(req[r])} \ {NoHost}
      IN (\A h \in hosts : Len(h) = 1) => served[r].host = RoutingHost(req[r])
=============================================================================
