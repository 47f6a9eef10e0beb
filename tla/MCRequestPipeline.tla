------------------------- MODULE MCRequestPipeline -------------------------
(***************************************************************************)
(* Instances of RequestPipeline for TLC: two host names and two texts that *)
(* are none, the ways a request can name them, and tables that cover every *)
(* kind of middleware.                                                     *)
(***************************************************************************)
EXTENDS RequestPipeline, TLC

a == <<"a">>
b == <<"b">>
slashed == <<"a", "/x">>   \* fits a header, not a URI
foreign == <<"~">>         \* fits neither

MCHeaderValue == {a, b, slashed}
MCUriAuthority == {a, b}

M(kind) == [kind |-> kind, rule |-> "any"]
On(kind, method) == [kind |-> kind, rule |-> method]
Limiter(limit) == [kind |-> "rate_limit", rule |-> "any", limit |-> limit]
R(name, ms) == [id |-> name, own |-> b, middlewares |-> ms]

Ask(sni, authority, host, scheme, method, cred) ==
  [sni |-> sni, authority |-> authority, host |-> host, scheme |-> scheme, method |-> method,
   cred |-> cred, https |-> sni # NoHost,
   path |-> IF host = slashed THEN <<"/y">> ELSE <<"/x", "/y">>]

(* HTTP/1.1 and HTTP/2 requests with and without SNI, with names and        *)
(* schemes that agree and that do not.                                      *)
MCRequest ==
  {Ask(NoHost, NoHost, a, "none", "GET", "basic"), Ask(a, a, NoHost, "https", "GET", "token"),
   Ask(a, NoHost, b, "none", "GET", "basic"), Ask(b, a, NoHost, "https", "OPTIONS", "none"),
   Ask(NoHost, a, b, "http", "GET", "token"), Ask(NoHost, b, b, "https", "GET", "none"),
   Ask(NoHost, NoHost, slashed, "none", "GET", "none"),
   Ask(slashed, a, NoHost, "https", "GET", "none"), Ask(foreign, NoHost, b, "none", "GET", "none")}

Gates ==
  R("x", <<M("rewrite_method"), On("basic_auth", "GET"), M("cors"), M("append_header"),
           M("health_check")>>)
Cached == R("x", <<M("cache"), M("set_host"), M("response_headers")>>)
Store(id) == R(id, <<M("cache")>>)
Answers ==
  R("y", <<On("redirect", "GET"), M("redirect_https"), M("interceptor"),
           On("respond", "OPTIONS"), M("remove_host")>>)
Altered ==
  R("y", <<M("jwt_passthrough"), M("rewrite"), M("set_variable"), M("cache"),
           On("cache", "OPTIONS"), M("health_check"), M("set_default_host")>>)
Tokens == R("y", <<M("jwt"), M("redirect_http"), Limiter(2), Limiter(1), M("append_header")>>)

To(f, g) ==
  [h \in {a, b, slashed, foreign, NoHost} |->
     IF h \in {a, slashed} THEN f ELSE IF h \in {b, foreign} THEN g ELSE NoRoute]

(* Requests are interchangeable; their contents are chosen in the run.      *)
Perms == Permutations(Req)

With(policies, t) == {[policy |-> p, table |-> t] : p \in policies}

MCSetup ==
  With({"loose_by_sni", "loose_by_header", "strict", "strict_rewrite_header"}, To(Gates, Answers))
  \cup With({"strict", "strict_rewrite_header"}, To(Cached, Cached))
  \cup With({"strict"}, To(Store("x"), Store("y")))
  \cup With({"loose_by_sni"}, To(Tokens, Altered))
  \cup With({"loose_by_sni"}, To(Gates, NoRoute))
=============================================================================
