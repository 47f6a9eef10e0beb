----------------------------- MODULE TlsRouting -----------------------------
(***************************************************************************)
(* A TLS connection from its handshake to its requests: the certificate    *)
(* store answers the handshake (src/server/tls_callbacks.rs), the name the *)
(* client sent and the SNI policy give the host its requests are routed by *)
(* (CelHttpSession::host, sni_host_policy_reject), and the route table     *)
(* routes them. JavaScript changes routes and certificates meanwhile.      *)
(* Classes of requests are hosts.                                          *)
(***************************************************************************)
EXTENDS CertStore, RouteTable

CONSTANTS
  Policy,     \* SNI policies a server may be started with
  NoSni       \* a client that sends no server name

ASSUME TlsAssumption ==
  /\ Class \subseteq Seq(DOMAIN Lower) /\ NoSni \notin Class
  /\ Policy \subseteq {"loose_by_header", "loose_by_sni", "strict", "strict_rewrite_header"}

VARIABLES
  policy,     \* StartupConfig.sni_host_policy
  static,     \* whether the listener has a certPath
  up,         \* whether the listener is started
  cleared,    \* history: the default was removed under a listener without certPath
  hs,         \* connection -> "reading", "open" or "failed"
  read,       \* connection -> the layer its lookup reads next
  sni,        \* connection -> the server name of its ClientHello
  presented,  \* connection -> [layer, entry], what its lookup returned
  kept,       \* history: connection -> names in the store since its lookup began
  gap,        \* history: connection -> a moment since then had none for its name
  grown       \* history: connection -> an exact entry for its name appeared

server == <<policy, static, up>>
handshake == <<hs, read, sni, presented>>
history == <<kept, gap, grown>>
tlsVars == <<vars, store, server, cleared, handshake, history>>

(* No certificate from the store: the acceptor's static one is used.        *)
Static == [layer |-> "static", entry |-> NoEntry]

InStore == {p \in CertHost : EntryOf(p) # NoEntry}

(* The names a certificate for a server name can stand under, as rules      *)
(* match them but for the case of letters.                                  *)
Matching(name) == {p \in CertHost \ {Star} : HostMatches(ToLowercase(name), ToLowercase(p))}
ExactFor(name) == {p \in Matching(name) : ~IsWildcard(p)}

(* hostname_eq.                                                             *)
HostnameEq(a, b) == TrimDots(ToLowercase(a)) = TrimDots(ToLowercase(b))

(* Mutant: "strict" refuses nothing.                                        *)
PolicyRejectNothing(name, authority) == FALSE

(* sni_host_policy_reject, for requests with one authority.                 *)
PolicyReject(name, authority) ==
  policy = "strict" /\ name # NoSni /\ ~HostnameEq(name, authority)

(* CelHttpSession::host.                                                    *)
SessionHost(name, authority) ==
  IF policy \in {"loose_by_sni", "strict_rewrite_header"} /\ name # NoSni
    THEN name ELSE authority

(* The hosts by which the requests of a connection can be routed without    *)
(* being refused.                                                           *)
RoutingHost(name) == {SessionHost(name, a) : a \in {b \in Class : ~PolicyReject(name, b)}}

-----------------------------------------------------------------------------
TlsInit ==
  /\ StoreInit /\ Init
  /\ policy \in Policy /\ static \in BOOLEAN /\ up = FALSE /\ cleared = FALSE
  /\ sni \in [Req -> Class \cup {NoSni}]
  /\ \A r \in Req : class[r] \in RoutingHost(sni[r])
  /\ hs = [r \in Req |-> "reading"] /\ read = [r \in Req |-> 1]
  /\ presented = [r \in Req |-> Static]
  /\ kept = [r \in Req |-> {}]
  /\ gap = [r \in Req |-> FALSE] /\ grown = [r \in Req |-> FALSE]

(* start: without certPath there has to be a default.                       *)
Start ==
  /\ ~up /\ (static \/ HasDefault)
  /\ up' = TRUE
  /\ UNCHANGED <<vars, store, policy, static, cleared, handshake, history>>

(* What a change of the store is to the lookups under way.                  *)
Observe ==
  LET now == {p \in CertHost : EntryOf(p)' # NoEntry}
      under == {r \in Req : hs[r] = "reading" /\ read[r] > 1}
  IN /\ kept' = [r \in Req |-> IF r \in under THEN kept[r] \cap now ELSE kept[r]]
     /\ gap' = [r \in Req |-> gap[r] \/ (r \in under /\ Matching(sni[r]) \cap now = {})]
     /\ grown' = [r \in Req |-> grown[r] \/
                    (r \in under /\ ExactFor(sni[r]) \cap (now \ InStore) # {})]

UpdateCert(host, cert, allow) ==
  /\ Set(host, cert, allow)
  /\ Observe
  /\ UNCHANGED <<vars, server, cleared, handshake>>

RemoveHost(host) ==
  /\ RemoveCert(host)
  /\ Observe
  /\ cleared' = (cleared \/ (host = Star /\ up /\ ~static))
  /\ UNCHANGED <<vars, server, handshake>>

(* The names there since the lookup of r began.                             *)
Since(r) == IF read[r] = 1 THEN InStore ELSE kept[r]

(* The handshake goes on with a certificate or fails for want of one. When  *)
(* set_certificate or set_private_key fails the callback returns, and what  *)
(* is left is the static certificate, or nothing where the leaf displaced   *)
(* its key.                                                                 *)
Outcome(x) ==
  IF x.layer # "static" /\ x.entry.cert.usable THEN {"open"}
  ELSE IF ~static THEN {"failed"}
  ELSE IF x.layer = "static" THEN {"open"} ELSE {"open", "failed"}

Answer(r, x) ==
  /\ presented' = [presented EXCEPT ![r] = x]
  /\ \E end \in Outcome(x) : hs' = [hs EXCEPT ![r] = end]
  /\ read' = [read EXCEPT ![r] = 1]
  /\ kept' = [kept EXCEPT ![r] = IF sni[r] = NoSni THEN {} ELSE Since(r) \ {Star}]
  /\ gap' = [gap EXCEPT ![r] = FALSE] /\ grown' = [grown EXCEPT ![r] = FALSE]

(* certificate_callback: nothing to do without a server name, ...           *)
NoServerName(r) ==
  /\ up /\ hs[r] = "reading" /\ sni[r] = NoSni
  /\ Answer(r, Static)
  /\ UNCHANGED <<vars, store, server, cleared, sni>>

(* ... otherwise lookup, one read per step.                                 *)
Lookup(r) ==
  /\ up /\ hs[r] = "reading" /\ sni[r] # NoSni
  /\ LET layer == LookupOrder[read[r]] found == Read(sni[r], layer)
     IN \/ /\ found # NoEntry
           /\ Answer(r, [layer |-> layer, entry |-> found])
        \/ /\ found = NoEntry /\ read[r] = Len(LookupOrder)
           /\ Answer(r, Static)
        \/ /\ found = NoEntry /\ read[r] < Len(LookupOrder)
           /\ read' = [read EXCEPT ![r] = @ + 1]
           /\ kept' = [kept EXCEPT ![r] = Since(r)]
           /\ gap' = [gap EXCEPT ![r] = @ \/ Matching(sni[r]) \cap InStore = {}]
           /\ UNCHANGED <<hs, presented, grown>>
  /\ UNCHANGED <<vars, store, server, cleared, sni>>

(* A client whose handshake failed tries again, on another connection.      *)
Retry(r) ==
  /\ hs[r] = "failed"
  /\ hs' = [hs EXCEPT ![r] = "reading"]
  /\ presented' = [presented EXCEPT ![r] = Static]
  /\ kept' = [kept EXCEPT ![r] = {}]
  /\ UNCHANGED <<vars, store, server, cleared, read, sni, gap, grown>>

Routing(r) ==
  /\ hs[r] = "open"
  /\ ReadSnapshot(r) \/ MatchRoute(r)
  /\ UNCHANGED <<store, server, cleared, handshake, history>>

(* Another request on the connection.                                       *)
NextRequest(r) ==
  /\ ResetForRequest(r) /\ class'[r] \in RoutingHost(sni[r])
  /\ UNCHANGED <<store, server, cleared, handshake, history>>

(* Another connection in place of this one.                                 *)
NextConnection(r) ==
  /\ ResetForRequest(r)
  /\ \E name \in Class \cup {NoSni} :
       class'[r] \in RoutingHost(name) /\ sni' = [sni EXCEPT ![r] = name]
  /\ hs' = [hs EXCEPT ![r] = "reading"]
  /\ presented' = [presented EXCEPT ![r] = Static]
  /\ kept' = [kept EXCEPT ![r] = {}]
  /\ UNCHANGED <<store, server, cleared, read, gap, grown>>

TlsNext ==
  \/ Start
  \/ \E h \in CertHost, k \in Cert, allow \in BOOLEAN : UpdateCert(h, k, allow)
  \/ \E h \in CertHost : RemoveHost(h)
  \/ \E r \in Req : \/ NoServerName(r) \/ Lookup(r) \/ Retry(r) \/ Routing(r)
                    \/ NextRequest(r) \/ NextConnection(r)
  \/ /\ \/ \E c \in Config : AddOrUpdate(c)
        \/ \E id \in Id : Remove(id)
     /\ UNCHANGED <<store, server, cleared, handshake, history>>

TlsSpec == TlsInit /\ [][TlsNext]_tlsVars

-----------------------------------------------------------------------------
(* Certificates change while lookup reads one layer after the other, and    *)
(* still: an entry that is there throughout is not passed over for a less   *)
(* specific layer; a name that moves from its exact entry to a wildcard,    *)
(* covered at every moment, does not fall through to the default (lookup    *)
(* reads the exact names first; a move the other way can); and a handshake  *)
(* that names a server fails only for an entry whose leaf and key OpenSSL   *)
(* refuses together or, on a listener that start accepted without certPath, *)
(* after the default was removed.                                           *)
LookupForCause ==
  [][\A r \in Req : hs[r] = "reading" /\ hs'[r] # "reading" /\ sni[r] # NoSni =>
       LET since == Since(r) layer == presented'[r].layer
       IN /\ ExactFor(sni[r]) \cap since # {} => layer = "exact"
          /\ \/ Matching(sni[r]) \cap since # {}
             \/ read[r] > 1 /\ ~gap[r] /\ ~grown[r]
             => layer \in {"exact", "wildcard"}
          /\ Star \in since => layer # "static"
          /\ hs'[r] = "failed" =>
               IF layer = "static" THEN ~static /\ cleared
                                   ELSE ~presented'[r].entry.cert.usable]_tlsVars

(* Names that only a final dot tells apart: "strict" takes them for one     *)
(* host, the certificate store and the rules do not.                        *)
DotApart(a, b) == HostnameEq(a, b) /\ ToLowercase(a) # ToLowercase(b)

(* "a `*.example.com` rule lines up with a `*.example.com` certificate":    *)
(* when a route gets a request for a pattern of its rule, on a connection   *)
(* whose handshake had that pattern's certificate in the store, then the    *)
(* lookup of that handshake returned an entry for the name and no fallback, *)
(* and its certificate covers the name unless the check of names was        *)
(* waived. This is what provisioning the hosts that analyze_rule reports    *)
(* relies on. Routing by header gives it up, and so does a final dot that   *)
(* is in one of server name and Host only, which "strict" lets pass.        *)
RoutedIsCovered ==
  \A r \in Req : \A rule \in Rule :
    /\ phase[r] = "routed" /\ current[r] # NoRoute /\ sni[r] # NoSni
    /\ policy # "loose_by_header" /\ ~DotApart(sni[r], class[r])
    /\ rule.classes = current[r].classes
    /\ \E p \in rule.hosts : p \in kept[r] /\ HostMatches(class[r], p)
    => /\ presented[r].layer \in {"exact", "wildcard"}
       /\ \/ presented[r].entry.waived
          \/ \E n \in presented[r].entry.cert.names : HostMatches(ToLowercase(sni[r]), ToLowercase(n))
=============================================================================
