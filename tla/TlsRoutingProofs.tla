-------------------------- MODULE TlsRoutingProofs --------------------------
(***************************************************************************)
(* Every step of TlsRouting keeps the invariant of TlsRoutingInv, and what *)
(* follows for the answers of lookups and for routed requests.             *)
(***************************************************************************)
EXTENDS TlsRoutingInv

(* A handshake without a server name keeps the invariant.                   *)
LEMMA NoServerNameKeeps ==
  ASSUME IInv, NEW r \in Req, NoServerName(r)
  PROVE  IInv'
<1>1. Static \in [layer : Layers, entry : Entries \cup {NoEntry}]
  BY DEF Static, Layers
<1> QED BY <1>1, AnswerKeeps DEF NoServerName

(* Each read of a lookup keeps the invariant.                               *)
LEMMA LookupKeeps ==
  ASSUME IInv, NEW r \in Req, Lookup(r)
  PROVE  IInv'
<1> DEFINE layer == LookupOrder[read[r]]
           found == Read(sni[r], layer)
           x == [layer |-> layer, entry |-> found]
<1>1. /\ hs[r] = "reading" /\ sni[r] # NoSni
      /\ UNCHANGED <<vars, store, server, cleared, sni>>
  BY DEF Lookup
<1>2. Len(LookupOrder) = 3 /\ read[r] \in 1..3
  BY DEF LookupOrder, IInv, HandshakeType
<1>3. /\ found # NoEntry => x \in [layer : Layers, entry : Entries \cup {NoEntry}] /\ Justified(r, x)
      /\ found = NoEntry /\ read[r] = 3 => Justified(r, Static)
  BY <1>1, LookupJustified
<1>4. CASE found # NoEntry /\ Answer(r, x)
  BY <1>1, <1>3, <1>4, AnswerKeeps
<1>5. CASE found = NoEntry /\ read[r] = 3 /\ Answer(r, Static)
  <2>1. Static \in [layer : Layers, entry : Entries \cup {NoEntry}]
    BY DEF Static, Layers
  <2> QED BY <1>1, <1>3, <1>5, <2>1, AnswerKeeps
<1>6. CASE /\ found = NoEntry /\ read[r] < Len(LookupOrder)
           /\ read' = [read EXCEPT ![r] = @ + 1]
           /\ kept' = [kept EXCEPT ![r] = Since(r)]
           /\ gap' = [gap EXCEPT ![r] = @ \/ Matching(sni[r]) \cap InStore = {}]
           /\ UNCHANGED <<hs, presented, grown>>
  <2>1. ReadOn(r)
    BY <1>1, <1>6, Zenon DEF ReadOn
  <2> QED BY <2>1, ReadOnKeeps
<1> QED BY <1>2, <1>4, <1>5, <1>6 DEF Lookup

(* Steps that leave the store and the lookups alone.                        *)
LEMMA RestKeeps ==
  ASSUME IInv, UNCHANGED <<store, read, sni, presented, history>>,
         UNCHANGED <<policy, static, cleared>>,
         up' = up, hs' \in [Req -> {"reading", "open", "failed"}],
         \A r \in Req : (hs[r] = "reading" => hs'[r] = "reading") /\ (hs'[r] = "open" => hs[r] = "open")
  PROVE  HandshakeType' /\ LookupInv' /\ DefaultInv' /\ StoreInv' /\ PresentedInv'
<1>1. UNCHANGED <<default, exact, wildcard, kept, gap, grown>> /\ InStore' = InStore
  BY StoreFrame DEF store, history
<1>2. \A n : ExactFor(n)' = ExactFor(n) /\ Matching(n)' = Matching(n)
  BY DEF ExactFor, Matching
<1>3. HandshakeType'
  BY <1>1 DEF IInv, HandshakeType
<1>4. LookupInv'
  BY <1>1, <1>2 DEF IInv, LookupInv
<1>5. DefaultInv' /\ StoreInv'
  BY <1>1 DEF IInv, DefaultInv, StoreInv, FitsExact, FitsWildcard
<1>6. PresentedInv'
  BY <1>1, <1>2 DEF IInv, PresentedInv, FitsExact, FitsWildcard
<1> QED BY <1>3, <1>4, <1>5, <1>6

(* A handshake tried again keeps the invariant.                             *)
LEMMA RetryKeeps ==
  ASSUME IInv, NEW r \in Req, Retry(r)
  PROVE  IInv'
<1>1. /\ hs[r] = "failed" /\ hs' = [hs EXCEPT ![r] = "reading"]
      /\ presented' = [presented EXCEPT ![r] = Static] /\ kept' = [kept EXCEPT ![r] = {}]
      /\ UNCHANGED <<default, exact, wildcard, policy, static, up, cleared, read, sni, gap, grown>>
      /\ UNCHANGED <<class, phase, sni, policy>> /\ InStore' = InStore
  BY StoreFrame DEF Retry, vars, server, store
<1>2. \A n : ExactFor(n)' = ExactFor(n) /\ Matching(n)' = Matching(n)
  BY DEF ExactFor, Matching
<1>3. HandshakeType'
  <2>1. Static \in [layer : Layers, entry : Entries \cup {NoEntry}]
    BY DEF Static, Layers
  <2>2. presented' \in [Req -> [layer : Layers, entry : Entries \cup {NoEntry}]]
    BY <1>1, <2>1 DEF IInv, HandshakeType
  <2>3. hs' \in [Req -> {"reading", "open", "failed"}] /\ kept' \in [Req -> SUBSET CertHost]
    BY <1>1 DEF IInv, HandshakeType
  <2>4. \A q \in Req : hs'[q] # "reading" \/ sni'[q] = NoSni => read'[q] = 1
    BY <1>1 DEF IInv, HandshakeType
  <2> QED BY <1>1, <2>2, <2>3, <2>4 DEF IInv, HandshakeType
<1>4. /\ read[r] = 1 /\ hs'[r] = "reading"
      /\ \A q \in Req \ {r} : hs'[q] = hs[q] /\ presented'[q] = presented[q] /\ kept'[q] = kept[q]
  BY <1>1 DEF IInv, HandshakeType
<1>5. LookupInv'
  BY <1>1, <1>2, <1>4 DEF IInv, LookupInv
<1>6. DefaultInv' /\ StoreInv'
  BY <1>1 DEF IInv, DefaultInv, StoreInv, FitsExact, FitsWildcard
<1>7. PresentedInv'
  <2> SUFFICES ASSUME NEW q \in Req, hs'[q] = "open", sni[q] # NoSni
               PROVE  LET x == presented'[q]
                      IN /\ Star \notin kept'[q]
                         /\ ExactFor(sni[q]) \cap kept'[q] # {} => x.layer = "exact"
                         /\ Matching(sni[q]) \cap kept'[q] # {} => x.layer \in {"exact", "wildcard"}
                         /\ x.layer = "exact" => FitsExact(x.entry, ToLowercase(sni[q]))
                         /\ x.layer = "wildcard"
                              => FitsWildcard(x.entry, Tail(ToLowercase(sni[q])))
    BY <1>1, <1>2 DEF PresentedInv, FitsExact, FitsWildcard
  <2>1. q # r
    BY <1>4
  <2> QED BY <1>4, <2>1 DEF IInv, PresentedInv
<1>8. HostInv'
  <2>1. \A q \in Req : hs[q] = "open" => hs'[q] = "open"
    BY <1>1 DEF IInv, HandshakeType
  <2> QED BY <1>1, <2>1, HostFrame DEF IInv
<1> QED BY <1>3, <1>5, <1>6, <1>7, <1>8 DEF IInv

(* start keeps the invariant: it demands a default or a certPath.           *)
LEMMA StartKeeps ==
  ASSUME IInv, Start
  PROVE  IInv'
<1>1. /\ UNCHANGED <<default, exact, wildcard, hs, read, sni, presented, kept, gap, grown>>
      /\ UNCHANGED <<policy, static, cleared>> /\ up' = TRUE
      /\ UNCHANGED <<class, phase, sni, policy>> /\ (static \/ default # NoEntry)
      /\ InStore' = InStore
  BY StoreFrame DEF Start, vars, store, handshake, history, HasDefault
<1>2. \A n : ExactFor(n)' = ExactFor(n) /\ Matching(n)' = Matching(n)
  BY DEF ExactFor, Matching
<1>3. HandshakeType'
  BY <1>1 DEF IInv, HandshakeType
<1>4. LookupInv'
  BY <1>1, <1>2 DEF IInv, LookupInv
<1>5. DefaultInv' /\ StoreInv'
  BY <1>1 DEF IInv, DefaultInv, StoreInv, FitsExact, FitsWildcard
<1>6. PresentedInv'
  BY <1>1, <1>2 DEF IInv, PresentedInv, FitsExact, FitsWildcard
<1>7. HostInv'
  BY <1>1, HostFrame DEF IInv
<1> QED BY <1>3, <1>4, <1>5, <1>6, <1>7 DEF IInv

(* Steps of the requests and of the route table.                            *)
LEMMA RequestKeeps ==
  ASSUME IInv, UNCHANGED <<store, server, cleared, handshake, history>>,
         \/ UNCHANGED vars
         \/ \E c \in Config : AddOrUpdate(c)
         \/ \E id \in Id : Remove(id)
         \/ \E r \in Req : \/ hs[r] = "open" /\ (ReadSnapshot(r) \/ MatchRoute(r))
                           \/ ResetForRequest(r) /\ class'[r] \in RoutingHost(sni[r])
  PROVE  IInv'
<1>1. /\ UNCHANGED <<store, read, sni, presented, history>>
      /\ UNCHANGED <<policy, static, cleared>> /\ up' = up /\ hs' = hs /\ sni' = sni /\ policy' = policy
  BY DEF server, handshake
<1>2. HandshakeType' /\ LookupInv' /\ DefaultInv' /\ StoreInv' /\ PresentedInv'
  <2>1. hs' \in [Req -> {"reading", "open", "failed"}]
    BY <1>1 DEF IInv, HandshakeType
  <2> QED BY <1>1, <2>1, RestKeeps
<1>3. CASE \/ UNCHANGED vars
           \/ \E c \in Config : AddOrUpdate(c)
           \/ \E id \in Id : Remove(id)
  <2>1. UNCHANGED <<class, phase>>
    BY <1>3, Zenon DEF vars, AddOrUpdate, Remove
  <2>2. HostInv'
    BY <1>1, <2>1, HostFrame DEF IInv
  <2> QED BY <1>2, <2>2 DEF IInv
<1>4. ASSUME NEW r \in Req,
             \/ hs[r] = "open" /\ (ReadSnapshot(r) \/ MatchRoute(r))
             \/ ResetForRequest(r) /\ class'[r] \in RoutingHost(sni[r])
      PROVE  IInv'
  <2>1. \A n : RoutingHost(n)' = RoutingHost(n)
    BY <1>1 DEF RoutingHost, SessionHost, PolicyReject
  <2>2. class' \in [Req -> Class] /\ phase' \in [Req -> {"new", "matching", "routed"}]
    BY <1>4, SMTT(30) DEF ReadSnapshot, MatchRoute, ResetForRequest, IInv, HostInv
  <2>3. \A q \in Req : class'[q] \in RoutingHost(sni[q]) /\ (phase'[q] # "new" => hs[q] = "open")
    BY <1>4 DEF ReadSnapshot, MatchRoute, ResetForRequest, IInv, HostInv
  <2>4. HostInv'
    BY <1>1, <2>1, <2>2, <2>3 DEF HostInv
  <2> QED BY <1>2, <2>4 DEF IInv
<1> QED BY <1>3, <1>4

(* A new connection keeps the invariant.                                    *)
LEMMA NextConnectionKeeps ==
  ASSUME IInv, NEW r \in Req, NextConnection(r)
  PROVE  IInv'
<1>1. PICK name \in Class \cup {NoSni} :
        class'[r] \in RoutingHost(name) /\ sni' = [sni EXCEPT ![r] = name]
  BY Zenon DEF NextConnection
<1>2. /\ UNCHANGED <<default, exact, wildcard, policy, static, up, cleared, read, gap, grown>>
      /\ InStore' = InStore
  BY StoreFrame DEF NextConnection, store, server
<1>3. \A n : /\ ExactFor(n)' = ExactFor(n) /\ Matching(n)' = Matching(n)
            /\ RoutingHost(n)' = RoutingHost(n)
  BY <1>2 DEF ExactFor, Matching, RoutingHost, SessionHost, PolicyReject
<1>4. /\ phase[r] = "routed" /\ phase' = [phase EXCEPT ![r] = "new"]
      /\ \E c \in Class : class' = [class EXCEPT ![r] = c]
  BY Zenon DEF NextConnection, ResetForRequest
<1>5. hs[r] = "open" /\ read[r] = 1
  BY <1>4 DEF IInv, HostInv, HandshakeType
<1>6. HandshakeType'
  <2>1. Static \in [layer : Layers, entry : Entries \cup {NoEntry}]
    BY DEF Static, Layers
  <2>2. presented' \in [Req -> [layer : Layers, entry : Entries \cup {NoEntry}]]
    BY <2>1 DEF NextConnection, IInv, HandshakeType
  <2>3. /\ hs' \in [Req -> {"reading", "open", "failed"}] /\ sni' \in [Req -> Class \cup {NoSni}]
        /\ kept' \in [Req -> SUBSET CertHost]
        /\ \A q \in Req : hs'[q] # "reading" \/ sni'[q] = NoSni => read'[q] = 1
    BY <1>1, <1>2, <1>5 DEF NextConnection, IInv, HandshakeType
  <2> QED BY <1>2, <2>2, <2>3 DEF IInv, HandshakeType
<1>7. \A q \in Req \ {r} : /\ hs'[q] = hs[q] /\ sni'[q] = sni[q] /\ presented'[q] = presented[q]
                          /\ kept'[q] = kept[q] /\ class'[q] = class[q] /\ phase'[q] = phase[q]
  BY <1>1, <1>4 DEF NextConnection, IInv, HandshakeType, HostInv
<1>8. hs'[r] = "reading" /\ sni'[r] = name /\ phase'[r] = "new"
  BY <1>1, <1>4 DEF NextConnection, IInv, HandshakeType, HostInv
<1>9. LookupInv'
  BY <1>2, <1>3, <1>5, <1>7 DEF IInv, LookupInv
<1>10. DefaultInv' /\ StoreInv'
  BY <1>2 DEF IInv, DefaultInv, StoreInv, FitsExact, FitsWildcard
<1>11. PresentedInv'
  <2> SUFFICES ASSUME NEW q \in Req, hs'[q] = "open", sni'[q] # NoSni
               PROVE  LET x == presented'[q]
                      IN /\ Star \notin kept'[q]
                         /\ ExactFor(sni'[q]) \cap kept'[q] # {} => x.layer = "exact"
                         /\ Matching(sni'[q]) \cap kept'[q] # {} => x.layer \in {"exact", "wildcard"}
                         /\ x.layer = "exact" => FitsExact(x.entry, ToLowercase(sni'[q]))
                         /\ x.layer = "wildcard"
                              => FitsWildcard(x.entry, Tail(ToLowercase(sni'[q])))
    BY DEF PresentedInv, FitsExact, FitsWildcard, ExactFor, Matching
  <2>1. q # r
    BY <1>8
  <2> QED BY <1>7, <2>1 DEF IInv, PresentedInv
<1>12. HostInv'
  <2>1. class' \in [Req -> Class] /\ phase' \in [Req -> {"new", "matching", "routed"}]
    BY <1>4 DEF IInv, HostInv
  <2>2. \A q \in Req : class'[q] \in RoutingHost(sni'[q]) /\ (phase'[q] # "new" => hs'[q] = "open")
    BY <1>1, <1>7, <1>8 DEF IInv, HostInv
  <2> QED BY <1>3, <2>1, <2>2 DEF HostInv
<1> QED BY <1>6, <1>9, <1>10, <1>11, <1>12 DEF IInv

-----------------------------------------------------------------------------
(* The invariant holds at first ...                                         *)
LEMMA InitInv == TlsInit => IInv
<1> SUFFICES ASSUME TlsInit PROVE IInv
  OBVIOUS
<1>1. Static \in [layer : Layers, entry : Entries \cup {NoEntry}]
  BY DEF Static, Layers
<1>2. HandshakeType
  <2>1. presented \in [Req -> [layer : Layers, entry : Entries \cup {NoEntry}]]
    <3>1. presented = [r \in Req |-> Static]
      BY DEF TlsInit
    <3> QED BY <1>1, <3>1
  <2>2. /\ gap \in [Req -> BOOLEAN] /\ grown \in [Req -> BOOLEAN]
        /\ up \in BOOLEAN /\ static \in BOOLEAN /\ cleared \in BOOLEAN
    BY Zenon DEF TlsInit
  <2>3. /\ hs \in [Req -> {"reading", "open", "failed"}] /\ read \in [Req -> 1..3]
        /\ sni \in [Req -> Class \cup {NoSni}] /\ kept \in [Req -> SUBSET CertHost]
        /\ \A r \in Req : hs[r] # "reading" \/ sni[r] = NoSni => read[r] = 1
    BY DEF TlsInit
  <2> QED BY <2>1, <2>2, <2>3 DEF HandshakeType
<1>3. LookupInv /\ DefaultInv /\ PresentedInv
  BY DEF TlsInit, LookupInv, DefaultInv, PresentedInv
<1>4. StoreInv
  BY DEF TlsInit, StoreInit, StoreInv
<1>5. HostInv
  BY DEF TlsInit, Init, HostInv
<1> QED BY <1>2, <1>3, <1>4, <1>5 DEF IInv

(* ... and every step keeps it.                                             *)
LEMMA NextInv == IInv /\ [TlsNext]_tlsVars => IInv'
<1> SUFFICES ASSUME IInv, [TlsNext]_tlsVars PROVE IInv'
  OBVIOUS
<1>1. CASE Start
  BY <1>1, StartKeeps
<1>2. ASSUME NEW h \in CertHost, NEW k \in Cert, NEW allow \in BOOLEAN, UpdateCert(h, k, allow)
      PROVE  IInv'
  BY <1>2, UpdateCertKeeps
<1>3. ASSUME NEW h \in CertHost, RemoveHost(h)
      PROVE  IInv'
  BY <1>3, RemoveHostKeeps
<1>4. ASSUME NEW r \in Req, NoServerName(r) \/ Lookup(r) \/ Retry(r) \/ NextConnection(r)
      PROVE  IInv'
  BY <1>4, NoServerNameKeeps, LookupKeeps, RetryKeeps, NextConnectionKeeps
<1>5. ASSUME NEW r \in Req, Routing(r) \/ NextRequest(r)
      PROVE  IInv'
  BY <1>5, RequestKeeps DEF Routing, NextRequest
<1>6. CASE /\ \/ \E c \in Config : AddOrUpdate(c)
              \/ \E id \in Id : Remove(id)
           /\ UNCHANGED <<store, server, cleared, handshake, history>>
  BY <1>6, RequestKeeps
<1>7. CASE UNCHANGED tlsVars
  BY <1>7, RequestKeeps DEF tlsVars
<1> QED BY <1>1, <1>2, <1>3, <1>4, <1>5, <1>6, <1>7 DEF TlsNext

(* The invariant the proofs of this module rest on, with certificates,      *)
(* routes and connections changing in any order.                            *)
THEOREM TlsInvariant == TlsSpec => []IInv
BY InitInv, NextInv, PTL DEF TlsSpec

-----------------------------------------------------------------------------
(* What one step of a lookup may answer.                                    *)
Caused(r) ==
  hs[r] = "reading" /\ hs'[r] # "reading" /\ sni[r] # NoSni =>
    LET since == Since(r) layer == presented'[r].layer
    IN /\ ExactFor(sni[r]) \cap since # {} => layer = "exact"
       /\ \/ Matching(sni[r]) \cap since # {}
          \/ read[r] > 1 /\ ~gap[r] /\ ~grown[r]
          => layer \in {"exact", "wildcard"}
       /\ Star \in since => layer # "static"
       /\ hs'[r] = "failed" =>
            IF layer = "static" THEN ~static /\ cleared ELSE ~presented'[r].entry.cert.usable

(* Each read of a lookup answers with a cause.                              *)
LEMMA LookupCaused ==
  ASSUME IInv, NEW r \in Req, Lookup(r)
  PROVE  Caused(r)
<1> DEFINE layer == LookupOrder[read[r]]
           found == Read(sni[r], layer)
           x == [layer |-> layer, entry |-> found]
<1>1. up /\ hs[r] = "reading" /\ sni[r] # NoSni
  BY DEF Lookup
<1>2. Len(LookupOrder) = 3 /\ Static.layer = "static"
  BY DEF LookupOrder, Static
<1>3. /\ found # NoEntry => Justified(r, x) /\ x.layer # "static"
      /\ found = NoEntry /\ read[r] = 3 => Justified(r, Static) /\ default = NoEntry
  BY <1>1, LookupJustified
<1>4. \A y : Answer(r, y) => presented'[r] = y /\ hs'[r] \in Outcome(y)
  BY DEF Answer, IInv, HandshakeType
<1>5. CASE found # NoEntry /\ Answer(r, x)
  <2>1. presented'[r] = x /\ hs'[r] \in Outcome(x) /\ Justified(r, x) /\ x.layer # "static"
    BY <1>3, <1>4, <1>5
  <2> HIDE DEF x
  <2>2. hs'[r] = "failed" => ~x.entry.cert.usable
    BY <2>1 DEF Outcome
  <2> QED BY <2>1, <2>2 DEF Caused, Justified
<1>6. CASE found = NoEntry /\ read[r] = 3 /\ Answer(r, Static)
  <2>1. presented'[r] = Static /\ Justified(r, Static) /\ (hs'[r] = "failed" => ~static)
    BY <1>2, <1>3, <1>4, <1>6 DEF Outcome
  <2>2. ~static => cleared
    BY <1>1, <1>3, <1>6 DEF IInv, DefaultInv
  <2> QED BY <1>2, <2>1, <2>2 DEF Caused, Justified
<1>7. CASE UNCHANGED <<hs, presented, grown>>
  BY <1>7 DEF Caused
<1> QED BY <1>2, <1>5, <1>6, <1>7 DEF Lookup

(* For any certificates, names and changes to the store while lookups are   *)
(* between two reads: what a lookup answers with passes over nothing that   *)
(* was there throughout, a name that moves to a wildcard stays covered, and *)
(* a handshake fails only for an entry that OpenSSL does not take, or where *)
(* the default was removed under a listener without certPath.               *)
THEOREM LookupsForCause == TlsSpec => LookupForCause
<1>1. ASSUME IInv, TlsNext, NEW r \in Req
      PROVE  Caused(r)
  <2>1. CASE UNCHANGED hs
    BY <2>1 DEF Caused
  <2>2. ASSUME NEW q \in Req, NoServerName(q) \/ Lookup(q) \/ Retry(q) \/ NextConnection(q)
        PROVE  Caused(r)
    <3>1. CASE q # r
      <4>1. hs'[r] = hs[r]
        BY <1>1, <2>2, <3>1 DEF NoServerName, Lookup, Retry, NextConnection, Answer, IInv, HandshakeType
      <4> QED BY <4>1 DEF Caused
    <3>2. CASE q = r /\ Lookup(q)
      BY <1>1, <3>2, LookupCaused
    <3>3. CASE q = r /\ ~Lookup(q)
      BY <2>2, <3>3, <1>1 DEF Caused, NoServerName, Retry, NextConnection, IInv, HandshakeType
    <3> QED BY <3>1, <3>2, <3>3
  <2>3. \/ UNCHANGED hs
        \/ \E q \in Req : NoServerName(q) \/ Lookup(q) \/ Retry(q) \/ NextConnection(q)
    BY <1>1 DEF TlsNext, Start, UpdateCert, RemoveHost, Routing, NextRequest, handshake
  <2> QED BY <2>1, <2>2, <2>3
<1>2. IInv /\ [TlsNext]_tlsVars => [\A r \in Req : Caused(r)]_tlsVars
  BY <1>1
<1>3. LookupForCause <=> [][\A r \in Req : Caused(r)]_tlsVars
  BY DEF LookupForCause, Caused
<1> QED BY <1>2, <1>3, TlsInvariant, PTL DEF TlsSpec

-----------------------------------------------------------------------------
(* The policy of a server stays what it was started with.                   *)
LEMMA PolicyKept == TlsSpec => [](policy \in Policy)
<1>1. TlsInit => policy \in Policy
  BY DEF TlsInit
<1>2. policy \in Policy /\ [TlsNext]_tlsVars => (policy \in Policy)'
  BY Zenon DEF TlsNext, tlsVars, server, Start, UpdateCert, RemoveHost, NoServerName, Lookup, Retry,
         Routing, NextRequest, NextConnection
<1> QED BY <1>1, <1>2, PTL DEF TlsSpec

(* Whatever the policy but loose_by_header, the host a request is routed by *)
(* is the name of its connection, but for final dots and the case of        *)
(* letters.                                                                 *)
LEMMA RoutedBySni ==
  ASSUME NEW name \in Class, policy \in Policy, policy # "loose_by_header",
         NEW host \in RoutingHost(name), ~DotApart(name, host)
  PROVE  host \in Names /\ ToLowercase(host) = ToLowercase(name)
<1>1. PICK a \in Class : ~PolicyReject(name, a) /\ host = SessionHost(name, a)
  BY DEF RoutingHost
<1> QED BY <1>1, TlsAssumption DEF SessionHost, PolicyReject, DotApart, Names

(* Lower case goes label by label.                                          *)
LEMMA LowerTail ==
  ASSUME NEW p \in Names, Len(p) > 1
  PROVE  Tail(ToLowercase(p)) = ToLowercase(Tail(p))
<1> DEFINE n == Len(p) - 1
<1>1. n \in Nat /\ Len(p) \in Nat /\ Len(ToLowercase(p)) = n + 1 /\ ToLowercase(p) \in Seq(DOMAIN Lower)
  BY LowerName DEF Names
<1>2. Tail(p) \in Names /\ Len(Tail(p)) = n /\ \A i \in 1..n : Tail(p)[i] = p[i + 1]
  BY <1>1 DEF Names
<1>3. /\ Tail(ToLowercase(p)) \in Seq(DOMAIN Lower) /\ Len(Tail(ToLowercase(p))) = n
      /\ \A i \in 1..n : Tail(ToLowercase(p))[i] = ToLowercase(p)[i + 1]
  BY <1>1
<1>4. /\ ToLowercase(Tail(p)) \in Seq(DOMAIN Lower) /\ Len(ToLowercase(Tail(p))) = n
      /\ \A i \in 1..n : ToLowercase(Tail(p))[i] = Lower[Tail(p)[i]]
  BY <1>2, LowerName, Zenon DEF Names
<1>5. \A i \in 1..n : ToLowercase(p)[i + 1] = Lower[p[i + 1]]
  BY <1>1, LowerName
<1>6. \A i \in 1..n : Tail(ToLowercase(p))[i] = ToLowercase(Tail(p))[i]
  BY <1>2, <1>3, <1>4, <1>5
<1> HIDE DEF n
<1> QED BY <1>1, <1>3, <1>4, <1>6

(* A pattern that matches a name matches it in lower case.                  *)
LEMMA LowerMatches ==
  ASSUME NEW host \in Names, NEW p \in Names, HostMatches(host, p)
  PROVE  HostMatches(ToLowercase(host), ToLowercase(p))
<1>1. CASE ~IsWildcard(p)
  BY <1>1, LowerWildcard DEF HostMatches
<1>2. CASE IsWildcard(p)
  <2>1. Len(host) > 1 /\ Len(p) > 1 /\ Head(host) # "" /\ Tail(host) = Tail(p)
    BY <1>2 DEF HostMatches, IsWildcard
  <2>2. Tail(ToLowercase(host)) = Tail(ToLowercase(p))
    BY <2>1, LowerTail
  <2>3. Head(ToLowercase(host)) # ""
    <3>1. Head(host) \in DOMAIN Lower /\ Head(ToLowercase(host)) = Lower[Head(host)]
      <4>1. Len(host) > 1
        BY <2>1
      <4> QED BY <4>1, LowerName DEF Names
    <3> QED BY <2>1, <3>1, StoreAssumption
  <2> QED BY <1>2, <2>1, <2>2, <2>3, LowerName, LowerWildcard DEF HostMatches
<1> QED BY <1>1, <1>2

(* For any rules, routes and certificates, and whatever changes between the *)
(* handshake and the request: when a request is routed by a pattern whose   *)
(* certificate was in the store at the handshake, and no final dot tells    *)
(* Host and server name apart, the handshake looked up an entry of the      *)
(* store whose certificate covers the server name or was waived.            *)
THEOREM RoutedAreCovered == TlsSpec => []RoutedIsCovered
<1>1. IInv /\ policy \in Policy => RoutedIsCovered
  <2> SUFFICES ASSUME IInv, policy \in Policy, NEW r \in Req, NEW rule \in Rule,
                      phase[r] = "routed", sni[r] # NoSni, policy # "loose_by_header",
                      ~DotApart(sni[r], class[r]),
                      NEW p \in rule.hosts, p \in kept[r], HostMatches(class[r], p)
               PROVE  /\ presented[r].layer \in {"exact", "wildcard"}
                      /\ \/ presented[r].entry.waived
                         \/ \E n \in presented[r].entry.cert.names :
                              HostMatches(ToLowercase(sni[r]), ToLowercase(n))
    BY DEF RoutedIsCovered
  <2>1. /\ hs[r] = "open" /\ sni[r] \in Class /\ class[r] \in RoutingHost(sni[r])
        /\ p \in CertHost /\ p \in Names /\ p # Star
    <3>1. hs[r] = "open" /\ sni[r] \in Class /\ class[r] \in RoutingHost(sni[r])
      BY DEF IInv, HostInv, HandshakeType
    <3>2. p \in CertHost /\ p # Star
      BY <3>1 DEF IInv, HandshakeType, PresentedInv
    <3> QED BY <3>1, <3>2, StoreAssumption DEF Names
  <2>2. class[r] \in Names /\ ToLowercase(class[r]) = ToLowercase(sni[r]) /\ sni[r] \in Names
    BY <2>1, RoutedBySni, TlsAssumption DEF Names
  <2>3. HostMatches(ToLowercase(sni[r]), ToLowercase(p))
    BY <2>1, <2>2, LowerMatches
  <2>4. p \in Matching(sni[r]) /\ (~IsWildcard(p) => p \in ExactFor(sni[r]))
    BY <2>1, <2>3 DEF Matching, ExactFor
  <2>5. /\ presented[r].layer \in {"exact", "wildcard"}
        /\ ~IsWildcard(p) => presented[r].layer = "exact"
        /\ presented[r].layer = "exact" => FitsExact(presented[r].entry, ToLowercase(sni[r]))
        /\ presented[r].layer = "wildcard"
             => FitsWildcard(presented[r].entry, Tail(ToLowercase(sni[r])))
    BY <2>1, <2>4 DEF IInv, PresentedInv
  <2>6. CASE presented[r].layer = "exact"
    <3>1. ASSUME NEW n, ToLowercase(n) = ToLowercase(sni[r])
          PROVE  HostMatches(ToLowercase(sni[r]), ToLowercase(n))
      BY <3>1 DEF HostMatches, IsWildcard
    <3> QED BY <2>5, <2>6, <3>1 DEF FitsExact
  <2>7. CASE presented[r].layer = "wildcard"
    <3>1. Len(ToLowercase(sni[r])) > 1 /\ Head(ToLowercase(sni[r])) # ""
      BY <2>1, <2>3, <2>5, <2>7, LowerWildcard DEF HostMatches
    <3> QED BY <2>5, <2>7, <3>1 DEF FitsWildcard, HostMatches
  <2> QED BY <2>5, <2>6, <2>7
<1> QED BY <1>1, TlsInvariant, PolicyKept, PTL
=============================================================================
