--------------------------- MODULE TlsRoutingInv ---------------------------
(***************************************************************************)
(* Lookups and routed hosts, for any names, certificates, routes, rules    *)
(* and number of connections.                                              *)
(***************************************************************************)
EXTENDS TlsRouting, TLAPS

Names == Seq(DOMAIN Lower)

Entries == [cert : Cert, waived : BOOLEAN]
Layers == {"exact", "wildcard", "default", "static"}

(* The handshakes are well typed; a client without a name makes no lookup.  *)
HandshakeType ==
  /\ hs \in [Req -> {"reading", "open", "failed"}]
  /\ read \in [Req -> 1..3]
  /\ sni \in [Req -> Class \cup {NoSni}]
  /\ presented \in [Req -> [layer : Layers, entry : Entries \cup {NoEntry}]]
  /\ kept \in [Req -> SUBSET CertHost]
  /\ gap \in [Req -> BOOLEAN] /\ grown \in [Req -> BOOLEAN]
  /\ up \in BOOLEAN /\ static \in BOOLEAN /\ cleared \in BOOLEAN
  /\ \A r \in Req : hs[r] # "reading" \/ sni[r] = NoSni => read[r] = 1

(* What a lookup under way has passed over was not there.                   *)
LookupInv ==
  \A r \in Req : read[r] > 1 =>
    /\ kept[r] \subseteq InStore
    /\ ExactFor(sni[r]) \cap kept[r] = {}
    /\ read[r] = 2 /\ ~grown[r] => ExactFor(sni[r]) \cap InStore = {}
    /\ read[r] = 3 => Matching(sni[r]) \cap kept[r] = {} /\ (gap[r] \/ grown[r])

(* A listener without certificate has a default or has lost it.             *)
DefaultInv == up /\ ~static /\ default = NoEntry => cleared

(* A certificate that an entry holds carries the name of the entry, unless  *)
(* the check was waived.                                                    *)
FitsExact(e, h) == e.waived \/ \E n \in e.cert.names : ToLowercase(n) = h
FitsWildcard(e, d) ==
  e.waived \/ \E n \in e.cert.names : IsWildcard(ToLowercase(n)) /\ Tail(ToLowercase(n)) = d

StoreInv ==
  /\ default \in Entries \cup {NoEntry}
  /\ exact \in [Exact -> Entries \cup {NoEntry}]
  /\ wildcard \in [Domain -> Entries \cup {NoEntry}]
  /\ \A h \in Exact : exact[h] # NoEntry => FitsExact(exact[h], h)
  /\ \A d \in Domain : wildcard[d] # NoEntry => FitsWildcard(wildcard[d], d)

(* What an open connection was answered with.                               *)
PresentedInv ==
  \A r \in Req : hs[r] = "open" /\ sni[r] # NoSni =>
    LET x == presented[r]
    IN /\ Star \notin kept[r]
       /\ ExactFor(sni[r]) \cap kept[r] # {} => x.layer = "exact"
       /\ Matching(sni[r]) \cap kept[r] # {} => x.layer \in {"exact", "wildcard"}
       /\ x.layer = "exact" => FitsExact(x.entry, ToLowercase(sni[r]))
       /\ x.layer = "wildcard" => FitsWildcard(x.entry, Tail(ToLowercase(sni[r])))

(* Requests are made on open connections, for hosts the policy admits.      *)
HostInv ==
  /\ class \in [Req -> Class] /\ phase \in [Req -> {"new", "matching", "routed"}]
  /\ \A r \in Req : class[r] \in RoutingHost(sni[r]) /\ (phase[r] # "new" => hs[r] = "open")

IInv ==
  /\ HandshakeType /\ LookupInv /\ DefaultInv
  /\ StoreInv /\ PresentedInv /\ HostInv

-----------------------------------------------------------------------------
(* Lower case keeps the shape of a name.                                    *)
LEMMA LowerName ==
  ASSUME NEW p \in Names
  PROVE  /\ ToLowercase(p) \in Names /\ Len(ToLowercase(p)) = Len(p)
         /\ \A i \in 1..Len(p) : ToLowercase(p)[i] = Lower[p[i]]
<1> DEFINE n == Len(p)
<1>1. n \in Nat /\ DOMAIN p = 1..n /\ \A i \in 1..n : p[i] \in DOMAIN Lower
  BY DEF Names
<1>2. ToLowercase(p) = [i \in 1..n |-> Lower[p[i]]]
  BY <1>1 DEF ToLowercase
<1>3. \A i \in 1..n : Lower[p[i]] \in DOMAIN Lower
  BY <1>1, StoreAssumption
<1> HIDE DEF n
<1>4. [i \in 1..n |-> Lower[p[i]]] \in Seq(DOMAIN Lower)
  BY <1>1, <1>3
<1>5. Len([i \in 1..n |-> Lower[p[i]]]) = n
  BY <1>1
<1> QED BY <1>2, <1>4, <1>5 DEF Names, n

(* ... and tells wildcards from the other names.                            *)
LEMMA LowerWildcard ==
  ASSUME NEW p \in Names
  PROVE  IsWildcard(ToLowercase(p)) <=> IsWildcard(p)
<1>1. CASE Len(p) > 1
  <2>1. Head(ToLowercase(p)) = Lower[Head(p)] /\ Head(p) \in DOMAIN Lower
    BY <1>1, LowerName DEF Names
  <2> QED BY <1>1, <2>1, LowerName, StoreAssumption DEF IsWildcard
<1>2. CASE ~(Len(p) > 1)
  BY <1>2, LowerName DEF IsWildcard
<1> QED BY <1>1, <1>2

(* No exact entry for a name, if exact.get finds none.                      *)
LEMMA ReadExactNone ==
  ASSUME NEW name \in Names, Read(name, "exact") = NoEntry
  PROVE  ExactFor(name) \cap InStore = {}
<1> SUFFICES ASSUME NEW p \in ExactFor(name) PROVE EntryOf(p) = NoEntry
  BY DEF InStore
<1>1. /\ p \in CertHost /\ p # Star /\ p \in Names /\ ~IsWildcard(p)
      /\ HostMatches(ToLowercase(name), ToLowercase(p))
  BY StoreAssumption DEF ExactFor, Matching, Names
<1>2. ~IsWildcard(ToLowercase(p)) /\ ToLowercase(name) = ToLowercase(p)
  BY <1>1, LowerWildcard DEF HostMatches
<1>3. ToLowercase(name) \in Exact
  BY <1>1, <1>2 DEF Exact
<1> QED BY <1>1, <1>2, <1>3 DEF Read, EntryOf

(* No wildcard entry for a name, if wildcard.get of its parent finds none.  *)
LEMMA ReadWildcardNone ==
  ASSUME NEW name \in Names, Read(name, "wildcard") = NoEntry
  PROVE  \A p \in Matching(name) \ ExactFor(name) : EntryOf(p) = NoEntry
<1> TAKE p \in Matching(name) \ ExactFor(name)
<1>1. /\ p \in CertHost /\ p # Star /\ p \in Names /\ IsWildcard(p)
      /\ HostMatches(ToLowercase(name), ToLowercase(p))
  BY StoreAssumption DEF ExactFor, Matching, Names
<1>2. /\ IsWildcard(ToLowercase(p)) /\ Len(ToLowercase(name)) > 1
      /\ Tail(ToLowercase(name)) = Tail(ToLowercase(p))
  BY <1>1, LowerWildcard DEF HostMatches
<1>3. Tail(ToLowercase(name)) \in Domain
  BY <1>1, <1>2 DEF Domain
<1> QED BY <1>1, <1>2, <1>3, Zenon DEF Read, EntryOf

(* What the reads of a lookup find.                                         *)
LEMMA ReadFinds ==
  ASSUME StoreInv, NEW name \in Names
  PROVE  /\ \A layer \in {"exact", "wildcard", "default"} :
              Read(name, layer) \in Entries \cup {NoEntry}
         /\ Read(name, "exact") # NoEntry =>
              FitsExact(Read(name, "exact"), ToLowercase(name))
         /\ Read(name, "wildcard") # NoEntry =>
              FitsWildcard(Read(name, "wildcard"), Tail(ToLowercase(name)))
<1>1. /\ Read(name, "exact") = IF ToLowercase(name) \in Exact THEN exact[ToLowercase(name)] ELSE NoEntry
      /\ Read(name, "wildcard") =
           IF Len(ToLowercase(name)) > 1 /\ Tail(ToLowercase(name)) \in Domain
             THEN wildcard[Tail(ToLowercase(name))] ELSE NoEntry
      /\ Read(name, "default") = default
  BY DEF Read
<1> QED BY <1>1 DEF StoreInv

-----------------------------------------------------------------------------
(* Steps that leave the store and the handshakes alone.                     *)
LEMMA StoreFrame ==
  ASSUME UNCHANGED store
  PROVE  InStore' = InStore /\ (StoreInv => StoreInv')
<1>1. default' = default /\ exact' = exact /\ wildcard' = wildcard
  BY DEF store
<1>2. \A p \in CertHost : EntryOf(p)' = EntryOf(p)
  BY <1>1 DEF EntryOf
<1> QED BY <1>1, <1>2 DEF InStore, StoreInv

(* The policy does not change.                                              *)
LEMMA PolicyFrame ==
  ASSUME policy' = policy, NEW name
  PROVE  RoutingHost(name)' = RoutingHost(name)
BY DEF RoutingHost, SessionHost, PolicyReject

-----------------------------------------------------------------------------
(* updateCert and removeCert keep the store.                                *)
LEMMA SetKeeps ==
  ASSUME StoreInv, NEW host \in CertHost, NEW cert \in Cert, NEW allow \in BOOLEAN,
         Set(host, cert, allow)
  PROVE  StoreInv' /\ (default' = NoEntry => default = NoEntry)
<1> DEFINE h == ToLowercase(host) e == Entry(cert, host, allow)
<1>1. e \in Entries /\ e # NoEntry /\ host \in Names
  <2> DEFINE w == host # Star /\ allow /\ ~VerifyCertMatches(cert, host)
  <2>1. w \in BOOLEAN
    OBVIOUS
  <2>2. e = [cert |-> cert, waived |-> w]
    BY DEF Entry
  <2> HIDE DEF w, e
  <2>3. e \in Entries
    BY <2>1, <2>2 DEF Entries
  <2> QED BY <2>3, StoreAssumption DEF Entries, Names
<1>2. host # Star => e.waived \/ VerifyCertMatches(cert, host)
  BY DEF Set, Entry
<1>3. e.cert = cert
  BY DEF Entry
<1>4. CASE host = Star
  <2>1. default' = e /\ exact' = exact /\ wildcard' = wildcard
    BY <1>4 DEF Set
  <2> QED BY <1>1, <2>1 DEF StoreInv
<1>5. CASE host # Star /\ IsWildcard(h)
  <2>1. wildcard' = [wildcard EXCEPT ![Tail(h)] = e] /\ default' = default /\ exact' = exact
    BY <1>5 DEF Set
  <2>2. Tail(h) \in Domain
    BY <1>1, <1>5, LowerWildcard DEF Domain
  <2>3. FitsWildcard(e, Tail(h))
    BY <1>2, <1>3, <1>5 DEF FitsWildcard, VerifyCertMatches
  <2> HIDE DEF h, e
  <2>4. wildcard' \in [Domain -> Entries \cup {NoEntry}]
    BY <1>1, <2>1, <2>2 DEF StoreInv
  <2>5. \A d \in Domain : wildcard'[d] # NoEntry => FitsWildcard(wildcard'[d], d)
    BY <2>1, <2>2, <2>3, Zenon DEF StoreInv
  <2> QED BY <2>1, <2>4, <2>5 DEF StoreInv
<1>6. CASE host # Star /\ ~IsWildcard(h)
  <2>1. exact' = [exact EXCEPT ![h] = e] /\ default' = default /\ wildcard' = wildcard
    BY <1>6 DEF Set
  <2>2. h \in Exact
    BY <1>1, <1>6, LowerWildcard DEF Exact
  <2>3. FitsExact(e, h)
    BY <1>2, <1>3, <1>6 DEF FitsExact, VerifyCertMatches
  <2> HIDE DEF h, e
  <2>4. exact' \in [Exact -> Entries \cup {NoEntry}]
    BY <1>1, <2>1, <2>2 DEF StoreInv
  <2>5. \A g \in Exact : exact'[g] # NoEntry => FitsExact(exact'[g], g)
    BY <2>1, <2>2, <2>3 DEF StoreInv
  <2> QED BY <2>1, <2>4, <2>5 DEF StoreInv
<1> QED BY <1>4, <1>5, <1>6

(* remove leaves a store whose entries fit.                                 *)
LEMMA RemoveKeeps ==
  ASSUME StoreInv, NEW host \in CertHost, RemoveCert(host)
  PROVE  StoreInv' /\ (default' = NoEntry => default = NoEntry \/ host = Star)
<1> DEFINE h == ToLowercase(host)
<1>1. CASE host = Star
  <2>1. default' = NoEntry /\ exact' = exact /\ wildcard' = wildcard
    BY <1>1 DEF RemoveCert
  <2> QED BY <1>1, <2>1 DEF StoreInv
<1>2. CASE host # Star /\ IsWildcard(h)
  <2>1. wildcard' = [wildcard EXCEPT ![Tail(h)] = NoEntry] /\ default' = default /\ exact' = exact
    BY <1>2 DEF RemoveCert
  <2> HIDE DEF h
  <2> QED BY <2>1, Zenon DEF StoreInv
<1>3. CASE host # Star /\ ~IsWildcard(h)
  <2>1. exact' = [exact EXCEPT ![h] = NoEntry] /\ default' = default /\ wildcard' = wildcard
    BY <1>3 DEF RemoveCert
  <2> HIDE DEF h
  <2> QED BY <2>1, Zenon DEF StoreInv
<1> QED BY <1>1, <1>2, <1>3

(* Lookups under way notice every change of the store.                      *)
LEMMA ObserveKeeps ==
  ASSUME IInv, Observe, UNCHANGED <<server, handshake>>, cleared' \in BOOLEAN
  PROVE  HandshakeType' /\ LookupInv' /\ PresentedInv'
<1> DEFINE under == {r \in Req : hs[r] = "reading" /\ read[r] > 1}
<1>1. /\ hs' = hs /\ read' = read /\ sni' = sni /\ presented' = presented
      /\ up' = up /\ static' = static
  BY DEF handshake, server
<1>2. /\ kept' = [r \in Req |-> IF r \in under THEN kept[r] \cap InStore' ELSE kept[r]]
      /\ gap' = [r \in Req |-> gap[r] \/ (r \in under /\ Matching(sni[r]) \cap InStore' = {})]
      /\ grown' = [r \in Req |-> grown[r] \/
                     (r \in under /\ ExactFor(sni[r]) \cap (InStore' \ InStore) # {})]
  BY DEF Observe, InStore
<1>3. /\ \A r \in Req : kept[r] \in SUBSET CertHost /\ gap[r] \in BOOLEAN /\ grown[r] \in BOOLEAN
      /\ \A r \in Req : read[r] \in 1..3 /\ (read[r] > 1 <=> r \in under)
  BY DEF IInv, HandshakeType
<1> HIDE DEF under
<1>4. HandshakeType'
  <2>1. kept' \in [Req -> SUBSET CertHost]
    BY <1>2, <1>3
  <2>2. gap' \in [Req -> BOOLEAN]
    BY <1>2, <1>3
  <2>3. grown' \in [Req -> BOOLEAN]
    BY <1>2, <1>3
  <2> QED BY <1>1, <2>1, <2>2, <2>3 DEF IInv, HandshakeType
<1>5. LookupInv'
  <2> SUFFICES ASSUME NEW r \in Req, read[r] > 1
               PROVE  /\ kept'[r] \subseteq InStore'
                      /\ ExactFor(sni[r]) \cap kept'[r] = {}
                      /\ read[r] = 2 /\ ~grown'[r] => ExactFor(sni[r]) \cap InStore' = {}
                      /\ read[r] = 3 => Matching(sni[r]) \cap kept'[r] = {} /\ (gap'[r] \/ grown'[r])
    BY <1>1 DEF LookupInv
  <2>1. /\ kept'[r] = kept[r] \cap InStore'
        /\ gap[r] => gap'[r]
        /\ grown'[r] <=> grown[r] \/ ExactFor(sni[r]) \cap (InStore' \ InStore) # {}
    BY <1>2, <1>3, Zenon
  <2>2. /\ ExactFor(sni[r]) \cap kept[r] = {}
        /\ read[r] = 2 /\ ~grown[r] => ExactFor(sni[r]) \cap InStore = {}
        /\ read[r] = 3 => Matching(sni[r]) \cap kept[r] = {} /\ (gap[r] \/ grown[r])
    BY DEF IInv, LookupInv
  <2> QED BY <2>1, <2>2
<1>6. PresentedInv'
  <2>1. \A r \in Req : hs[r] = "open" => kept'[r] = kept[r]
    BY <1>2, <1>3 DEF IInv, HandshakeType
  <2> QED BY <1>1, <2>1 DEF IInv, PresentedInv
<1> QED BY <1>4, <1>5, <1>6

-----------------------------------------------------------------------------
(* Requests and connections that stay as they are.                          *)
LEMMA HostFrame ==
  ASSUME HostInv, UNCHANGED <<class, phase, sni, policy>>,
         \A r \in Req : hs[r] = "open" => hs'[r] = "open"
  PROVE  HostInv'
<1>1. \A r \in Req : RoutingHost(sni[r])' = RoutingHost(sni[r])
  BY PolicyFrame DEF RoutingHost, SessionHost, PolicyReject
<1> QED BY <1>1 DEF HostInv

(* updateCert keeps the invariant.                                          *)
LEMMA UpdateCertKeeps ==
  ASSUME IInv, NEW host \in CertHost, NEW cert \in Cert, NEW allow \in BOOLEAN,
         UpdateCert(host, cert, allow)
  PROVE  IInv'
<1>1. /\ Set(host, cert, allow) /\ Observe
      /\ UNCHANGED <<server, handshake>> /\ UNCHANGED <<class, phase, sni, policy>>
      /\ cleared' = cleared /\ up' = up /\ static' = static /\ hs' = hs
  BY DEF UpdateCert, vars, server, handshake
<1>2. HandshakeType' /\ LookupInv' /\ PresentedInv'
  BY <1>1, ObserveKeeps DEF IInv, HandshakeType
<1>3. StoreInv' /\ DefaultInv'
  BY <1>1, SetKeeps DEF IInv, DefaultInv
<1>4. HostInv'
  BY <1>1, HostFrame DEF IInv
<1> QED BY <1>2, <1>3, <1>4 DEF IInv

(* removeCert keeps the invariant.                                          *)
LEMMA RemoveHostKeeps ==
  ASSUME IInv, NEW host \in CertHost, RemoveHost(host)
  PROVE  IInv'
<1>1. /\ RemoveCert(host) /\ Observe
      /\ UNCHANGED <<server, handshake>> /\ UNCHANGED <<class, phase, sni, policy>>
      /\ cleared' = (cleared \/ (host = Star /\ up /\ ~static))
      /\ up' = up /\ static' = static /\ hs' = hs
  BY DEF RemoveHost, vars, server, handshake
<1>2. cleared' \in BOOLEAN
  BY <1>1
<1>3. HandshakeType' /\ LookupInv' /\ PresentedInv'
  BY <1>1, <1>2, ObserveKeeps
<1>4. StoreInv' /\ DefaultInv'
  BY <1>1, RemoveKeeps, Zenon DEF IInv, DefaultInv
<1>5. HostInv'
  BY <1>1, HostFrame DEF IInv
<1> QED BY <1>3, <1>4, <1>5 DEF IInv

-----------------------------------------------------------------------------
(* An answer of a lookup that passes nothing over, and fits.                *)
Justified(r, x) ==
  /\ ExactFor(sni[r]) \cap Since(r) # {} => x.layer = "exact"
  /\ \/ Matching(sni[r]) \cap Since(r) # {}
     \/ read[r] > 1 /\ ~gap[r] /\ ~grown[r]
     => x.layer \in {"exact", "wildcard"}
  /\ Star \in Since(r) => x.layer # "static"
  /\ x.layer = "exact" => FitsExact(x.entry, ToLowercase(sni[r]))
  /\ x.layer = "wildcard" => FitsWildcard(x.entry, Tail(ToLowercase(sni[r])))

(* What the three reads of a lookup answer.                                 *)
LEMMA LookupJustified ==
  ASSUME IInv, NEW r \in Req, sni[r] # NoSni
  PROVE  LET layer == LookupOrder[read[r]] found == Read(sni[r], layer)
             x == [layer |-> layer, entry |-> found]
         IN /\ found # NoEntry =>
                 /\ x \in [layer : Layers, entry : Entries \cup {NoEntry}]
                 /\ Justified(r, x) /\ x.layer # "static"
            /\ found = NoEntry /\ read[r] = 3 => Justified(r, Static) /\ default = NoEntry
<1> DEFINE name == sni[r]
           layer == LookupOrder[read[r]]
           found == Read(name, layer)
           x == [layer |-> layer, entry |-> found]
<1>1. name \in Names /\ read[r] \in {1, 2, 3}
  BY TlsAssumption DEF IInv, HandshakeType, Names
<1>2. /\ \A l \in {"exact", "wildcard", "default"} : Read(name, l) \in Entries \cup {NoEntry}
      /\ Read(name, "exact") # NoEntry => FitsExact(Read(name, "exact"), ToLowercase(name))
      /\ Read(name, "wildcard") # NoEntry =>
           FitsWildcard(Read(name, "wildcard"), Tail(ToLowercase(name)))
  BY <1>1, ReadFinds DEF IInv
<1>3. /\ read[r] > 1 =>
           /\ kept[r] \subseteq InStore /\ ExactFor(name) \cap kept[r] = {}
      /\ read[r] = 3 => Matching(name) \cap kept[r] = {} /\ (gap[r] \/ grown[r])
  BY DEF IInv, LookupInv
<1>4. CASE read[r] = 1
  <2>1. layer = "exact"
    BY <1>4 DEF LookupOrder
  <2>2. x.layer = "exact" /\ x.entry = Read(name, "exact")
    BY <2>1
  <2>3. found # NoEntry => x \in [layer : Layers, entry : Entries \cup {NoEntry}]
    BY <1>2, <2>1 DEF Layers
  <2>4. found # NoEntry => Justified(r, x)
    BY <1>2, <2>1, <2>2 DEF Justified
  <2> QED BY <1>4, <2>2, <2>3, <2>4
<1>5. CASE read[r] = 2
  <2>1. layer = "wildcard" /\ Since(r) = kept[r]
    BY <1>5 DEF LookupOrder, Since
  <2>2. x.layer = "wildcard" /\ x.entry = Read(name, "wildcard")
    BY <2>1
  <2>3. found # NoEntry => x \in [layer : Layers, entry : Entries \cup {NoEntry}]
    BY <1>2, <2>1 DEF Layers
  <2>4. found # NoEntry => Justified(r, x)
    <3>1. ExactFor(sni[r]) \cap Since(r) = {}
      BY <1>3, <1>5, <2>1
    <3>2. found # NoEntry => FitsWildcard(x.entry, Tail(ToLowercase(sni[r])))
      BY <1>2, <2>1, <2>2
    <3> QED BY <2>2, <3>1, <3>2 DEF Justified
  <2> QED BY <1>5, <2>2, <2>3, <2>4
<1>6. CASE read[r] = 3
  <2>1. layer = "default" /\ Since(r) = kept[r]
    BY <1>6 DEF LookupOrder, Since
  <2>2. x.layer = "default" /\ Static.layer = "static"
    BY <2>1 DEF Static
  <2>3. found # NoEntry => x \in [layer : Layers, entry : Entries \cup {NoEntry}]
    BY <1>2, <2>1 DEF Layers
  <2>4. found # NoEntry => Justified(r, x)
    BY <1>3, <1>6, <2>1, <2>2, SMTT(30) DEF Justified
  <2>5. found = NoEntry => default = NoEntry
    BY <2>1 DEF Read
  <2>6. found = NoEntry => Star \notin kept[r]
    BY <1>3, <1>6, <2>5, SMTT(30) DEF InStore, EntryOf
  <2>7. found = NoEntry => Justified(r, Static)
    BY <1>3, <1>6, <2>1, <2>2, <2>6, SMTT(30) DEF Justified
  <2> QED BY <2>2, <2>3, <2>4, <2>5, <2>7
<1> QED BY <1>1, <1>4, <1>5, <1>6

(* A justified answer keeps the invariant.                                  *)
LEMMA AnswerKeeps ==
  ASSUME IInv, NEW r \in Req, hs[r] = "reading",
         NEW x \in [layer : Layers, entry : Entries \cup {NoEntry}],
         sni[r] # NoSni => Justified(r, x),
         Answer(r, x), UNCHANGED <<vars, store, server, cleared, sni>>
  PROVE  IInv'
<1>1. /\ UNCHANGED <<class, phase, sni, policy, static, up, default, exact, wildcard, cleared>>
  BY DEF vars, store, server
<1>2. HandshakeType'
  <2>1. Since(r) \subseteq CertHost
    BY DEF Since, InStore, IInv, HandshakeType
  <2>2. presented' \in [Req -> [layer : Layers, entry : Entries \cup {NoEntry}]]
    BY DEF Answer, IInv, HandshakeType
  <2>3. kept' \in [Req -> SUBSET CertHost]
    BY <2>1 DEF Answer, IInv, HandshakeType
  <2>4. hs' \in [Req -> {"reading", "open", "failed"}]
    BY DEF Answer, Outcome, IInv, HandshakeType
  <2>5. \A q \in Req : hs'[q] # "reading" \/ sni'[q] = NoSni => read'[q] = 1
    BY <1>1 DEF Answer, IInv, HandshakeType
  <2> QED BY <1>1, <2>2, <2>3, <2>4, <2>5 DEF Answer, IInv, HandshakeType
<1>3. InStore' = InStore
  BY <1>1, StoreFrame DEF store
<1>4. /\ read'[r] = 1 /\ presented'[r] = x
      /\ sni[r] # NoSni => kept'[r] = Since(r) \ {Star}
      /\ \A q \in Req \ {r} : /\ hs'[q] = hs[q] /\ read'[q] = read[q] /\ kept'[q] = kept[q]
                             /\ gap'[q] = gap[q] /\ grown'[q] = grown[q]
                             /\ presented'[q] = presented[q]
  BY DEF Answer, IInv, HandshakeType
<1>5. \A n : ExactFor(n)' = ExactFor(n) /\ Matching(n)' = Matching(n)
  BY DEF ExactFor, Matching
<1>6. LookupInv'
  <2> SUFFICES ASSUME NEW q \in Req, read'[q] > 1
               PROVE  /\ kept'[q] \subseteq InStore
                      /\ ExactFor(sni[q]) \cap kept'[q] = {}
                      /\ read'[q] = 2 /\ ~grown'[q] => ExactFor(sni[q]) \cap InStore = {}
                      /\ read'[q] = 3 =>
                           Matching(sni[q]) \cap kept'[q] = {} /\ (gap'[q] \/ grown'[q])
    BY <1>1, <1>3, <1>5 DEF LookupInv
  <2>1. q # r
    BY <1>4
  <2> QED BY <1>4, <2>1 DEF IInv, LookupInv
<1>7. PresentedInv'
  <2> SUFFICES ASSUME NEW q \in Req, hs'[q] = "open", sni[q] # NoSni
               PROVE  /\ Star \notin kept'[q]
                      /\ ExactFor(sni[q]) \cap kept'[q] # {} => presented'[q].layer = "exact"
                      /\ Matching(sni[q]) \cap kept'[q] # {}
                           => presented'[q].layer \in {"exact", "wildcard"}
                      /\ presented'[q].layer = "exact"
                           => FitsExact(presented'[q].entry, ToLowercase(sni[q]))
                      /\ presented'[q].layer = "wildcard"
                           => FitsWildcard(presented'[q].entry, Tail(ToLowercase(sni[q])))
    BY <1>1, <1>5 DEF PresentedInv, FitsExact, FitsWildcard
  <2>1. CASE q = r
    BY <1>4, <2>1 DEF Justified
  <2>2. CASE q # r
    BY <1>4, <2>2 DEF IInv, PresentedInv
  <2> QED BY <2>1, <2>2
<1>8. StoreInv' /\ DefaultInv'
  BY <1>1, StoreFrame, SMTT(30) DEF IInv, DefaultInv
<1>9. HostInv'
  <2>1. \A q \in Req : hs[q] = "open" => hs'[q] = "open"
    BY <1>4
  <2> QED BY <1>1, <2>1, HostFrame DEF IInv
<1> QED BY <1>2, <1>6, <1>7, <1>8, <1>9 DEF IInv

(* A read that finds nothing, with another layer to come.                   *)
ReadOn(r) ==
  /\ hs[r] = "reading" /\ sni[r] # NoSni
  /\ Read(sni[r], LookupOrder[read[r]]) = NoEntry /\ read[r] < Len(LookupOrder)
  /\ read' = [read EXCEPT ![r] = @ + 1]
  /\ kept' = [kept EXCEPT ![r] = Since(r)]
  /\ gap' = [gap EXCEPT ![r] = @ \/ Matching(sni[r]) \cap InStore = {}]
  /\ UNCHANGED <<hs, presented, grown>>
  /\ UNCHANGED <<vars, store, server, cleared, sni>>

(* It keeps the invariant.                                                  *)
LEMMA ReadOnKeeps ==
  ASSUME IInv, NEW r \in Req, ReadOn(r)
  PROVE  IInv'
<1>1. /\ UNCHANGED <<class, phase, sni, policy, static, up, default, cleared>>
      /\ UNCHANGED <<hs, presented, grown>> /\ UNCHANGED store
  BY DEF ReadOn, vars, store, server
<1>2. Len(LookupOrder) = 3
  BY DEF LookupOrder
<1>3. sni[r] \in Names /\ read[r] \in {1, 2} /\ Since(r) \subseteq InStore
  BY <1>2, TlsAssumption DEF ReadOn, IInv, HandshakeType, Names, Since, LookupInv
<1>4. InStore \subseteq CertHost /\ InStore' = InStore /\ StoreInv'
  BY <1>1, StoreFrame DEF IInv, InStore
<1>5. \A n : ExactFor(n)' = ExactFor(n) /\ Matching(n)' = Matching(n)
  BY DEF ExactFor, Matching
<1>6. gap' \in [Req -> BOOLEAN]
  <2> DEFINE w == Matching(sni[r]) \cap InStore = {}
  <2>1. w \in BOOLEAN OBVIOUS
  <2> HIDE DEF w
  <2>2. gap' = [gap EXCEPT ![r] = @ \/ w]
    BY DEF ReadOn, w
  <2> QED BY <2>1, <2>2 DEF IInv, HandshakeType
<1>7. HandshakeType'
  <2>1. read' \in [Req -> 1..3] /\ kept' \in [Req -> SUBSET CertHost]
    BY <1>3, <1>4 DEF ReadOn, IInv, HandshakeType
  <2>2. \A q \in Req : hs'[q] # "reading" \/ sni'[q] = NoSni => read'[q] = 1
    BY <1>1 DEF ReadOn, IInv, HandshakeType
  <2> QED BY <1>1, <1>6, <2>1, <2>2 DEF IInv, HandshakeType
<1>8. LookupInv'
  <2>1. /\ read'[r] = read[r] + 1 /\ kept'[r] = Since(r) /\ grown'[r] = grown[r]
        /\ gap'[r] = (gap[r] \/ Matching(sni[r]) \cap InStore = {})
        /\ \A q \in Req \ {r} : /\ read'[q] = read[q] /\ kept'[q] = kept[q]
                               /\ gap'[q] = gap[q] /\ grown'[q] = grown[q]
    BY DEF ReadOn, IInv, HandshakeType
  <2>2. /\ kept'[r] \subseteq InStore
        /\ ExactFor(sni[r]) \cap kept'[r] = {}
        /\ read'[r] = 2 /\ ~grown'[r] => ExactFor(sni[r]) \cap InStore = {}
        /\ read'[r] = 3 => Matching(sni[r]) \cap kept'[r] = {} /\ (gap'[r] \/ grown'[r])
    <3>1. CASE read[r] = 1
      <4>1. ExactFor(sni[r]) \cap InStore = {}
        BY <1>3, <3>1, ReadExactNone, SMTT(30) DEF ReadOn, LookupOrder
      <4> QED BY <1>3, <2>1, <3>1, <4>1
    <3>2. CASE read[r] = 2
      <4>1. (Matching(sni[r]) \ ExactFor(sni[r])) \cap InStore = {}
        BY <1>3, <3>2, ReadWildcardNone, SMTT(30) DEF ReadOn, LookupOrder, InStore
      <4>2. /\ ExactFor(sni[r]) \cap kept[r] = {} /\ kept[r] \subseteq InStore
            /\ ~grown[r] => ExactFor(sni[r]) \cap InStore = {}
        BY <3>2 DEF IInv, LookupInv
      <4>3. Since(r) = kept[r]
        BY <3>2 DEF Since
      <4>4. Matching(sni[r]) \cap kept[r] = {}
        BY <4>1, <4>2
      <4>5. ~grown[r] => Matching(sni[r]) \cap InStore = {}
        BY <4>1, <4>2
      <4> QED BY <2>1, <3>2, <4>2, <4>3, <4>4, <4>5, Zenon
    <3> QED BY <1>3, <3>1, <3>2
  <2> SUFFICES ASSUME NEW q \in Req, read'[q] > 1
               PROVE  /\ kept'[q] \subseteq InStore
                      /\ ExactFor(sni[q]) \cap kept'[q] = {}
                      /\ read'[q] = 2 /\ ~grown'[q] => ExactFor(sni[q]) \cap InStore = {}
                      /\ read'[q] = 3 =>
                           Matching(sni[q]) \cap kept'[q] = {} /\ (gap'[q] \/ grown'[q])
    BY <1>1, <1>4, <1>5 DEF LookupInv
  <2>3. CASE q = r
    BY <2>2, <2>3
  <2>4. CASE q # r
    BY <2>1, <2>4 DEF IInv, LookupInv
  <2> QED BY <2>3, <2>4
<1>9. PresentedInv'
  <2>1. \A q \in Req : hs[q] = "open" => kept'[q] = kept[q]
    BY DEF ReadOn, IInv, HandshakeType
  <2> QED BY <1>1, <1>5, <2>1 DEF IInv, PresentedInv, FitsExact, FitsWildcard
<1>10. DefaultInv'
  BY <1>1 DEF IInv, DefaultInv
<1>11. HostInv'
  BY <1>1, HostFrame DEF IInv
<1> QED BY <1>4, <1>7, <1>8, <1>9, <1>10, <1>11 DEF IInv
=============================================================================
