------------------------------ MODULE CertStore ------------------------------
(***************************************************************************)
(* The certificate store (src/server/cert_store.rs): a default, and two    *)
(* maps that JavaScript fills with updateCert and removeCert while the     *)
(* handshakes of worker threads look names up. A certificate stands for    *)
(* what updateCert is given with it: the names the leaf carries, and       *)
(* whether OpenSSL takes the leaf together with the private key, which     *)
(* parse_cert_entry does not try.                                          *)
(***************************************************************************)
EXTENDS HostNames, FiniteSets

CONSTANTS
  CertHost,   \* names JavaScript gives to updateCert and removeCert
  Cert,       \* certificates: [names, usable]
  Lower,      \* label -> the label in lower case
  NoEntry     \* None, for an entry

(* Names are sequences of labels; lower case keeps "*" and empty labels     *)
(* apart from the others.                                                   *)
ASSUME StoreAssumption ==
  /\ Lower \in [DOMAIN Lower -> DOMAIN Lower]
  /\ \A l \in DOMAIN Lower : (Lower[l] = "*" <=> l = "*") /\ (Lower[l] = "" <=> l = "")
  /\ CertHost \subseteq Seq(DOMAIN Lower)
  /\ \A k \in Cert : k.names \subseteq Seq(DOMAIN Lower) /\ k.usable \in BOOLEAN
  /\ NoEntry \notin [cert : Cert, waived : BOOLEAN]

VARIABLES
  default,    \* CertStore.default
  exact,      \* CertStore.exact, lower-case name -> entry or NoEntry
  wildcard    \* CertStore.wildcard, lower-case name without "*." -> same

store == <<default, exact, wildcard>>

(* The name of the default.                                                 *)
Star == <<"*">>

ToLowercase(name) == [i \in DOMAIN name |-> Lower[name[i]]]

Exact == {ToLowercase(h) : h \in {g \in CertHost : g # Star /\ ~IsWildcard(g)}}
Domain == {Tail(ToLowercase(h)) : h \in {g \in CertHost : IsWildcard(g)}}

(* cert_names, verify_cert_matches: some name of the certificate is the     *)
(* host, ignoring case; a wildcard host needs a wildcard name.              *)
VerifyCertMatches(cert, host) == \E n \in cert.names : ToLowercase(n) = ToLowercase(host)

(* An entry, with whether it got in only because the check was waived.      *)
Entry(cert, host, allow) ==
  [cert |-> cert, waived |-> host # Star /\ allow /\ ~VerifyCertMatches(cert, host)]

(* The entry under a name, whatever its layer.                              *)
EntryOf(host) ==
  LET h == ToLowercase(host)
  IN IF host = Star THEN default
     ELSE IF IsWildcard(h) THEN wildcard[Tail(h)] ELSE exact[h]

(* set, for PEM that parses; what it refuses changes nothing.               *)
Set(host, cert, allow) ==
  LET h == ToLowercase(host) e == Entry(cert, host, allow)
  IN IF host = Star THEN default' = e /\ UNCHANGED <<exact, wildcard>>
     ELSE /\ allow \/ VerifyCertMatches(cert, host)
          /\ IF IsWildcard(h)
               THEN /\ Tail(h) # <<"">> /\ "*" \notin {Tail(h)[i] : i \in DOMAIN Tail(h)}
                    /\ wildcard' = [wildcard EXCEPT ![Tail(h)] = e]
                    /\ UNCHANGED <<default, exact>>
               ELSE exact' = [exact EXCEPT ![h] = e] /\ UNCHANGED <<default, wildcard>>

(* remove.                                                                  *)
RemoveCert(host) ==
  LET h == ToLowercase(host)
  IN IF host = Star THEN default' = NoEntry /\ UNCHANGED <<exact, wildcard>>
     ELSE IF IsWildcard(h)
       THEN wildcard' = [wildcard EXCEPT ![Tail(h)] = NoEntry] /\ UNCHANGED <<default, exact>>
       ELSE exact' = [exact EXCEPT ![h] = NoEntry] /\ UNCHANGED <<default, wildcard>>

(* has_default.                                                             *)
HasDefault == default # NoEntry

(* Mutant: wildcards come first.                                            *)
LookupOrderWildcardFirst == <<"wildcard", "exact", "default">>

(* lookup reads the layers one after the other and takes the first entry it *)
(* finds.                                                                   *)
LookupOrder == <<"exact", "wildcard", "default">>

(* exact.get, wildcard.get of the parent domain if there is one, and        *)
(* default.load_full.                                                       *)
Read(name, layer) ==
  LET h == ToLowercase(name)
  IN CASE layer = "exact" -> IF h \in Exact THEN exact[h] ELSE NoEntry
       [] layer = "wildcard" -> IF Len(h) > 1 /\ Tail(h) \in Domain THEN wildcard[Tail(h)] ELSE NoEntry
       [] layer = "default" -> default

StoreInit ==
  /\ default = NoEntry
  /\ exact = [h \in Exact |-> NoEntry]
  /\ wildcard = [d \in Domain |-> NoEntry]
=============================================================================
