------------------------------ MODULE HawkAuth ------------------------------
(***************************************************************************)
(* The Hawk request authentication of src/src/mozilla.org/wmf/hawk.go:    *)
(* the Hawk struct whose fields GenerateSignature fills lazily, the       *)
(* header AsHeader renders, ParseAuthHeader, the payload hash and the     *)
(* port resolution.  A client signs a request, the network may change a   *)
(* field of it, and the server verifies it.                               *)
(*                                                                         *)
(* Data abstraction: a string is a sequence of symbols.  The fixed text   *)
(* of a header or canonical string is spelled out where the code splits  *)
(* or trims it ("Hawk ", quotes, ", ", "=", ";", ":"); a header key, a    *)
(* method, a path segment, a host, a port, a nonce or a timestamp is one  *)
(* symbol, standing for a string with none of those characters.  SHA-256  *)
(* and HMAC-SHA256 are collision free; base64 of a 32-byte digest is one  *)
(* symbol (the digest printed) and its "=" pad.  Nonce and time are fixed.*)
(***************************************************************************)
EXTENDS Naturals, Sequences, SequencesExt, TLC

CONSTANTS Devices,      \* device ids
          Signers,      \* how requests are signed: "AsHeader" (hawk.go) or
                        \* "Client" (a signer following spec 4.1 and 6)
          Secrets,      \* hawk secrets
          SecretOf,     \* the secret the store holds for each device
          Methods,      \* request methods, lower case ("get", "post")
          Paths,        \* req.URL.Path values, sequences of symbols
          Queries,      \* req.URL.RawQuery values
          HostHeaders,  \* req.Host values
          CTypes,       \* Content-Type header values
          Bodies,       \* request bodies
          Extras,       \* the ext string the signer passes
          TamperFields, \* request fields the network may change
          OverridePort, \* the "override_port" config flag
          None

ASSUME /\ TamperFields \subseteq {"method", "path", "query", "body", "ct"}
       /\ Signers \subseteq {"AsHeader", "Client"}

VARIABLES msg,   \* the signed request in flight, or None
          last   \* history: what the verification of the last request saw
                 \* and decided, None until it is verified

vars == <<msg, last>>

Q == "\""          \* a double quote
NL == "<LF>"       \* a newline
BS == "<BSL>"      \* a backslash
Empty == <<>>

Upper == [get |-> "GET", post |-> "POST"]
Lower == [H |-> "h"]

\* strings.ToUpper and strings.ToLower on the symbols used here.
ToUpper(s) == [i \in DOMAIN s |-> IF s[i] \in DOMAIN Upper THEN Upper[s[i]] ELSE s[i]]
ToLower(s) == [i \in DOMAIN s |-> IF s[i] \in DOMAIN Lower THEN Lower[s[i]] ELSE s[i]]

\* The first index at which sep occurs in s, 0 if it does not.
IndexOf(s, sep) ==
    LET at == {i \in 1..(Len(s) + 1 - Len(sep)) : SubSeq(s, i, i + Len(sep) - 1) = sep}
    IN IF at = {} THEN 0 ELSE CHOOSE i \in at : \A j \in at : i <= j

(* strings.Split(s, sep) for a non-empty sep. *)
RECURSIVE SplitOn(_, _)
SplitOn(s, sep) ==
    LET i == IndexOf(s, sep) IN
    IF i = 0 THEN <<s>>
    ELSE <<SubSeq(s, 1, i - 1)>> \o SplitOn(SubSeq(s, i + Len(sep), Len(s)), sep)

(* strings.SplitN(s, sep, 2) *)
SplitN2(s, sep) ==
    LET i == IndexOf(s, sep) IN
    IF i = 0 THEN <<s>> ELSE <<SubSeq(s, 1, i - 1), SubSeq(s, i + Len(sep), Len(s))>>

(* strings.TrimRight(s, cut) and strings.Trim(s, cut) *)
RECURSIVE TrimRight(_, _)
TrimRight(s, cut) == IF s # Empty /\ Last(s) \in cut THEN TrimRight(Front(s), cut) ELSE s

RECURSIVE TrimLeft(_, _)
TrimLeft(s, cut) == IF s # Empty /\ Head(s) \in cut THEN TrimLeft(Tail(s), cut) ELSE s

Trim(s, cut) == TrimRight(TrimLeft(s, cut), cut)

(* strings.Replace(s, <<c>>, r, -1) for a one-symbol pattern *)
ReplaceSym(s, c, r) == FlattenSeq([i \in DOMAIN s |-> IF s[i] = c THEN r ELSE <<s[i]>>])

Sha256(s) == [sha256 |-> s]
HmacSha256(key, s) == [hmac |-> key, of |-> s]
Base64(digest) == <<ToString(digest), "=">>

\* Nonce and timestamp a signer fills in (GenNonce(6), time.Now()).
FreshNonce == <<"nonce1">>
FreshTime == <<"ts1">>

Request == [method : Methods, path : Paths, query : Queries, frag : {Empty},
            host : HostHeaders, scheme : {"http", "https"}, ct : CTypes, body : Bodies]

HawkFields == {"Id", "Time", "Nonce", "Method", "Path", "Host", "Port",
               "Extra", "Hash", "Signature"}

NewHawk == [f \in HawkFields |-> Empty]
(***************************************************************************)
(* Faulty variants of definitions below, each a slip the code could make.  *)
(***************************************************************************)
getHostPortIgnoringOverride(req, override) ==
    LET el == SplitOn(req.host, <<":">>)
        port == IF Len(el) = 2 THEN el[2] ELSE Empty
    IN [host |-> el[1],
        port |-> IF port = Empty THEN IF req.scheme = "https" THEN <<"443">> ELSE <<"80">>
                 ELSE port]

genHashEscapeSwapped(req, body) ==
    LET ct0 == IF req.ct = Empty THEN <<"text/plain">> ELSE req.ct
        nbody == ReplaceSym(ReplaceSym(body, NL, <<BS, "n">>), BS, <<BS, BS>>)
    IN Base64(Sha256(<<"hawk.1.payload", NL>> \o SplitOn(ct0, <<";">>)[1]
                     \o <<NL>> \o nbody \o <<NL>>))

CanonicalHostAsIs(h, extra) ==
    <<"hawk.1.header", NL>> \o h.Time \o <<NL>> \o h.Nonce \o <<NL>>
      \o ToUpper(h.Method) \o <<NL>> \o h.Path \o <<NL>> \o h.Host \o <<NL>>
      \o h.Port \o <<NL>> \o h.Hash \o <<NL>> \o extra \o <<NL>>

getFullPathNoQuery(req) ==
    req.path \o (IF req.frag # Empty THEN <<"#">> \o req.frag ELSE Empty)

(* getFullPath: path, then "?" query, then "#" fragment when non-empty *)
getFullPath(req) ==
    req.path \o (IF req.query # Empty THEN <<"?">> \o req.query ELSE Empty)
             \o (IF req.frag # Empty THEN <<"#">> \o req.frag ELSE Empty)

(* getHostPort: split req.Host on ":"; no port, or override_port, gives  *)
(* the scheme's default                                                  *)
getHostPort(req, override) ==
    LET el == SplitOn(req.host, <<":">>)
        port == IF Len(el) = 2 THEN el[2] ELSE Empty
    IN [host |-> el[1],
        port |-> IF port = Empty \/ override
                 THEN IF req.scheme = "https" THEN <<"443">> ELSE <<"80">>
                 ELSE port]

(* genHash: hawk.1.payload over the media type and the escaped body *)
genHash(req, body) ==
    LET ct0 == IF req.ct = Empty THEN <<"text/plain">> ELSE req.ct
        nbody == ReplaceSym(ReplaceSym(body, BS, <<BS, BS>>), NL, <<BS, "n">>)
    IN Base64(Sha256(<<"hawk.1.payload", NL>> \o SplitOn(ct0, <<";">>)[1]
                     \o <<NL>> \o nbody \o <<NL>>))

(* The marshalStr of GenerateSignature *)
Canonical(h, extra) ==
    <<"hawk.1.header", NL>> \o h.Time \o <<NL>> \o h.Nonce \o <<NL>>
      \o ToUpper(h.Method) \o <<NL>> \o h.Path \o <<NL>> \o ToLower(h.Host) \o <<NL>>
      \o h.Port \o <<NL>> \o h.Hash \o <<NL>> \o extra \o <<NL>>

\* A field GenerateSignature fills only while it is empty.
Lazy(v, default) == IF v = Empty THEN default ELSE v

(***************************************************************************)
(* GenerateSignature: fill the empty fields from the request (path, host *)
(* and port, nonce, time, method, payload hash), then sign the canonical *)
(* string with the secret.  Extra is used but not stored.                 *)
(***************************************************************************)
GenerateSignature(h, req, extra, body, secret) ==
    LET hp == getHostPort(req, OverridePort)
        g == [h EXCEPT !.Path = Lazy(@, getFullPath(req)),
                       !.Host = Lazy(@, hp.host),
                       !.Port = IF h.Host = Empty THEN hp.port ELSE @,
                       !.Nonce = Lazy(@, FreshNonce),
                       !.Time = Lazy(@, FreshTime),
                       !.Method = Lazy(@, ToUpper(<<req.method>>)),
                       !.Hash = Lazy(@, genHash(req, body))]
    IN [g EXCEPT !.Signature = Base64(HmacSha256(secret, Canonical(g, extra)))]

(* AsHeader: sign if not yet signed, then render the header. *)
AsHeader(h, req, id, body, extra, secret) ==
    LET g == IF h.Signature = Empty THEN GenerateSignature(h, req, extra, body, secret) ELSE h
    IN <<"H", "a", "w", "k", " ", "id", "=", Q>> \o id
         \o <<Q, ",", " ", "ts", "=", Q>> \o g.Time
         \o <<Q, ",", " ", "nonce", "=", Q>> \o g.Nonce
         \o <<Q, " ", "ext", "=", Q>> \o g.Extra
         \o <<Q, ",", " ", "hash", "=", Q>> \o g.Hash
         \o <<Q, " ", "mac", "=", Q>> \o g.Signature \o <<Q>>

\* The Hawk field each header key sets in ParseAuthHeader.
KeyField == [id |-> "Id", ts |-> "Time", nonce |-> "Nonce", ext |-> "Extra",
             hash |-> "Hash", mac |-> "Signature"]

(* One element of the header: split at the first "=", trim the quotes. *)
ParseElement(h, element) ==
    LET kv == SplitN2(element, <<"=">>)
        key == ToLower(kv[1])
    IN IF Len(kv) < 2 \/ Len(key) # 1 \/ key[1] \notin DOMAIN KeyField THEN h
       ELSE [h EXCEPT ![KeyField[key[1]]] = Trim(kv[2], {Q})]

(***************************************************************************)
(* ParseAuthHeader: no header is ErrNoAuth, a scheme other than "hawk" is *)
(* ErrNotHawkAuth (auth[:4] and auth[5:] panic on a short header); the  *)
(* rest after "Hawk " is split on ", " and read pair by pair, and path,  *)
(* host and port are taken from the request.                              *)
(***************************************************************************)
ParseAuthHeader(h, req, auth) ==
    IF auth = Empty THEN [err |-> "ErrNoAuth", h |-> h]
    ELSE IF Len(auth) < 4 THEN [err |-> "panic", h |-> h]
    ELSE IF ToLower(SubSeq(auth, 1, 4)) # <<"h", "a", "w", "k">>
         THEN [err |-> "ErrNotHawkAuth", h |-> h]
    ELSE IF Len(auth) < 5 THEN [err |-> "panic", h |-> h]
    ELSE LET g == FoldLeft(ParseElement, h, SplitOn(SubSeq(auth, 6, Len(auth)), <<",", " ">>))
             hp == getHostPort(req, OverridePort)
         IN [err |-> "none",
             h |-> [g EXCEPT !.Path = getFullPath(req), !.Host = hp.host, !.Port = hp.port]]

(* Compare: the two signatures with trailing "=" stripped *)
Compare(h, sig) == TrimRight(sig, {"="}) = TrimRight(h.Signature, {"="})

-----------------------------------------------------------------------------
(***************************************************************************)
(* The other side of the protocol, whose code is not in this repository: *)
(* a client signing per spec 4.1 and 6, and the verification of spec 4.2 *)
(* that calls ParseAuthHeader, GenerateSignature and Compare.             *)
(***************************************************************************)
\* The media type: the Content-Type up to its first ";" (text/plain if none).
MediaType(ct) ==
    IF ct = Empty THEN <<"text/plain">>
    ELSE LET semi == {i \in DOMAIN ct : ct[i] = ";"}
         IN IF semi = {} THEN ct
            ELSE SubSeq(ct, 1, (CHOOSE i \in semi : \A j \in semi : i <= j) - 1)

\* Escape a body: "\" becomes "\\" and a newline becomes "\n".
Escaped(body) == FlattenSeq([i \in DOMAIN body |->
                    CASE body[i] = BS -> <<BS, BS>>
                      [] body[i] = NL -> <<BS, "n">>
                      [] OTHER -> <<body[i]>>])

SpecPayloadHash(req) ==
    Base64(Sha256(<<"hawk.1.payload", NL>> \o MediaType(req.ct) \o <<NL>>
                  \o Escaped(req.body) \o <<NL>>))

\* The host of spec 4.1, split at its first ":" (no IPv6 literals here).
Colon(req) == IndexOf(req.host, <<":">>)

SpecHost(req) ==
    ToLower(IF Colon(req) = 0 THEN req.host ELSE SubSeq(req.host, 1, Colon(req) - 1))

\* The port of spec 4.1: the explicit one, else (or when overridden) the default.
SpecPort(req, override) ==
    LET explicit == IF Colon(req) = 0 THEN Empty
                    ELSE SubSeq(req.host, Colon(req) + 1, Len(req.host))
    IN IF explicit = Empty \/ override
       THEN IF req.scheme = "https" THEN <<"443">> ELSE <<"80">>
       ELSE explicit

\* The header fields a spec 4.1 signer sends for req.
ClientFields(d, secret, req, extra) ==
    LET hash == SpecPayloadHash(req)
        canon == <<"hawk.1.header", NL>> \o FreshTime \o <<NL>> \o FreshNonce \o <<NL>>
                   \o ToUpper(<<req.method>>) \o <<NL>> \o getFullPath(req) \o <<NL>>
                   \o SpecHost(req) \o <<NL>> \o SpecPort(req, OverridePort) \o <<NL>>
                   \o hash \o <<NL>> \o extra \o <<NL>>
    IN [Id |-> <<d>>, Time |-> FreshTime, Nonce |-> FreshNonce, Extra |-> extra,
        Hash |-> hash, Signature |-> Base64(HmacSha256(secret, canon))]

\* The header of spec 6: key="value" pairs joined by ", ".
ClientHeader(f) ==
    <<"H", "a", "w", "k", " ", "id", "=", Q>> \o f.Id
      \o <<Q, ",", " ", "ts", "=", Q>> \o f.Time
      \o <<Q, ",", " ", "nonce", "=", Q>> \o f.Nonce
      \o <<Q, ",", " ", "ext", "=", Q>> \o f.Extra
      \o <<Q, ",", " ", "hash", "=", Q>> \o f.Hash
      \o <<Q, ",", " ", "mac", "=", Q>> \o f.Signature \o <<Q>>

(***************************************************************************)
(* Verification: parse the header, keep the claimed mac, recompute the   *)
(* signature with the stored secret of the claimed id and the claimed    *)
(* ext, and compare.                                                      *)
(***************************************************************************)
Verify(req, auth) ==
    LET p == ParseAuthHeader(NewHawk, req, auth)
        id == p.h.Id
    IN IF p.err # "none" \/ Len(id) # 1 \/ id[1] \notin Devices
       THEN [ok |-> FALSE, parsed |-> p.h]
       ELSE LET g == GenerateSignature(p.h, req, p.h.Extra, req.body, SecretOf[id[1]])
            IN [ok |-> Compare(g, p.h.Signature), parsed |-> p.h]


-----------------------------------------------------------------------------
(* The Authorization header a signer of each kind sends. *)
Header(via, d, secret, req, extra) ==
    IF via = "AsHeader" THEN AsHeader(NewHawk, req, <<d>>, req.body, extra, secret)
    ELSE ClientHeader(ClientFields(d, secret, req, extra))



Init == /\ msg = None
        /\ last = None

(* Device d signs req with secret (its own or another) and sends it. *)
Sign(d, secret, req, via, extra) ==
    /\ msg = None
    /\ msg' = [req |-> req, auth |-> Header(via, d, secret, req, extra), dev |-> d,
               secret |-> secret, signed |-> req, tampered |-> FALSE]
    /\ last' = None

\* The values the network may put in each field.
Values == [method |-> Methods, path |-> Paths, query |-> Queries,
           body |-> Bodies, ct |-> CTypes]

(* The network changes one field of the request in flight, once. *)
Tamper(f, v) ==
    /\ msg # None
    /\ ~msg.tampered
    /\ v # msg.req[f]
    /\ msg' = [msg EXCEPT !.req[f] = v, !.tampered = TRUE]
    /\ UNCHANGED last

(* The server verifies the request it received; the outcome is recorded. *)
Receive ==
    /\ msg # None
    /\ last' = [sent |-> msg.signed, got |-> msg.req,
                secretOK |-> msg.secret = SecretOf[msg.dev],
                ok |-> Verify(msg.req, msg.auth).ok]
    /\ msg' = None

Next == \/ \E d \in Devices, s \in Secrets, r \in Request, via \in Signers, e \in Extras :
              Sign(d, s, r, via, e)
        \/ \E f \in TamperFields : \E v \in Values[f] : Tamper(f, v)
        \/ Receive

Spec == Init /\ [][Next]_vars

-----------------------------------------------------------------------------
(***************************************************************************)
(* A request the device signed with its stored secret and that arrived   *)
(* unchanged is accepted: the header the signer renders parses back into *)
(* the fields it signed, and the server's canonical string (path, host   *)
(* and port from the live request, the rest from the header) is the      *)
(* signer's.  Concerns AsHeader, ParseAuthHeader, getHostPort and the    *)
(* marshalStr of GenerateSignature.                                       *)
(***************************************************************************)
SignedVerifies == last # None /\ last.got = last.sent /\ last.secretOK => last.ok

(***************************************************************************)
(* An accepted request is the one the device signed, with the secret the *)
(* store holds for it: a changed method, path, query, body or content    *)
(* type, or a wrong secret, is refused.  Concerns the lazily filled      *)
(* fields of GenerateSignature as the verifier uses it, and Compare.     *)
(***************************************************************************)
Authentic == last # None /\ last.ok => last.got = last.sent /\ last.secretOK

\* The request in flight as it now reads, if any.
InFlight == IF msg = None THEN {} ELSE {msg.req}

\* Bodies and content types over which the payload hash is checked: short
\* bodies of backslashes, newlines and "n", and the request in flight.
HashBodies == BoundedSeq({"n", BS, NL}, 2)
HashCTypes == {Empty, <<"text/plain">>, <<"json", ";", "cs">>}
HashInputs == [ct : HashCTypes, body : HashBodies]
                \cup {[ct |-> r.ct, body |-> r.body] : r \in InFlight}

(***************************************************************************)
(* The payload hash of genHash binds exactly the media type and the body: *)
(* two requests get the same hash iff their Content-Types agree up to the *)
(* first ";" (none being text/plain) and their bodies are equal.  The     *)
(* backslash and newline escaping must keep distinct bodies apart.       *)
(***************************************************************************)
PayloadHashBinds ==
    LET hash == [a \in HashInputs |-> genHash(a, a.body)] IN
    \A a, b \in HashInputs :
        (hash[a] = hash[b])
            <=> (MediaType(a.ct) = MediaType(b.ct) /\ a.body = b.body)

\* Host headers and schemes over which port resolution is checked, and
\* the request in flight.
PortInputs == [host : {<<"h">>, <<"H", ":", "8">>, <<"h", ":">>, <<"h", ":", "443">>},
               scheme : {"http", "https"}]
                \cup {[host |-> r.host, scheme |-> r.scheme] : r \in InFlight}

(***************************************************************************)
(* getHostPort resolves host and port as spec 4.1 says: the host up to   *)
(* the ":", the explicit port unless override_port is set, the scheme's  *)
(* default otherwise, including for a Host header ending in ":".         *)
(***************************************************************************)
PortResolved ==
    \A r \in PortInputs, o \in BOOLEAN :
        /\ getHostPort(r, o).port = SpecPort(r, o)
        /\ ToLower(getHostPort(r, o).host) = SpecHost(r)

=============================================================================
