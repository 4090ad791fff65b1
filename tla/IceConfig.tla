----------------------------- MODULE IceConfig -----------------------------
(***************************************************************************)
(* One call of _initialize: the ICE servers of its configuration are       *)
(* parsed, one URL at a time, and handed to Pion as C strings.             *)
(*   A URL is a record.  "scheme" is what stands before its first colon    *)
(* ("" if nothing does); then come the characters of "slashes",            *)
(* "userinfo", "name", "service" and "after", in this order, which the     *)
(* code sees as one text; "transports" are those that its query names.     *)
(* What the URL is meant to name is there for the properties: "host",      *)
(* whether it is an IPv6 "literal", and "port" (a number, NoPort or        *)
(* BadPort).                                                               *)
(*   A server is a record: "kind" of the array's element and of its        *)
(* "urls", the URLs, and the credentials.                                  *)
(***************************************************************************)
EXTENDS Integers, Sequences, FiniteSets, SequencesExt, UrlDecode

CONSTANTS
  Configs,      \* the arrays of servers passed in
  NoPort,       \* the URL names no port
  BadPort,      \* the port is no number
  MaxULong,     \* the largest unsigned long
  ShortString,  \* how many characters a string keeps in itself
  Grow(_)       \* the capacity of a full vector of a given size after push_back

PortNumbers == 0 .. 65535

ASSUME PortAssumption ==
  /\ NoPort \notin Nat /\ BadPort \notin Nat /\ NoPort # BadPort
  /\ MaxULong \in Nat /\ PortNumbers \subseteq 0 .. MaxULong

Strings == Seq(0 .. 255)

Urls ==
  [scheme : STRING, slashes : Strings, userinfo : Strings, name : Strings,
   service : Strings, after : Strings, transports : SUBSET {"udp", "tcp", "tls"},
   host : Strings, literal : BOOLEAN, port : Int]

Servers ==
  [kind : {"urls", "no urls", "other"}, urls : Seq(Urls), username : STRING,
   credential : STRING]

ASSUME ConfigsAssumption == Configs \subseteq Seq(Servers)

VARIABLES
  servers,      \* the argument
  next,         \* the server and the URL that are parsed next
  iceServers,   \* r_config.iceServers
  server_urls,  \* the vector of strings: its block of memory, capacity, items
  hostnames,    \* the pointers taken so far: block and position of the string
  told,         \* what Pion reads, once it is asked for a connection
  result        \* "none" until the call ends

vars == <<servers, next, iceServers, server_urls, hostnames, told, result>>

Init ==
  /\ servers \in Configs
  /\ next = <<1, 1>>
  /\ iceServers = <<>>
  /\ server_urls = [block |-> 0, capacity |-> 0, items |-> <<>>]
  /\ hostnames = <<>>
  /\ told = <<>>
  /\ result = "none"

-----------------------------------------------------------------------------
(* parse_url: the groups of the regular expression *)

HASH == 35      \* '#'
DOT == 46       \* '.'
SLASH == 47     \* '/'
COLON == 58     \* ':'
QUERY == 63     \* '?'
AT == 64        \* '@'
OPEN == 91      \* '['
CLOSE == 93     \* ']'

\* What the code is given after the scheme and its colon.
Text(u) == u.slashes \o (u.userinfo \o (u.name \o (u.service \o u.after)))

\* The first place of a text with one of "stops", or the place after its end.
First(text, stops) == Min({Len(text) + 1} \cup {i \in DOMAIN text : text[i] \in stops})

Until(text, stops) == SubSeq(text, 1, First(text, stops) - 1)
From(text, i) == SubSeq(text, i, Len(text))

\* Up to two slashes are skipped,
AfterSlashes(text) ==
  IF Len(text) > 0 /\ text[1] = SLASH
    THEN IF Len(text) > 1 /\ text[2] = SLASH THEN From(text, 3) ELSE From(text, 2)
    ELSE text

\* then, wherever it is, what comes before an '@'.
Authority(text) ==
  LET rest == AfterSlashes(text)
      at == First(rest, {AT})
  IN  IF at <= Len(rest) THEN From(rest, at + 1) ELSE rest

\* Group 10: the host ends at a port, a path, a query or a fragment.
HostEnds == {COLON, SLASH, QUERY, HASH}
Host(text) == Until(Authority(text), HostEnds)

\* Group 12: after a colon, up to a path, a query or a fragment.
Service(text) ==
  LET after == From(Authority(text), Len(Host(text)) + 1)
  IN  IF after # <<>> /\ after[1] = COLON THEN Until(From(after, 2), {SLASH, QUERY, HASH})
      ELSE <<>>

\* Group 2 takes what comes before a colon for a scheme, if it can be one.  (No
\* host is called as a scheme that the code knows.)
HostTakenForScheme(u) ==
  LET colon == First(Text(u), {COLON})
  IN  /\ u.scheme = "" /\ colon \in 2 .. Len(Text(u))
      /\ \A i \in 1 .. colon - 1 : Text(u)[i] \notin {DOT, AT, SLASH, QUERY, HASH}

(* IceServer::IceServer(url) *)

\* std::stoul: the digits a service begins with.  It would take spaces and a
\* sign before them, which no service here has.
SpacesAndSigns == (9 .. 13) \cup {32, 43, 45}
Stoul(service) ==
  LET value[n \in 0 .. Len(service)] ==
        IF n = 0 THEN 0
        ELSE IF \A k \in 1 .. n : IsDigit(service[k])
          THEN 10 * value[n - 1] + service[n] - 48
          ELSE value[n - 1]
  IN  value[Len(service)]

IsTurn(u) == u.scheme \in {"turn", "TURN", "turns", "TURNS"}
IsTurns(u) == u.scheme \in {"turns", "TURNS"}

\* It throws: no host, a scheme it does not know, a service that does not begin
\* with a number, or with one that is too large.
Throws(u) ==
  LET service == Service(Text(u))
  IN  \/ Host(Text(u)) = <<>>
      \/ ~IsTurn(u) /\ u.scheme \notin {"", "stun", "STUN"}
      \/ HostTakenForScheme(u)
      \/ service # <<>> /\ (~IsDigit(service[1]) \/ Stoul(service) > MaxULong)

\* A URL whose parts are what they are called: slashes, and no more of them;
\* the user; the host, a name or an IPv4 address, as RFC 3986 encodes it or as
\* it is where nothing of it looks like an escape, and not in brackets; the port
\* after its colon; and the path, the query and the fragment.
Names(u) ==
  /\ u.slashes \in {<<>>, <<SLASH>>, <<SLASH, SLASH>>}
  /\ LET rest == u.userinfo \o (u.name \o (u.service \o u.after))
     IN  rest # <<>> => rest[1] # SLASH
  /\ u.userinfo # <<>> => First(u.userinfo, {AT}) = Len(u.userinfo)
  /\ \A i \in DOMAIN u.name : u.name[i] \notin HostEnds \cup {AT}
  /\ \/ \E escaped \in SUBSET (DOMAIN u.host) : u.name = Encoded(u.host, escaped)
     \/ u.name = u.host /\ \A i \in DOMAIN u.name : ~EscapeAt(u.name, i)
  /\ u.name # <<>> => ~(Head(u.name) = OPEN /\ Last(u.name) = CLOSE)
  /\ u.service # <<>> => u.service[1] = COLON
  /\ \A i \in DOMAIN u.service : u.service[i] \notin {SLASH, QUERY, HASH, AT} \cup SpacesAndSigns
  /\ IF Len(u.service) <= 1 THEN u.port = NoPort
     ELSE \/ /\ \A i \in 2 .. Len(u.service) : IsDigit(u.service[i])
             /\ u.port \in Nat /\ u.port = Stoul(From(u.service, 2))
          \/ u.port = BadPort
  /\ u.after # <<>> => u.after[1] \in {SLASH, QUERY, HASH}
  /\ \A i \in DOMAIN u.after : u.after[i] # AT
  /\ u.transports # {} => QUERY \in Range(u.after)

ASSUME TextAssumption ==
  \A config \in Configs : \A s \in DOMAIN config : \A n \in DOMAIN config[s].urls :
    LET u == config[s].urls[n] IN u.literal \/ Names(u)

\* Brackets are taken off a host, and nothing in them is decoded.
Hostname(u) ==
  LET host == Host(Text(u))
  IN  IF Head(host) = OPEN /\ Last(host) = CLOSE THEN SubSeq(host, 2, Len(host) - 1)
      ELSE url_decode(host)

\* The last of the query's transports in the order in which they are looked
\* for; TLS if there is none and the scheme is turns.
RelayType(u) ==
  IF "tls" \in u.transports THEN "tls"
  ELSE IF "tcp" \in u.transports THEN "tcp"
  ELSE IF "udp" \in u.transports \/ ~IsTurns(u) THEN "udp"
  ELSE "tls"

Port(u) ==
  IF Service(Text(u)) # <<>> THEN Stoul(Service(Text(u))) % 65536
  ELSE IF RelayType(u) = "tls" THEN 5349 ELSE 3478

\* The credentials are the server's, those in the URL are overwritten.
IceServer(u, server) ==
  [type |-> IF IsTurn(u) THEN "turn" ELSE "stun",
   hostname |-> Hostname(u), port |-> Port(u), relayType |-> RelayType(u),
   username |-> server.username, password |-> server.credential]

-----------------------------------------------------------------------------
Parsing == result = "none" /\ next[1] <= Len(servers)

\* The element is no dictionary.
NotADictionary ==
  /\ Parsing /\ servers[next[1]].kind = "other"
  /\ result' = "ERR_INVALID_PARAMETER"
  /\ UNCHANGED <<servers, next, iceServers, server_urls, hostnames, told>>

\* It has no "urls", or they are neither a string nor an array.
NoUrls ==
  /\ Parsing /\ servers[next[1]].kind = "no urls"
  /\ result' = "FAILED"
  /\ UNCHANGED <<servers, next, iceServers, server_urls, hostnames, told>>

\* The constructor throws, and so does _initialize.
UrlThrows ==
  /\ Parsing /\ servers[next[1]].kind = "urls" /\ next[2] <= Len(servers[next[1]].urls)
  /\ Throws(servers[next[1]].urls[next[2]])
  /\ result' = "exception"
  /\ UNCHANGED <<servers, next, iceServers, server_urls, hostnames, told>>

\* Seeded fault: a server's later URLs take the place of its first.
ParseUrlOverwrites ==
  /\ Parsing /\ servers[next[1]].kind = "urls" /\ next[2] <= Len(servers[next[1]].urls)
  /\ LET u == servers[next[1]].urls[next[2]]
         front == IF next[2] = 1 THEN iceServers ELSE SubSeq(iceServers, 1, Len(iceServers) - 1)
     IN  ~Throws(u) /\ iceServers' = Append(front, IceServer(u, servers[next[1]]))
  /\ next' = <<next[1], next[2] + 1>>
  /\ UNCHANGED <<servers, server_urls, hostnames, told, result>>

ParseUrl ==
  /\ Parsing /\ servers[next[1]].kind = "urls" /\ next[2] <= Len(servers[next[1]].urls)
  /\ LET u == servers[next[1]].urls[next[2]]
     IN  ~Throws(u) /\ iceServers' = Append(iceServers, IceServer(u, servers[next[1]]))
  /\ next' = <<next[1], next[2] + 1>>
  /\ UNCHANGED <<servers, server_urls, hostnames, told, result>>

NextServer ==
  /\ Parsing /\ servers[next[1]].kind = "urls" /\ next[2] > Len(servers[next[1]].urls)
  /\ next' = <<next[1] + 1, 1>>
  /\ UNCHANGED <<servers, iceServers, server_urls, hostnames, told, result>>

-----------------------------------------------------------------------------
(* _create_pc *)

Creating == result = "none" /\ next[1] > Len(servers)

\* The URL made of a parsed one.
Url(s) ==
  [scheme |-> s.type, host |-> s.hostname, port |-> s.port, transport |-> s.relayType]

Blank == [scheme |-> "", host |-> <<>>, port |-> 0, transport |-> ""]

\* Whether a string has room for a URL, "stun:" and "?transport=udp" included,
\* in itself.  (Of the known libraries' strings, one has room for 22 characters.)
Digits(port) == 1 + Cardinality({k \in {10, 100, 1000, 10000} : port >= k})
Fits(url) == url = Blank \/ 5 + Len(url.host) + 1 + Digits(url.port) + 14 <= ShortString

\* Seeded fault: the vector is not resized.
SizeVectorsNot ==
  /\ Creating /\ server_urls.block = 0 /\ iceServers # <<>>
  /\ server_urls' = [block |-> 1, capacity |-> 0, items |-> <<>>]
  /\ UNCHANGED <<servers, next, iceServers, hostnames, told, result>>

\* server_urls.resize(): as many empty strings as there will be URLs.
SizeVectors ==
  /\ Creating /\ server_urls.block = 0 /\ iceServers # <<>>
  /\ server_urls' = [block |-> 1, capacity |-> Len(iceServers),
                     items |-> [s \in 1 .. Len(iceServers) |-> Blank]]
  /\ UNCHANGED <<servers, next, iceServers, hostnames, told, result>>

\* push_back the next URL, and keep a pointer to its characters.  A full
\* vector moves to another block.
PushUrl ==
  /\ Creating /\ server_urls.block > 0 /\ Len(hostnames) < Len(iceServers)
  /\ LET size == Len(server_urls.items)
         moves == size = server_urls.capacity
     IN  server_urls' =
           [block |-> server_urls.block + (IF moves THEN 1 ELSE 0),
            capacity |-> IF moves THEN Grow(size) ELSE server_urls.capacity,
            items |-> Append(server_urls.items, Url(iceServers[Len(hostnames) + 1]))]
  /\ hostnames' = Append(hostnames, [block |-> server_urls'.block,
                                     index |-> Len(server_urls'.items)])
  /\ UNCHANGED <<servers, next, iceServers, told, result>>

\* What a pointer taken into the vector points to now.  The characters of a
\* longer string stay where they are when the string moves.
Dangling(p) == Fits(server_urls.items[p.index]) /\ p.block # server_urls.block
Pointee(p) == IF Dangling(p) THEN Blank ELSE server_urls.items[p.index]

\* A C string ends at its first 0, which a host may have from an escape.
CString(url) ==
  IF 0 \in Range(url.host)
    THEN [url EXCEPT !.host = Until(@, {0}), !.port = NoPort, !.transport = ""]
    ELSE url

\* pionCreatePeerConnection, which may fail.
CreatePeerConnection ==
  /\ Creating /\ Len(hostnames) = Len(iceServers)
  /\ told' = [s \in DOMAIN hostnames |->
               [url |-> CString(Pointee(hostnames[s])), username |-> iceServers[s].username,
                credential |-> iceServers[s].password]]
  /\ result' \in {"OK", "FAILED"}
  /\ UNCHANGED <<servers, next, iceServers, server_urls, hostnames>>

Next ==
  \/ NotADictionary \/ NoUrls \/ UrlThrows \/ ParseUrl \/ NextServer
  \/ SizeVectors \/ PushUrl \/ CreatePeerConnection

Spec == Init /\ [][Next]_vars

-----------------------------------------------------------------------------
\* All URLs of the configuration in order, with the server each is of.
AllUrls ==
  FlattenSeq([s \in DOMAIN servers |->
               [n \in DOMAIN servers[s].urls |->
                 [url |-> servers[s].urls[n], server |-> servers[s]]]])

\* No pointer handed to Pion dangles, although the strings are collected in a
\* vector that grows while they are.
PointersAlive ==
  told # <<>> => \A p \in {hostnames[s] : s \in DOMAIN hostnames} : ~Dangling(p)

\* A URL whose host a C string can hold, with a port that is one, or none.
Plain(u) ==
  ~u.literal /\ 0 \notin Range(u.host) /\ (u.port = NoPort \/ u.port \in PortNumbers)

\* What Pion is to be told of such a URL: its host, its port or the one that is
\* usual for the transport, and a transport it names or the one of its scheme.
ToldOf(url, u) ==
  /\ url.host = u.host
  /\ url.transport \in (IF u.transports # {} THEN u.transports
                        ELSE IF IsTurns(u) THEN {"tls"} ELSE {"udp"})
  /\ url.port = (IF u.port # NoPort THEN u.port
                 ELSE IF url.transport = "tls" THEN 5349 ELSE 3478)

\* Pion is told of each configured URL, in order, with its scheme, host, port
\* and transport, under the credentials of its own server; of none if any server
\* or URL of the configuration is refused.
ToldAsConfigured ==
  told # <<>> =>
    /\ Len(told) = Len(AllUrls)
    /\ \A n \in DOMAIN told :
         LET c == AllUrls[n]
         IN  /\ ~Throws(c.url)
             /\ told[n].username = c.server.username
             /\ told[n].credential = c.server.credential
             /\ told[n].url.scheme = (IF IsTurn(c.url) THEN "turn" ELSE "stun")
             /\ Plain(c.url) => ToldOf(told[n].url, c.url)
    /\ \A s \in DOMAIN servers : servers[s].kind = "urls"

\* A URL with a scheme, a host and a port that is one, or none.
WellFormed(u) ==
  /\ IsTurn(u) \/ u.scheme \in {"stun", "STUN"}
  /\ u.host # <<>>
  /\ u.port = NoPort \/ u.port \in PortNumbers

\* A well-formed URL of such a host is not refused, and the host that comes of
\* it is the one it names: whatever characters of the name were escaped, '%'
\* and digits that look like the rest of an escape among them, and with a '%'
\* that begins no escape in it, at the end in particular; and whatever stands
\* around it, a user, a port, a path, a query.
HostTaken(literal) ==
  /\ result = "exception" =>
       LET u == servers[next[1]].urls[next[2]] IN u.literal # literal \/ ~WellFormed(u)
  /\ \A n \in DOMAIN iceServers :
       AllUrls[n].url.literal = literal => iceServers[n].hostname = AllUrls[n].url.host

\* It is so for a host that is a name or an IPv4 address.
NamesTaken == HostTaken(FALSE)

\* It is so for an IPv6 address in brackets: "IPv6 literal"
\* (WebRTCLibPeerConnection.cpp:260).
IPv6LiteralsTaken == HostTaken(TRUE)

\* A port that is not one is refused: "Invalid ICE server port in URL"
\* (WebRTCLibPeerConnection.cpp:276).
PortsAsConfigured ==
  told # <<>> =>
    \A n \in DOMAIN told :
      LET u == AllUrls[n].url
      IN  u.port # NoPort /\ 0 \notin Range(u.host) => told[n].url.port = u.port
=============================================================================
