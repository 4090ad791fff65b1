---------------------------- MODULE MCIceConfig ----------------------------
(***************************************************************************)
(* IceConfig on arrays of up to three servers with up to five URLs, on one *)
(* URL of every short host, and on one URL of an IPv6 address.             *)
(***************************************************************************)
EXTENDS IceConfig

CONSTANTS
  Ports,        \* ports that URLs name, besides none and no number
  Literals      \* whether there are URLs of IPv6 addresses

Double(n) == IF n = 0 THEN 1 ELSE 2 * n

MCNoPort == -1
MCBadPort == -2

\* The digits of a number from 1 on.
Decimal(number) ==
  LET digits[n \in 0 .. number] == IF n = 0 THEN <<>> ELSE digits[n \div 10] \o <<48 + (n % 10)>>
  IN  digits[number]

PortText(port) ==
  CASE port = NoPort -> <<>>
    [] port = BadPort -> <<COLON, 103>>
    [] OTHER -> <<COLON>> \o Decimal(port)

MCUrl(scheme, host, name, port, transports) ==
  [scheme |-> scheme, slashes |-> <<>>, userinfo |-> <<>>, name |-> name,
   service |-> PortText(port),
   after |-> IF transports = {} THEN <<>> ELSE <<QUERY, 116>>,
   transports |-> transports, host |-> host, literal |-> FALSE, port |-> port]

Short == <<104>>
Long == <<104, DOT, 104, 103>>

Good ==
  {MCUrl("stun", Short, Short, p, {}) : p \in Ports}
  \cup {MCUrl("", Short, Short, NoPort, {}), MCUrl("TURNS", Long, Long, NoPort, {}),
        MCUrl("turn", Long, Long, NoPort, {"udp", "tcp"})}

\* No scheme that is known, no number, no host, a host before a colon and no
\* scheme, and a number that is too large.
Bad ==
  {MCUrl("http", Long, Long, NoPort, {}), MCUrl("stun", Short, Short, BadPort, {}),
   MCUrl("turn", <<>>, <<>>, NoPort, {}), MCUrl("", Short, Short, 80, {}),
   MCUrl("stun", Short, Short, MaxULong + 1, {})}

\* What may stand around a host: slashes, a user with or without a slash in its
\* name, a port, an empty one, a path, a query and a fragment.
Around ==
  {[MCUrl("turns", Long, Long, port, {}) EXCEPT
      !.slashes = slashes, !.userinfo = user, !.after = after] :
     slashes \in {<<>>, <<SLASH>>, <<SLASH, SLASH>>},
     user \in {<<>>, <<104, AT>>, <<104, COLON, SLASH, AT>>},
     port \in {NoPort, 443},
     after \in {<<>>, <<SLASH, COLON>>, <<QUERY, 116>>, <<HASH>>}}
  \cup {[MCUrl("STUN", Long, Long, NoPort, {}) EXCEPT !.service = <<COLON>>, !.after = after] :
          after \in {<<>>, <<SLASH>>}}

Server(urls, user) ==
  [kind |-> "urls", urls |-> urls, username |-> user, credential |-> user]

Unusable(kind) == [kind |-> kind, urls |-> <<>>, username |-> "", credential |-> ""]

Lists == BoundedSeq(Good, 2) \cup {<<u>> : u \in Bad} \cup {<<g, b>> : g \in Good, b \in Bad}

\* '%', digits that make escapes of '%' (25) and 'B' (42), 'B', a digit itself,
\* 'g', no digit, and '/', which a host has from an escape only, and so has 0.
Chars == {PERCENT, 50, 53, 52, 66, 103}
Escaped == {0, SLASH}

\* Any encoding of any host; and hosts without an escape, in which a '%' stands
\* for itself.
OneHost ==
  {MCUrl("turn", s, Encoded(s, escaped), 80, {}) :
     s \in BoundedSeq(Chars, 3) \ {<<>>}, escaped \in SUBSET (1 .. 3)}
  \cup {MCUrl("turn", <<c>> \o s, Encoded(<<c>> \o s, {1}), 80, {}) :
          c \in Escaped, s \in BoundedSeq(Chars, 1)}
  \cup {MCUrl("stun", s, s, NoPort, {}) :
          s \in {s \in BoundedSeq(Chars, 4) \ {<<>>} : \A i \in DOMAIN s : ~EscapeAt(s, i)}}

\* "::1", "2:4::5" and "a:b::1", in brackets.
Addresses ==
  {<<COLON, COLON, 49>>, <<50, COLON, 52, COLON, COLON, 53>>, <<97, COLON, 98, COLON, COLON, 49>>}

OneLiteral ==
  {[MCUrl("stun", a, <<OPEN>> \o a \o <<CLOSE>>, p, {}) EXCEPT !.literal = TRUE] :
     a \in Addresses, p \in Ports \cup {NoPort}}

MCConfigs ==
  {<<>>}
  \cup {<<Server(l, "ann")>> : l \in Lists \cup {<<u>> : u \in OneHost \cup Around}}
  \cup {<<Server(l, "ann"), Server(k, "bob")>> : l \in Lists, k \in Lists}
  \cup {<<Server(l, "ann"), Unusable(kind)>> : l \in Lists, kind \in {"no urls", "other"}}
  \cup {<<Server(l, "ann"), Server(k, ""), Server(<<g>>, "bob")>> :
          l \in BoundedSeq(Good, 2), k \in {<<>>, <<MCUrl("", Short, Short, NoPort, {})>>},
          g \in Good}
  \cup (IF Literals THEN {<<Server(<<u>>, "ann")>> : u \in OneLiteral} ELSE {})
=============================================================================
