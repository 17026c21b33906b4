------------------------------ MODULE Messages ------------------------------
(***************************************************************************)
(* The messages of the UDP service: a header of 16 bits of flags and an    *)
(* id, and an OriginRequest or an OriginResponse, as bytes and as JSON.    *)
(*                                                                         *)
(* A stream is the sequence of the cells written to it: a field is one     *)
(* cell, and a name is a cell for its length and one for each character.   *)
(* Names are told apart by their length.                                   *)
(***************************************************************************)
EXTENDS Naturals, Sequences

CONSTANTS Byte,          \* 2^8: what a count or a length of 8 bits wraps at
          DatagramLimit  \* cells a datagram's buffer holds: 4096 bytes

-----------------------------------------------------------------------------
(* MessageHeader: the bits of _flags are version 5, type 3, truncated 1,   *)
(* and 7 that nobody sets.                                                 *)
NoneType == 0
OriginRequestType == 1
OriginResponseType == 2

Version(flags) == flags \div 2048
Type(flags) == (flags \div 256) % 8
Truncated(flags) == (flags \div 128) % 2 = 1

SetVersion(flags, v) == (flags % 2048) + (v % 32) * 2048

\* Mutant: the bits of the old type are not cleared.
SetType_OldBits(flags, t) ==
    flags + 256 * (IF Type(flags) % 2 = 1 /\ t % 2 = 1 THEN t - 1 ELSE t)

SetType(flags, t) == flags - 256 * Type(flags) + 256 * t
SetTruncated(flags, tr) ==
    flags - (IF Truncated(flags) THEN 128 ELSE 0) + (IF tr THEN 128 ELSE 0)

(* The constructor does not initialise _flags: junk is what was there.     *)
NewHeader(junk) ==
    [flags |-> SetTruncated(SetType(SetVersion(junk, 1), NoneType), FALSE), id |-> 0]

RequestMessage(header, addr) ==
    [header |-> [header EXCEPT !.flags = SetType(@, OriginRequestType)],
     payload |-> [index |-> 0, data |-> addr]]
ResponseMessage(header, resp) ==
    [header |-> [header EXCEPT !.flags = SetType(@, OriginResponseType)],
     payload |-> [index |-> 1, data |-> resp]]

-----------------------------------------------------------------------------
(* Writing.                                                                *)
Chars(n) == [i \in 1 .. n |-> "char"]

WriteAS(as) ==
    LET namelen == as.name % Byte
    IN  <<as.number, as.countryCode, namelen>> \o Chars(namelen)

WriteASes(ases) ==
    LET from[i \in 1 .. Len(ases) + 1] ==
            IF i > Len(ases) THEN <<>> ELSE WriteAS(ases[i]) \o from[i + 1]
    IN  from[1]

WritePrefix(pfx) == <<pfx.prefix, Len(pfx.ases)>> \o WriteASes(pfx.ases)

WritePrefixes(pfxs) ==
    LET from[i \in 1 .. Len(pfxs) + 1] ==
            IF i > Len(pfxs) THEN <<>> ELSE WritePrefix(pfxs[i]) \o from[i + 1]
    IN  from[1]

WriteResponse(resp) ==
    <<resp.request, Len(resp.prefixes) % Byte>> \o WritePrefixes(resp.prefixes)

WriteHeader(header) == <<header.flags, header.id>>

(* The payload is a variant: its index, and the alternative it holds.      *)
WritePayload(msg) ==
    <<msg.payload.index>>
    \o IF msg.payload.index = 0 THEN <<msg.payload.data>> ELSE WriteResponse(msg.payload.data)

WriteMessage(msg) == WriteHeader(msg.header) \o WritePayload(msg)

(* A message that does not fit in the buffer is not sent.                  *)
Fits(msg) == Len(WriteMessage(msg)) <= DatagramLimit

-----------------------------------------------------------------------------
(* Reading: the value, and the cells behind it.  Only what WriteMessage    *)
(* wrote is read here, so no read comes to the end of the stream.          *)
Skip(s, n) == SubSeq(s, n + 1, Len(s))
Read(value, rest) == [value |-> value, rest |-> rest]

ReadAS(s) ==
    Read([number |-> s[1], countryCode |-> s[2], name |-> s[3]], Skip(s, 3 + s[3]))

ReadASes(n, s) ==
    LET first[k \in 0 .. n] ==
            IF k = 0 THEN Read(<<>>, s)
            ELSE LET before == first[k - 1]
                     as     == ReadAS(before.rest)
                 IN  Read(Append(before.value, as.value), as.rest)
    IN  first[n]

ReadPrefix(s) ==
    LET ases == ReadASes(s[2], Skip(s, 2))
    IN  Read([prefix |-> s[1], ases |-> ases.value], ases.rest)

ReadPrefixes(n, s) ==
    LET first[k \in 0 .. n] ==
            IF k = 0 THEN Read(<<>>, s)
            ELSE LET before == first[k - 1]
                     pfx    == ReadPrefix(before.rest)
                 IN  Read(Append(before.value, pfx.value), pfx.rest)
    IN  first[n]

ReadResponse(s) ==
    LET pfxs == ReadPrefixes(s[2], Skip(s, 2))
    IN  Read([request |-> s[1], prefixes |-> pfxs.value], pfxs.rest)

ReadMessage(s) ==
    [header  |-> [flags |-> s[1], id |-> s[2]],
     payload |-> [index |-> s[3],
                  data  |-> IF s[3] = 0 THEN s[4] ELSE ReadResponse(Skip(s, 3)).value]]

-----------------------------------------------------------------------------
(* JSON: objects are records, arrays sequences.                            *)
ASToJson(as) == [as |-> as.number, cc |-> as.countryCode, nm |-> as.name]
ASFromJson(j) == [number |-> j.as, countryCode |-> j.cc, name |-> j.nm]

PrefixToJson(pfx) ==
    [pfx |-> pfx.prefix, ases |-> [i \in DOMAIN pfx.ases |-> ASToJson(pfx.ases[i])]]
PrefixFromJson(j) ==
    [prefix |-> j.pfx, ases |-> [i \in DOMAIN j.ases |-> ASFromJson(j.ases[i])]]

ResponseToJson(resp) ==
    [req  |-> resp.request,
     resp |-> [i \in DOMAIN resp.prefixes |-> PrefixToJson(resp.prefixes[i])]]
ResponseFromJson(j) ==
    [request |-> j.req, prefixes |-> [i \in DOMAIN j.resp |-> PrefixFromJson(j.resp[i])]]

HeaderToJson(header) ==
    [v |-> Version(header.flags), ty |-> Type(header.flags), tr |-> Truncated(header.flags)]

(* The id is in no JSON header: the one of the object stays.               *)
HeaderFromJson(header, j) ==
    [header EXCEPT !.flags = SetTruncated(SetType(SetVersion(@, j.v), j.ty), j.tr)]

MessageToJson(msg) ==
    IF msg.payload.index = 0
    THEN [hdr |-> HeaderToJson(msg.header), req |-> msg.payload.data]
    ELSE [hdr |-> HeaderToJson(msg.header), resp |-> ResponseToJson(msg.payload.data)]

(* Without the member for its type a message is not read.                  *)
Readable(j) ==
    \/ j.hdr.ty = OriginRequestType /\ "req" \in DOMAIN j
    \/ j.hdr.ty = OriginResponseType /\ "resp" \in DOMAIN j

MessageFromJson(header, j) ==
    [header  |-> HeaderFromJson(header, j.hdr),
     payload |-> IF j.hdr.ty = OriginRequestType
                 THEN [index |-> 0, data |-> j.req]
                 ELSE [index |-> 1, data |-> ResponseFromJson(j.resp)]]
=============================================================================
