---------------------------------- MODULE L7 ----------------------------------
(***************************************************************************)
(* The detectors of l7.rs as far as reassembly depends on them: which bytes *)
(* a detector has to see before it decides, and when it asks for more.     *)
(*                                                                         *)
(* A byte is a natural number. The tokens that make a payload recognisable *)
(* are single bytes here: MethodByte stands for a known method followed by *)
(* a path, VersionByte for HTTP/, HandshakeByte for a TLS handshake record. *)
(* A DNS header is DnsHeaderLen bytes, the first of which is its flags.    *)
(***************************************************************************)
EXTENDS Integers, Sequences

CONSTANTS
  ByteBase,        \* bytes are 0..ByteBase-1
  LineFeed, MethodByte, VersionByte, HandshakeByte,
  HelloLen,        \* bytes of a ClientHello record up to the end of its SNI
  DnsHeaderLen,    \* 12
  ResponseFlags,   \* flag bytes with QR set
  NameBytes,       \* first bytes of a question name that can be read
  MaxDnsTcp        \* MAX_DNS_TCP_MESSAGE_BYTES

ASSUME L7Assumption ==
  /\ {ByteBase, HelloLen, DnsHeaderLen, MaxDnsTcp} \subseteq Nat \ {0}
  /\ {LineFeed, MethodByte, VersionByte, HandshakeByte} \subseteq 0..ByteBase-1
  /\ 0 \notin NameBytes

Byte == 0..ByteBase-1

\* at: where in the sniffed bytes the text of the message starts.
Decided(kind, at, text) == [out |-> "decided", kind |-> kind, at |-> at, text |-> text]
NeedMoreBytes(n) == [out |-> "need", atLeast |-> n]
Undecided == [out |-> "undecided"]

Starts(payload, byte) == payload # <<>> /\ payload[1] = byte

\* first_complete_line: a line terminator is required.
HasLine(payload) == \E i \in 1..Len(payload) : payload[i] = LineFeed

FirstLine(payload) ==
  LET newline == CHOOSE i \in 1..Len(payload) :
                   payload[i] = LineFeed /\ \A j \in 1..i-1 : payload[j] # LineFeed
  IN SubSeq(payload, 1, newline - 1)

\* sniff_http, sniff_http_response
IsHttp(payload) == Starts(payload, MethodByte) /\ HasLine(payload)
IsHttpResponse(payload) == Starts(payload, VersionByte) /\ HasLine(payload)

\* sniff_tls_client_hello: a record header (type, length) and the walk to the SNI.
IsClientHello(payload) == Starts(payload, HandshakeByte) /\ Len(payload) >= HelloLen

\* sniff_dns: a whole header, and a question name that is readable and not empty.
IsDns(message) ==
  Len(message) > DnsHeaderLen /\ message[DnsHeaderLen + 1] \in NameBytes

DnsKind(message) == IF message[1] \in ResponseFlags THEN "dnsResponse" ELSE "dns"

IsDnsKind(kind) == kind \in {"dns", "dnsResponse"}

\* The shortfall a TLS record declares, 1 for an unterminated HTTP start line, 0
\* when nothing suggests that more bytes would help.
MissingByteCount(payload) ==
  IF Starts(payload, HandshakeByte) /\ Len(payload) < 2
  THEN 2 - Len(payload)
  ELSE IF Starts(payload, HandshakeByte) /\ 2 + payload[2] > Len(payload)
  THEN 2 + payload[2] - Len(payload)
  ELSE IF (Starts(payload, MethodByte) \/ Starts(payload, VersionByte)) /\ ~HasLine(payload)
  THEN 1 ELSE 0

OrMissing(payload) ==
  IF MissingByteCount(payload) > 0 THEN NeedMoreBytes(MissingByteCount(payload)) ELSE Undecided

DeclaredLen(bytes) == ByteBase * bytes[1] + bytes[2]

\* sniff_dns_tcp: the first framed message of the buffer.
SniffDnsTcp(stream) ==
  IF stream = <<>> THEN Undecided
  ELSE IF Len(stream) = 1 THEN NeedMoreBytes(1)
  ELSE LET declared == DeclaredLen(stream)
           message == SubSeq(stream, 3, 2 + declared)
       IN IF declared \notin DnsHeaderLen..MaxDnsTcp THEN Undecided
          ELSE IF Len(stream) < 2 + declared THEN NeedMoreBytes(2 + declared - Len(stream))
          ELSE IF IsDns(message) THEN Decided(DnsKind(message), 2, message) ELSE Undecided

\* sniff_l7_desegmenting, by the class of the destination port.
SniffL7(payload, class) ==
  CASE class = "other" /\ IsHttp(payload) -> Decided("http", 0, FirstLine(payload))
    [] class = "other" /\ IsHttpResponse(payload) -> Decided("httpResponse", 0, FirstLine(payload))
    [] class = "other" /\ IsDns(payload) -> Decided(DnsKind(payload), 0, payload)
    [] class \in {"other", "tls"} /\ IsClientHello(payload) ->
         Decided("tls", 0, SubSeq(payload, 1, HelloLen))
    [] OTHER -> OrMissing(payload)

\* sniff_for_transport on a TCP packet: "toDns" is to port 53, "fromDns" from
\* port 53 to another one, "tls" to port 443.
SniffForTransport(payload, class) ==
  CASE class \in {"other", "tls"} -> SniffL7(payload, class)
    [] class = "toDns" -> SniffDnsTcp(payload)
    [] class = "fromDns" ->
         IF IsHttp(payload) THEN Decided("http", 0, FirstLine(payload))
         ELSE IF IsHttpResponse(payload) THEN Decided("httpResponse", 0, FirstLine(payload))
         ELSE IF IsClientHello(payload) THEN Decided("tls", 0, SubSeq(payload, 1, HelloLen))
         ELSE IF SniffDnsTcp(payload) = Undecided THEN OrMissing(payload)
         ELSE SniffDnsTcp(payload)
=============================================================================
