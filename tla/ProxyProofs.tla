----------------------------- MODULE ProxyProofs -----------------------------
(***************************************************************************)
(* What Proxy keeps for any configuration files, requests and responses:   *)
(* a file means what it says without its comments, each of its entries is  *)
(* a listener of its own, whose key is set; headers of one hop stay there, *)
(* and the framing of a message is that of the body that goes with it; an  *)
(* image request says what its client asked for.                           *)
(***************************************************************************)
EXTENDS Proxy, ParsingProofs

\* What a request that was sent consists of, with the client's framing or httpx'.
SentHeaders(r, s) ==
  \/ /\ RouteFor(r) = "relay" /\ s.bytes = "client"
     /\ s.headers = Completed(RequestHeaders(r.headers, listener.key), s.bytes)
  \/ /\ RouteFor(r) = "gated" /\ s.bytes = "client"
     /\ s.headers = Completed(RequestHeadersPreservingAuth(r.headers), s.bytes)
  \/ /\ RouteFor(r) \in {"image", "list"} /\ s.bytes # "client"
     /\ \E type \in {"application/json", ""} :
          s.headers = Completed(ImageRequestHeaders(r.headers, listener.key, type), s.bytes)

\* What an image request consists of beside its headers.
SentBody(r, s) == RouteFor(r) = "image" => s.fields = Transformed(r) /\ Transformed(r) # Refused

SentAsMade ==
  stage = "sent" => request \in Requests /\ SentHeaders(request, sent) /\ SentBody(request, sent)

\* What a client has got is the proxy's own answer, or made of a response.
AnsweredAsMade ==
  stage = "answered" =>
    \/ received = None /\ reply.headers = {<<"content-length", "own">>} /\ reply.bytes = "own"
    \/ /\ received \in Responses
       /\ \/ reply = StreamedReply(received)
          \/ EncodingOf(received.bytes) \in {"gzip", "plain"} /\ reply = BufferedReply(received)

\* What was loaded is the file's document.
LoadedAsWritten ==
  /\ stage = "file" \/ Loaded => file \in Files
  /\ Loaded => config = LoadConfig(file.document, Environ)

Serving == stage \in {"serving", "sent", "answered"}

\* The listener's entry started, so its key is set.
KeyIsSet ==
  Serving => listener.mode \in Modes /\ (listener.mode # "featherless" => listener.key \in Environ)

IInv ==
  /\ stage # "answered" => received = None
  /\ LoadedAsWritten /\ KeyIsSet
  /\ SentAsMade /\ AnsweredAsMade

-----------------------------------------------------------------------------
(* Headers.                                                                 *)

\* Nothing for the next hop only is forwardable, whatever else is excluded.
LEMMA ForwardableIsEndToEnd ==
  ASSUME NEW headers, NEW excluded, NEW h \in Forwardable(headers, excluded)
  PROVE  h \in headers /\ h[1] \notin OnlyForNextHop(headers) \cup excluded
  BY DEF Forwardable, OnlyForNextHop

\* What is sent of a client's headers is forwardable, or set by the proxy.
LEMMA SentIsForwardableOrSetAnew ==
  ASSUME NEW r, NEW s, SentHeaders(r, s), NEW h \in s.headers
  PROVE  SetAnew(h) \/ h \in Forwardable(r.headers, {"host"})
<1>1. ASSUME NEW headers, NEW bytes, NEW g \in Completed(headers, bytes)
      PROVE  g \in headers \/ SetAnew(g)
  <2>1. g \in headers \cup {<<"accept-encoding", "gzip">>, <<"transfer-encoding", "chunked">>, <<"content-length", bytes>>}
    BY <1>1 DEF Completed
  <2>2. g \in headers \/ g[1] \in Framing
    BY <2>1 DEF Framing
  <2>. QED
    BY <2>2 DEF SetAnew
<1>2. ASSUME NEW g \in RequestHeaders(r.headers, listener.key)
      PROVE  SetAnew(g) \/ g \in Forwardable(r.headers, {"host"})
  BY <1>2 DEF RequestHeaders, Forwardable, SetAnew
<1>3. ASSUME NEW type, NEW g \in ImageRequestHeaders(r.headers, listener.key, type)
      PROVE  SetAnew(g) \/ g \in Forwardable(r.headers, {"host"})
  <2>1. g \in RequestHeaders(r.headers, listener.key) \/ g = <<"content-type", type>>
    BY <1>3 DEF ImageRequestHeaders
  <2>2. g = <<"content-type", type>> => g[1] \in Framing
    BY DEF Framing
  <2>. QED
    BY <2>1, <2>2, <1>2 DEF SetAnew
<1>. QED
  BY <1>1, <1>2, <1>3 DEF SentHeaders, RequestHeadersPreservingAuth

\* The values of a name in one pair, in two sets together, and where no pair has it.
LEMMA ValuesOfPair ==
  ASSUME NEW a, NEW b, NEW name
  PROVE  /\ name = a => ValuesOf({<<a, b>>}, name) = {b}
         /\ name # a => ValuesOf({<<a, b>>}, name) = {}
<1>1. <<a, b>>[1] = a /\ <<a, b>>[2] = b
  OBVIOUS
<1>2. name = a => {p \in {<<a, b>>} : p[1] = name} = {<<a, b>>}
  BY <1>1
<1>3. name # a => {p \in {<<a, b>>} : p[1] = name} = {}
  BY <1>1
<1>. QED
  BY <1>1, <1>2, <1>3 DEF ValuesOf

LEMMA ValuesOfSame ==
  ASSUME NEW a, NEW b
  PROVE  ValuesOf({<<a, b>>}, a) = {b}
  BY ValuesOfPair

LEMMA ValuesOfOther ==
  ASSUME NEW a, NEW b, NEW name, name # a
  PROVE  ValuesOf({<<a, b>>}, name) = {}
  BY ValuesOfPair

LEMMA ValuesOfUnion ==
  ASSUME NEW G, NEW H, NEW name
  PROVE  ValuesOf(G \cup H, name) = ValuesOf(G, name) \cup ValuesOf(H, name)
  BY DEF ValuesOf

LEMMA ValuesAbsent ==
  ASSUME NEW H, NEW name, \A h \in H : h[1] # name
  PROVE  ValuesOf(H, name) = {}
  BY DEF ValuesOf

\* Fewer pairs have no more values.
LEMMA ValuesOfFewer ==
  ASSUME NEW H, NEW G, NEW name, \A h \in H : h[1] = name => h \in G
  PROVE  ValuesOf(H, name) \subseteq ValuesOf(G, name)
  BY DEF ValuesOf

\* What the proxy adds to the client's headers is a credential.
LEMMA RequestHeadersAre ==
  ASSUME NEW headers, NEW h \in RequestHeaders(headers, listener.key)
  PROVE  h \in Forwardable(headers, {"host", "authorization"}) \/ h[1] = "authorization"
<1>. DEFINE credential == <<"authorization", "Bearer " \o listener.key>>
<1>1. h \in Forwardable(headers, {"host", "authorization"}) \/ h = credential
  BY DEF RequestHeaders
<1>2. credential[1] = "authorization"
  OBVIOUS
<1>. QED
  BY <1>1, <1>2

\* Headers made for the client's body have its length or none, and do not say
\* how the body is delimited otherwise.
LEMMA StreamedLength ==
  ASSUME NEW r, ValuesOf(r.headers, "content-length") \subseteq {"client"}, NEW headers,
         \/ headers = RequestHeaders(r.headers, listener.key)
         \/ headers = RequestHeadersPreservingAuth(r.headers)
  PROVE  /\ ValuesOf(headers, "content-length") \subseteq {"client"}
         /\ ValuesOf(headers, "transfer-encoding") = {}
<1>1. ASSUME NEW h \in headers
      PROVE  h[1] = "authorization" \/ (h \in r.headers /\ h[1] # "transfer-encoding")
  <2>1. \/ h[1] = "authorization"
        \/ h \in Forwardable(r.headers, {"host", "authorization"})
        \/ h \in Forwardable(r.headers, {"host"})
    BY <1>1, RequestHeadersAre DEF RequestHeadersPreservingAuth
  <2>. QED
    BY <2>1 DEF Forwardable, HopByHop
<1>2. ValuesOf(headers, "transfer-encoding") = {}
  BY <1>1, ValuesAbsent
<1>3. ValuesOf(headers, "content-length") \subseteq ValuesOf(r.headers, "content-length")
  <2>1. \A h \in headers : h[1] = "content-length" => h \in r.headers
    BY <1>1
  <2>. QED
    BY <2>1, ValuesOfFewer
<1>. QED
  BY <1>2, <1>3

\* Headers made for another body have no length, delimitation or encoding.
LEMMA ImageLength ==
  ASSUME NEW r, NEW type,
         NEW name \in {"content-length", "transfer-encoding", "accept-encoding"}
  PROVE  ValuesOf(ImageRequestHeaders(r.headers, listener.key, type), name) = {}
<1>. DEFINE kind == <<"content-type", type>>
<1>1. ASSUME NEW h \in ImageRequestHeaders(r.headers, listener.key, type), h # kind
      PROVE  h[1] # name
  <2>1. h \in RequestHeaders(r.headers, listener.key) /\ h[1] \notin {"content-length", "accept-encoding"}
    BY <1>1 DEF ImageRequestHeaders
  <2>2. h \in Forwardable(r.headers, {"host", "authorization"}) \/ h[1] = "authorization"
    BY <2>1, RequestHeadersAre
  <2>3. h[1] # "transfer-encoding"
    BY <2>2 DEF Forwardable, HopByHop
  <2>. QED
    BY <2>1, <2>3
<1>2. kind[1] # name
  OBVIOUS
<1>. QED
  BY <1>1, <1>2, ValuesAbsent

\* What httpx adds to headers whose length, if any, is that of the bytes.
LEMMA CompletedFits ==
  ASSUME NEW headers, NEW bytes,
         ValuesOf(headers, "content-length") \subseteq {bytes},
         bytes = "nothing" => ValuesOf(headers, "content-length") = {},
         ValuesOf(headers, "transfer-encoding") = {}
  PROVE  LET complete == Completed(headers, bytes)
         IN  /\ ValuesOf(complete, "content-length") \subseteq {bytes}
             /\ ValuesOf(complete, "content-length") = {} \/ ValuesOf(complete, "transfer-encoding") = {}
             /\ bytes = "nothing" <=> /\ ValuesOf(complete, "content-length") = {}
                                     /\ ValuesOf(complete, "transfer-encoding") = {}
             /\ ValuesOf(headers, "accept-encoding") = {} => ValuesOf(complete, "accept-encoding") = {"gzip"}
<1>. DEFINE encoding == <<"accept-encoding", "gzip">>
            gzip == IF ValuesOf(headers, "accept-encoding") = {} THEN {encoding} ELSE {}
            framing == IF ValuesOf(headers, "content-length") # {} \/ bytes = "nothing" THEN {}
                       ELSE IF bytes = "client" THEN {<<"transfer-encoding", "chunked">>}
                       ELSE {<<"content-length", bytes>>}
            Of(name) == ValuesOf(Completed(headers, bytes), name)
<1>1. Completed(headers, bytes) = headers \cup gzip \cup framing
  BY DEF Completed
<1>2. ASSUME NEW name
      PROVE  Of(name) = ValuesOf(headers, name) \cup ValuesOf(gzip, name) \cup ValuesOf(framing, name)
  <2>. HIDE DEF gzip, framing
  <2>1. ValuesOf(headers \cup gzip \cup framing, name) = ValuesOf(headers \cup gzip, name) \cup ValuesOf(framing, name)
    BY ValuesOfUnion
  <2>2. ValuesOf(headers \cup gzip, name) = ValuesOf(headers, name) \cup ValuesOf(gzip, name)
    BY ValuesOfUnion
  <2>. QED
    BY <1>1, <2>1, <2>2
<1>3. ASSUME NEW name PROVE ValuesOf({}, name) = {}
  BY ValuesAbsent
<1>4. gzip \in {{}, {encoding}} /\ (ValuesOf(headers, "accept-encoding") = {} => gzip = {encoding})
  OBVIOUS
<1>5. ValuesOf(gzip, "content-length") = {} /\ ValuesOf(gzip, "transfer-encoding") = {}
  <2>. HIDE DEF gzip
  <2>1. ValuesOf({encoding}, "content-length") = {}
    BY ValuesOfOther
  <2>2. ValuesOf({encoding}, "transfer-encoding") = {}
    BY ValuesOfOther
  <2>. HIDE DEF encoding
  <2>. QED
    BY <1>3, <1>4, <2>1, <2>2
<1>6. ValuesOf(headers, "accept-encoding") = {} => ValuesOf(gzip, "accept-encoding") = {"gzip"}
  <2>. HIDE DEF gzip
  <2>1. ValuesOf({encoding}, "accept-encoding") = {"gzip"}
    BY ValuesOfPair
  <2>. HIDE DEF encoding
  <2>. QED
    BY <1>4, <2>1
<1>7. CASE ValuesOf(headers, "content-length") # {} \/ bytes = "nothing"
  <2>1. framing = {}
    BY <1>7
  <2>2. \A name : ValuesOf(framing, name) = {}
    BY <2>1, <1>3
  <2>. HIDE DEF gzip, framing
  <2>. QED
    BY <2>2, <1>2, <1>5, <1>6, <1>7
<1>8. CASE ValuesOf(headers, "content-length") = {} /\ bytes = "client"
  <2>1. framing = {<<"transfer-encoding", "chunked">>}
    BY <1>8
  <2>. HIDE DEF gzip, framing
  <2>2. ValuesOf(framing, "transfer-encoding") = {"chunked"}
    BY <2>1, ValuesOfPair
  <2>3. ValuesOf(framing, "content-length") = {}
    BY <2>1, ValuesOfOther
  <2>4. ValuesOf(framing, "accept-encoding") = {}
    BY <2>1, ValuesOfOther
  <2>. QED
    BY <2>2, <2>3, <2>4, <1>2, <1>5, <1>6, <1>8
<1>9. CASE ValuesOf(headers, "content-length") = {} /\ bytes \notin {"client", "nothing"}
  <2>1. framing = {<<"content-length", bytes>>}
    BY <1>9
  <2>. HIDE DEF gzip, framing
  <2>2. ValuesOf(framing, "content-length") = {bytes}
    <3>1. ValuesOf({<<"content-length", bytes>>}, "content-length") = {bytes}
      BY ONLY ValuesOfSame
    <3>. QED
      BY <2>1, <3>1
  <2>3. ValuesOf(framing, "transfer-encoding") = {}
    BY <2>1, ValuesOfOther
  <2>4. ValuesOf(framing, "accept-encoding") = {}
    BY <2>1, ValuesOfOther
  <2>. QED
    BY <2>2, <2>3, <2>4, <1>2, <1>5, <1>6, <1>9
<1>. QED
  BY <1>7, <1>8, <1>9

\* A request that was sent is delimited in one way or has nothing to delimit, and
\* what is buffered is asked for in an encoding that httpx undoes.
LEMMA SentFits ==
  ASSUME NEW r \in Requests, NEW s, SentHeaders(r, s)
  PROVE  /\ IsFramed(s)
         /\ RouteFor(r) \in {"image", "list"} => ValuesOf(s.headers, "accept-encoding") = {"gzip"}
<1>1. ValuesOf(r.headers, "content-length") \subseteq {"client"}
  BY RequestsAssumption
<1>2. CASE RouteFor(r) \notin {"image", "list"}
  <2>1. PICK headers : /\ \/ headers = RequestHeaders(r.headers, listener.key)
                          \/ headers = RequestHeadersPreservingAuth(r.headers)
                       /\ s.headers = Completed(headers, s.bytes) /\ s.bytes = "client"
    BY <1>2 DEF SentHeaders
  <2>2. ValuesOf(headers, "content-length") \subseteq {s.bytes} /\ ValuesOf(headers, "transfer-encoding") = {}
    BY <2>1, <1>1, StreamedLength
  <2>. QED
    BY <2>1, <2>2, <1>2, CompletedFits DEF IsFramed
<1>3. CASE RouteFor(r) \in {"image", "list"}
  <2>1. PICK type : s.headers = Completed(ImageRequestHeaders(r.headers, listener.key, type), s.bytes)
    BY <1>3 DEF SentHeaders
  <2>. DEFINE headers == ImageRequestHeaders(r.headers, listener.key, type)
  <2>2. /\ ValuesOf(headers, "content-length") = {}
        /\ ValuesOf(headers, "transfer-encoding") = {}
        /\ ValuesOf(headers, "accept-encoding") = {}
    BY ImageLength
  <2>. HIDE DEF headers
  <2>3. s.headers = Completed(headers, s.bytes)
    BY <2>1 DEF headers
  <2>. QED
    BY <2>2, <2>3, CompletedFits DEF IsFramed
<1>. QED
  BY <1>2, <1>3

\* httpx adds no credential.
LEMMA CompletedKeepsCredentials ==
  ASSUME NEW headers, NEW bytes
  PROVE  Credentials(Completed(headers, bytes)) = Credentials(headers)
<1>. DEFINE added == {<<"accept-encoding", "gzip">>, <<"transfer-encoding", "chunked">>, <<"content-length", bytes>>}
<1>1. \A h \in added : h[1] # "authorization"
  OBVIOUS
<1>2. headers \subseteq Completed(headers, bytes) /\ Completed(headers, bytes) \subseteq headers \cup added
  BY DEF Completed
<1>. HIDE DEF added
<1>3. \A h \in Completed(headers, bytes) : h[1] = "authorization" => h \in headers
  BY <1>1, <1>2
<1>. QED
  BY <1>2, <1>3 DEF Credentials, ValuesOf

\* The listener's credential takes the place of the client's.
LEMMA OwnCredential ==
  ASSUME NEW r, NEW headers, NEW type,
         \/ headers = RequestHeaders(r.headers, listener.key)
         \/ headers = ImageRequestHeaders(r.headers, listener.key, type)
  PROVE  Credentials(headers) = {"Bearer " \o listener.key}
<1>. DEFINE value == "Bearer " \o listener.key
            own == <<"authorization", value>>
            others == Forwardable(r.headers, {"host", "authorization"})
<1>1. RequestHeaders(r.headers, listener.key) = others \cup {own}
  BY DEF RequestHeaders
<1>2. \A h \in others : h[1] # "authorization"
  BY DEF Forwardable
<1>. HIDE DEF value, others
<1>3. own[1] = "authorization" /\ own[2] = value
  OBVIOUS
<1>. HIDE DEF own
<1>4. own \in headers /\ \A h \in headers : h[1] = "authorization" => h = own
  <2>1. CASE headers = RequestHeaders(r.headers, listener.key)
    BY <2>1, <1>1, <1>2
  <2>2. CASE headers = ImageRequestHeaders(r.headers, listener.key, type)
    <3>. DEFINE kind == <<"content-type", type>>
    <3>1. kind[1] # "authorization"
      OBVIOUS
    <3>2. \A h \in headers : h \in RequestHeaders(r.headers, listener.key) \/ h = kind
      BY <2>2 DEF ImageRequestHeaders
    <3>3. own \in headers
      BY <2>2, <1>1, <1>3 DEF ImageRequestHeaders
    <3>. HIDE DEF kind
    <3>. QED
      BY <3>1, <3>2, <3>3, <1>1, <1>2
  <2>. QED
    BY <2>1, <2>2
<1>5. Credentials(headers) = {value}
  BY <1>3, <1>4 DEF Credentials, ValuesOf
<1>. QED
  BY <1>5 DEF value

\* The client's credentials go on where the listener has none.
LEMMA ClientsCredential ==
  ASSUME NEW headers, "authorization" \notin ConnectionTokens(headers)
  PROVE  Credentials(RequestHeadersPreservingAuth(headers)) = Credentials(headers)
<1>1. \A h : h[1] = "authorization" => (h \in RequestHeadersPreservingAuth(headers) <=> h \in headers)
  BY DEF RequestHeadersPreservingAuth, Forwardable, HopByHop
<1>. QED
  BY <1>1 DEF Credentials, ValuesOf

-----------------------------------------------------------------------------
(* Replies.                                                                 *)

\* What streams through keeps its framing.
LEMMA StreamedReplyFits ==
  ASSUME NEW p \in Responses
  PROVE  Fits(StreamedReply(p))
<1>. DEFINE m == StreamedReply(p)
<1>1. m.headers = Forwardable(p.headers, {}) /\ m.bytes = p.bytes
  BY DEF StreamedReply
<1>2. \A h \in m.headers : h \in p.headers
  BY <1>1 DEF Forwardable
<1>3. \A name : ValuesOf(m.headers, name) \subseteq ValuesOf(p.headers, name)
  BY <1>2, ValuesOfFewer
<1>4. Fits(p) /\ "content-encoding" \notin ConnectionTokens(p.headers)
  BY ResponsesAssumption
<1>5. ValuesOf(p.headers, "content-encoding") # {} => ValuesOf(m.headers, "content-encoding") # {}
  <2>1. ASSUME NEW h \in p.headers, h[1] = "content-encoding"
        PROVE  h \in m.headers
    BY <1>1, <1>4, <2>1 DEF Forwardable, HopByHop
  <2>. QED
    BY <2>1 DEF ValuesOf
<1>. HIDE DEF m
<1>. QED
  BY <1>1, <1>3, <1>4, <1>5 DEF Fits, m

\* What is buffered gets the length of what it became, which is not encoded.
LEMMA BufferedReplyFits ==
  ASSUME NEW p, EncodingOf(p.bytes) \in {"gzip", "plain"}
  PROVE  Fits(BufferedReply(p))
<1>. DEFINE m == BufferedReply(p)
<1>1. /\ m.bytes \in {"decoded", "rewritten", p.bytes}
      /\ m.bytes = p.bytes => EncodingOf(p.bytes) = "plain"
      /\ m.headers = ImageResponseHeaders(p.headers, m.bytes)
  BY DEF BufferedReply, EnsureCreated, EncodingOf
<1>. HIDE DEF m
<1>2. EncodingOf(m.bytes) = "plain"
  BY <1>1 DEF EncodingOf
<1>. DEFINE length == <<"content-length", m.bytes>>
            others == {h \in Forwardable(p.headers, {}) : h[1] \notin {"content-length", "content-encoding"}}
<1>3. m.headers = others \cup {length}
  BY <1>1 DEF ImageResponseHeaders
<1>4. ASSUME NEW name \in {"content-length", "content-encoding"} PROVE ValuesOf(others, name) = {}
  <2>1. \A h \in others : h[1] # name
    OBVIOUS
  <2>. HIDE DEF others
  <2>. QED
    BY <2>1, ValuesAbsent
<1>5. ValuesOf({length}, "content-length") = {m.bytes}
  BY ValuesOfPair
<1>6. ValuesOf({length}, "content-encoding") = {}
  BY ValuesOfOther
<1>. HIDE DEF length, others
<1>7. ValuesOf(m.headers, "content-length") = {m.bytes} /\ ValuesOf(m.headers, "content-encoding") = {}
  BY <1>3, <1>4, <1>5, <1>6, ValuesOfUnion
<1>. QED
  BY <1>2, <1>7 DEF Fits, m

\* Nothing for the next hop only is in a reply, a length aside.
LEMMA RepliesAreEndToEnd ==
  ASSUME NEW p, NEW m \in {StreamedReply(p), BufferedReply(p)}, NEW h \in m.headers
  PROVE  h[1] \notin OnlyForNextHop(p.headers) \ {"content-length"}
<1>1. CASE h \in Forwardable(p.headers, {})
  BY <1>1, ForwardableIsEndToEnd
<1>2. CASE h[1] = "content-length"
  BY <1>2
<1>3. h \in Forwardable(p.headers, {}) \/ \E bytes : h = <<"content-length", bytes>>
  <2>1. CASE m = StreamedReply(p)
    BY <2>1 DEF StreamedReply
  <2>2. CASE m = BufferedReply(p)
    <3>1. \E bytes : m.headers = ImageResponseHeaders(p.headers, bytes)
      BY <2>2 DEF BufferedReply
    <3>. QED
      BY <3>1 DEF ImageResponseHeaders
  <2>. QED
    BY <2>1, <2>2
<1>. QED
  BY <1>1, <1>2, <1>3

-----------------------------------------------------------------------------
(* Loading.                                                                 *)

\* A set of numbers has its least one.
LEMMA LeastIsMember ==
  ASSUME NEW numbers, numbers \subseteq Nat, numbers # {}
  PROVE  Min(numbers) \in numbers
<1>1. PICK x \in numbers : \A y \in numbers : ~(<<y, x>> \in OpToRel(<, Nat))
  <2>1. numbers \subseteq Nat /\ numbers # {}
    OBVIOUS
  <2>. QED
    BY ONLY <2>1, NatLessThanWellFounded, WFMin, Zenon
<1>2. ASSUME NEW y \in numbers PROVE x =< y
  <2>1. x \in Nat /\ y \in Nat
    OBVIOUS
  <2>2. ~(y < x)
    BY <1>1, <2>1 DEF OpToRel
  <2>. QED
    BY <2>1, <2>2
<1>. QED
  BY <1>2 DEF Min

\* A file means what its document says.
LEMMA CommentsAreNoContent ==
  ASSUME NEW f \in Files
  PROVE  DocumentOf(f) = f.document
<1>. DEFINE tokens == f.tokens
            N == Len(tokens)
            Pairs == [text : Seq(Characters), value : Seq(Characters)]
<1>1. tokens \in Seq(Pairs) /\ IsJsonc(tokens)
  BY FilesAssumption
<1>2. N \in Nat /\ DOMAIN tokens = 1 .. N /\ (N = 0 => tokens = <<>>)
  BY <1>1
<1>3. \A i \in 1 .. N : tokens[i].text \in Seq(Characters) /\ tokens[i].value \in Seq(Characters)
  <2>1. \A i \in 1 .. N : tokens[i] \in Pairs
    <3>. HIDE DEF tokens, Pairs
    <3>. QED
      BY <1>1
  <2>. HIDE DEF tokens, N
  <2>. QED
    BY <2>1
<1>. HIDE DEF tokens
<1>4. StripComments(TextOf(tokens)) = ValueOf(tokens)
  <2>1. Len(tokens) = N
    OBVIOUS
  <2>. HIDE DEF N
  <2>. QED
    BY ONLY <1>1, <1>2, <1>3, <2>1, CommentsAreStripped
<1>. QED
  BY <1>4 DEF DocumentOf, tokens

\* A document is a record of three, with its entries by number.
IsDocument(d) ==
  /\ d = [shape |-> d.shape, unknown |-> d.unknown, entries |-> d.entries]
  /\ DOMAIN d.entries \subseteq Nat

LEMMA FilesHaveDocuments ==
  ASSUME NEW f \in Files
  PROVE  IsDocument(f.document)
  BY FilesAssumption DEF IsDocument

\* The same document with other entries.
LEMMA OtherEntries ==
  ASSUME NEW d, IsDocument(d), NEW es, DOMAIN es \subseteq Nat
  PROVE  LET other == [d EXCEPT !.entries = es]
         IN  IsDocument(other) /\ other.entries = es /\ other.shape = d.shape
<1>1. PICK shape, unknown, entries : d = [shape |-> shape, unknown |-> unknown, entries |-> entries]
  BY DEF IsDocument
<1>2. [d EXCEPT !.entries = es] = [shape |-> shape, unknown |-> unknown, entries |-> es] /\ d.shape = shape
  BY <1>1
<1>. QED
  BY <1>2 DEF IsDocument

\* What becomes of an entry is one of four things.
LEMMA FourOutcomes ==
  ASSUME NEW e, NEW environ
  PROVE  ListenerRuntime(e, environ) \in {"started", "skipped", "refused", "crashed"}
<1>1. ASSUME NEW checks PROVE Reaction(e, checks) \in {"started", "refused", "crashed"}
  BY DEF Reaction
<1>. QED
  BY <1>1 DEF ListenerRuntime

Fatal(entries, environ) ==
  {i \in DOMAIN entries : ListenerRuntime(entries[i], environ) \in {"refused", "crashed"}}

\* The verdict on a document with entries.
LEMMA VerdictIs ==
  ASSUME NEW d, IsDocument(d), NEW environ, d.shape = "listeners"
  PROVE  LET c == LoadConfig(d, environ)
             es == d.entries
             fatal == Fatal(es, environ)
         IN  c.verdict = IF fatal # {} THEN ListenerRuntime(es[Min(fatal)], environ)
                         ELSE IF Started(es, environ) = {} \/ PortsClash(es, environ) THEN "refused"
                         ELSE "loaded"
<1>. DEFINE es == d.entries
            becomes == [i \in DOMAIN es |-> ListenerRuntime(es[i], environ)]
            fatal == {i \in DOMAIN es : becomes[i] \in {"refused", "crashed"}}
<1>1. fatal = Fatal(es, environ)
  BY DEF Fatal
<1>2. fatal # {} => becomes[Min(fatal)] = ListenerRuntime(es[Min(fatal)], environ)
  <2>1. fatal \subseteq Nat /\ fatal \subseteq DOMAIN es
    BY DEF IsDocument
  <2>2. fatal # {} => Min(fatal) \in DOMAIN es
    <3>. HIDE DEF fatal
    <3>. QED
      BY <2>1, LeastIsMember
  <2>. HIDE DEF fatal
  <2>. QED
    BY <2>2
<1>3. LoadConfig(d, environ).verdict =
        IF fatal # {} THEN becomes[Min(fatal)]
        ELSE IF Started(es, environ) = {} \/ PortsClash(es, environ) THEN "refused" ELSE "loaded"
  BY DEF LoadConfig
<1>. HIDE DEF es, becomes, fatal
<1>. QED
  BY <1>1, <1>2, <1>3 DEF es

\* A file loads if each of its entries starts or is skipped, at least one starts,
\* and their ports differ.
LEMMA LoadsWhen ==
  ASSUME NEW d, IsDocument(d), NEW environ, d.shape = "listeners"
  PROVE  /\ (LoadConfig(d, environ).verdict = "loaded") <=>
              /\ Fatal(d.entries, environ) = {} /\ Started(d.entries, environ) # {}
              /\ ~PortsClash(d.entries, environ)
         /\ LoadConfig(d, environ).verdict \in {"loaded", "refused", "crashed"}
<1>. DEFINE fatal == Fatal(d.entries, environ)
<1>1. fatal # {} => ListenerRuntime(d.entries[Min(fatal)], environ) \in {"refused", "crashed"}
  <2>1. fatal \subseteq Nat
    BY DEF IsDocument, Fatal
  <2>2. fatal # {} => Min(fatal) \in fatal
    <3>. HIDE DEF fatal
    <3>. QED
      BY <2>1, LeastIsMember
  <2>. QED
    BY <2>2 DEF Fatal
<1>. HIDE DEF fatal
<1>. QED
  BY <1>1, VerdictIs DEF fatal

\* Loading ends in one of three ways.
LEMMA LoadsInOrder ==
  ASSUME NEW d, IsDocument(d)
  PROVE  LoadConfig(d, Environ).verdict \in {"loaded", "refused", "crashed"}
<1>1. CASE d.shape = "listeners"
  BY <1>1, LoadsWhen
<1>2. CASE d.shape # "listeners"
  <2>1. LoadConfig(d, Environ).verdict = ReadJsonObject(d.shape)
    BY <1>2 DEF LoadConfig
  <2>2. ReadJsonObject(d.shape) \in {"refused", "crashed"}
    BY DEF ReadJsonObject
  <2>. QED
    BY <2>1, <2>2
<1>. QED
  BY <1>1, <1>2

\* What starts is what the entries that start say.
LEMMA ListenersAre ==
  ASSUME NEW d, NEW environ
  PROVE  LoadConfig(d, environ).listeners =
           IF LoadConfig(d, environ).verdict = "loaded"
           THEN [i \in Started(d.entries, environ) |-> ListenerOf(d.entries[i])] ELSE <<>>
  BY DEF LoadConfig

Skipped(entries, environ) == {i \in DOMAIN entries : ListenerRuntime(entries[i], environ) = "skipped"}

\* A load that fails for want of a listener tells which entries it skipped.
LEMMA WarningsAre ==
  ASSUME NEW d, NEW environ, LoadConfig(d, environ).verdict # "loaded"
  PROVE  LoadConfig(d, environ).warnings =
           IF Fatal(d.entries, environ) = {} /\ Started(d.entries, environ) = {}
           THEN {<<"skipped", d.entries[i]["port"]>> : i \in Skipped(d.entries, environ)} ELSE {}
<1>. DEFINE es == d.entries
            becomes == [i \in DOMAIN es |-> ListenerRuntime(es[i], environ)]
            fatal == {i \in DOMAIN es : becomes[i] \in {"refused", "crashed"}}
            skips == {<<"skipped", es[i]["port"]>> : i \in {j \in DOMAIN es : becomes[j] = "skipped"}}
<1>1. fatal = Fatal(es, environ)
  BY DEF Fatal
<1>2. {j \in DOMAIN es : becomes[j] = "skipped"} = Skipped(es, environ)
  BY DEF Skipped
<1>3. skips = {<<"skipped", es[i]["port"]>> : i \in Skipped(es, environ)}
  BY <1>2
<1>4. LoadConfig(d, environ).warnings = IF fatal = {} /\ Started(es, environ) = {} THEN skips ELSE {}
  BY DEF LoadConfig
<1>. HIDE DEF es, fatal, skips
<1>. QED
  BY <1>1, <1>3, <1>4 DEF es

\* Alone in a file, an entry is the only one, and its port no other's.
LEMMA AloneIs ==
  ASSUME NEW d, IsDocument(d), d.shape = "listeners", NEW environ, NEW e
  PROVE  LET alone == LoadConfig([d EXCEPT !.entries = <<e>>], environ)
             outcome == ListenerRuntime(e, environ)
         IN  /\ (alone.verdict = "loaded") <=> (outcome = "started")
             /\ outcome = "started" => alone.listeners[1] = ListenerOf(e)
             /\ outcome # "started" => ((alone.warnings # {}) <=> (outcome = "skipped"))
<1>. DEFINE one == [d EXCEPT !.entries = <<e>>]
            alone == LoadConfig(one, environ)
            outcome == ListenerRuntime(e, environ)
<1>1. IsDocument(one) /\ one.entries = <<e>> /\ one.shape = "listeners"
  <2>1. DOMAIN <<e>> \subseteq Nat
    OBVIOUS
  <2>. QED
    BY <2>1, OtherEntries
<1>. HIDE DEF one
<1>2. DOMAIN <<e>> = {1} /\ <<e>>[1] = e
  OBVIOUS
<1>3. Started(<<e>>, environ) = IF outcome = "started" THEN {1} ELSE {}
  BY <1>2 DEF Started
<1>4. ~PortsClash(<<e>>, environ)
  BY <1>3 DEF PortsClash
<1>5. Fatal(<<e>>, environ) = IF outcome \in {"refused", "crashed"} THEN {1} ELSE {}
  BY <1>2 DEF Fatal
<1>6. (alone.verdict = "loaded") <=> (outcome = "started")
  <2>1. (alone.verdict = "loaded") <=> Fatal(<<e>>, environ) = {} /\ Started(<<e>>, environ) # {}
    BY <1>1, <1>4, LoadsWhen
  <2>2. outcome \in {"started", "skipped", "refused", "crashed"}
    BY FourOutcomes
  <2>. HIDE DEF alone, outcome
  <2>. QED
    BY <1>3, <1>5, <2>1, <2>2
<1>7. outcome = "started" => alone.listeners[1] = ListenerOf(e)
  <2>. SUFFICES ASSUME outcome = "started" PROVE alone.listeners[1] = ListenerOf(e)
    OBVIOUS
  <2>1. alone.listeners = [i \in Started(<<e>>, environ) |-> ListenerOf(<<e>>[i])]
    <3>1. alone.verdict = "loaded"
      BY <1>6
    <3>. QED
      BY ONLY <1>1, <3>1, ListenersAre
  <2>. QED
    BY <1>2, <1>3, <2>1
<1>8. outcome # "started" => ((alone.warnings # {}) <=> (outcome = "skipped"))
  <2>. SUFFICES ASSUME outcome # "started" PROVE (alone.warnings # {}) <=> (outcome = "skipped")
    OBVIOUS
  <2>. DEFINE skips == {<<"skipped", <<e>>[i]["port"]>> : i \in Skipped(<<e>>, environ)}
  <2>1. alone.warnings = IF Fatal(<<e>>, environ) = {} /\ Started(<<e>>, environ) = {} THEN skips ELSE {}
    <3>1. alone.verdict # "loaded"
      BY <1>6
    <3>. QED
      BY ONLY <1>1, <3>1, WarningsAre
  <2>2. skips # {} <=> outcome = "skipped"
    <3>1. Skipped(<<e>>, environ) = IF outcome = "skipped" THEN {1} ELSE {}
      BY <1>2 DEF Skipped
    <3>. QED
      BY <3>1
  <2>. HIDE DEF skips, alone, outcome
  <2>. QED
    BY <1>3, <1>5, <2>1, <2>2
<1>. QED
  BY <1>6, <1>7, <1>8 DEF one

\* The entries that are not there change nothing if they are skipped.
LEMMA SkippedOnesAside ==
  ASSUME NEW d, IsDocument(d), d.shape = "listeners", NEW environ, NEW rest \in SUBSET DOMAIN d.entries,
         \A i \in DOMAIN d.entries \ rest : ListenerRuntime(d.entries[i], environ) = "skipped"
  PROVE  LET with == LoadConfig(d, environ)
             without == LoadConfig([d EXCEPT !.entries = [i \in rest |-> @[i]]], environ)
         IN  with.verdict = without.verdict /\ with.listeners = without.listeners
<1>. DEFINE es == d.entries
            fs == [i \in rest |-> es[i]]
            other == [d EXCEPT !.entries = fs]
<1>1. DOMAIN es \subseteq Nat /\ rest \subseteq DOMAIN es
  BY DEF IsDocument
<1>2. DOMAIN fs = rest /\ \A i \in rest : fs[i] = es[i]
  OBVIOUS
<1>3. IsDocument(other) /\ other.entries = fs /\ other.shape = "listeners"
  <2>1. DOMAIN fs \subseteq Nat
    BY <1>1, <1>2
  <2>. HIDE DEF fs
  <2>. QED
    BY <2>1, OtherEntries
<1>4. \A i \in DOMAIN es : i \notin rest => ListenerRuntime(es[i], environ) = "skipped"
  OBVIOUS
<1>5. other = [d EXCEPT !.entries = [i \in rest |-> @[i]]]
  OBVIOUS
<1>. HIDE DEF es, fs, other
<1>6. Started(es, environ) = Started(fs, environ) /\ Fatal(es, environ) = Fatal(fs, environ)
  BY <1>1, <1>2, <1>4 DEF Started, Fatal
<1>7. \A i \in Started(es, environ) \cup Fatal(es, environ) : es[i] = fs[i]
  BY <1>2, <1>6 DEF Started, Fatal
<1>8. PortsClash(es, environ) <=> PortsClash(fs, environ)
  BY <1>6, <1>7 DEF PortsClash
<1>9. Fatal(es, environ) # {} => Min(Fatal(es, environ)) \in Fatal(es, environ)
  <2>1. Fatal(es, environ) \subseteq Nat
    BY <1>1 DEF Fatal
  <2>. QED
    BY <2>1, LeastIsMember
<1>10. LoadConfig(d, environ).verdict = LoadConfig(other, environ).verdict
  <2>. DEFINE first == Min(Fatal(es, environ))
  <2>1. LoadConfig(d, environ).verdict =
          IF Fatal(es, environ) # {} THEN ListenerRuntime(es[first], environ)
          ELSE IF Started(es, environ) = {} \/ PortsClash(es, environ) THEN "refused" ELSE "loaded"
    BY VerdictIs DEF es
  <2>2. LoadConfig(other, environ).verdict =
          IF Fatal(fs, environ) # {} THEN ListenerRuntime(fs[Min(Fatal(fs, environ))], environ)
          ELSE IF Started(fs, environ) = {} \/ PortsClash(fs, environ) THEN "refused" ELSE "loaded"
    BY <1>3, VerdictIs
  <2>3. Fatal(es, environ) # {} => es[first] = fs[first]
    BY <1>7, <1>9
  <2>4. first = Min(Fatal(fs, environ))
    BY <1>6
  <2>. HIDE DEF first
  <2>. QED
    BY <1>6, <1>8, <2>1, <2>2, <2>3, <2>4
<1>11. LoadConfig(d, environ).listeners = LoadConfig(other, environ).listeners
  <2>1. [i \in Started(es, environ) |-> ListenerOf(es[i])] = [i \in Started(fs, environ) |-> ListenerOf(fs[i])]
    BY <1>6, <1>7
  <2>2. LoadConfig(d, environ).listeners =
          IF LoadConfig(d, environ).verdict = "loaded"
          THEN [i \in Started(es, environ) |-> ListenerOf(es[i])] ELSE <<>>
    BY ListenersAre DEF es
  <2>3. LoadConfig(other, environ).listeners =
          IF LoadConfig(other, environ).verdict = "loaded"
          THEN [i \in Started(fs, environ) |-> ListenerOf(fs[i])] ELSE <<>>
    BY ONLY <1>3, ListenersAre
  <2>. QED
    BY ONLY <1>10, <2>1, <2>2, <2>3
<1>. QED
  BY <1>5, <1>10, <1>11

\* An entry that has a port and a mode but not its section is skipped.
LEMMA LackingIsSkipped ==
  ASSUME NEW e, NEW environ, At(e, "port") \in PortCheck.takes, At(e, "mode") \in Modes, LacksSection(e)
  PROVE  ListenerRuntime(e, environ) = "skipped"
<1>. DEFINE checks == <<PortCheck, ModeCheck>>
<1>1. DOMAIN checks = {1, 2} /\ checks[1] = PortCheck /\ checks[2] = ModeCheck
  OBVIOUS
<1>2. PortCheck.key = "port" /\ ModeCheck.key = "mode" /\ ModeCheck.takes = Modes
  BY DEF PortCheck, ModeCheck, Check
<1>. HIDE DEF checks
<1>3. \A i \in DOMAIN checks : At(e, checks[i].key) \in checks[i].takes
  BY <1>1, <1>2
<1>4. Reaction(e, checks) = "started"
  BY <1>3 DEF Reaction
<1>. QED
  BY <1>4 DEF ListenerRuntime, checks

-----------------------------------------------------------------------------
(* The key of a listener.                                                   *)

\* A sequence of whatever its elements are.
IsSequence(s) == s \in Seq(Range(s))

LEMMA TuplesAreSequences ==
  ASSUME NEW u, NEW v, NEW w, NEW x, NEW y, NEW z
  PROVE  /\ IsSequence(<<>>) /\ IsSequence(<<u>>) /\ IsSequence(<<u, v>>) /\ IsSequence(<<u, v, w>>)
         /\ IsSequence(<<u, v, w, x>>) /\ IsSequence(<<u, v, w, x, y>>) /\ IsSequence(<<u, v, w, x, y, z>>)
<1>1. IsSequence(<<>>)
  BY DEF IsSequence, Range
<1>2. IsSequence(<<u>>)
  BY DEF IsSequence, Range
<1>3. IsSequence(<<u, v>>)
  BY DEF IsSequence, Range
<1>4. IsSequence(<<u, v, w>>)
  BY DEF IsSequence, Range
<1>5. IsSequence(<<u, v, w, x>>)
  BY DEF IsSequence, Range
<1>6. IsSequence(<<u, v, w, x, y>>)
  BY DEF IsSequence, Range
<1>7. IsSequence(<<u, v, w, x, y, z>>)
  BY DEF IsSequence, Range
<1>. QED
  BY <1>1, <1>2, <1>3, <1>4, <1>5, <1>6, <1>7

\* Two sequences together have the elements of both.
LEMMA BothAreOne ==
  ASSUME NEW a, NEW b, IsSequence(a), IsSequence(b)
  PROVE  IsSequence(a \o b) /\ Range(a) \subseteq Range(a \o b) /\ Range(b) \subseteq Range(a \o b)
<1>. DEFINE S == Range(a) \cup Range(b)
            c == a \o b
            m == Len(a)
            n == Len(b)
<1>1. a \in Seq(S) /\ b \in Seq(S)
  <2>1. \A x : x \in Seq(Range(a)) \/ x \in Seq(Range(b)) => x \in Seq(S)
    <3>. DEFINE A == Range(a)
                B == Range(b)
    <3>. HIDE DEF A, B
    <3>1. \A x : x \in Seq(A) \/ x \in Seq(B) => x \in Seq(A \cup B)
      OBVIOUS
    <3>. QED
      BY <3>1 DEF A, B
  <2>. QED
    BY <2>1 DEF IsSequence
<1>2. c \in Seq(S) /\ IsJoin(c, a, m, b, n)
  <2>. HIDE DEF S
  <2>. QED
    BY <1>1, Joined
<1>3. m \in Nat /\ n \in Nat /\ DOMAIN a = 1 .. m /\ DOMAIN b = 1 .. n
  <2>. HIDE DEF S
  <2>. QED
    BY <1>1
<1>. HIDE DEF c, m, n
<1>4. Len(c) = m + n /\ (\A i \in 1 .. m : c[i] = a[i]) /\ (\A i \in 1 .. n : c[m + i] = b[i])
  BY ONLY <1>2 DEF IsJoin
<1>5. DOMAIN c = 1 .. m + n
  <2>. HIDE DEF S
  <2>. QED
    BY <1>2, <1>4
<1>6. \A i \in 1 .. m : i \in 1 .. m + n
  BY <1>3
<1>7. \A i \in 1 .. n : m + i \in 1 .. m + n
  BY <1>3
<1>8. Range(a) \subseteq Range(c)
  BY ONLY <1>3, <1>4, <1>5, <1>6 DEF Range
<1>9. Range(b) \subseteq Range(c)
  BY ONLY <1>3, <1>4, <1>5, <1>7 DEF Range
<1>10. \A i \in 1 .. Len(c) : c[i] \in Range(c)
  BY <1>4, <1>5 DEF Range
<1>11. c \in Seq(Range(c))
  <2>1. Len(c) \in Nat /\ c = [i \in 1 .. Len(c) |-> c[i]]
    <3>. HIDE DEF S
    <3>. QED
      BY <1>2
  <2>. DEFINE R == Range(c)
  <2>. HIDE DEF R
  <2>2. \A i \in 1 .. Len(c) : c[i] \in R
    BY <1>10 DEF R
  <2>3. c \in Seq(R)
    BY ONLY <2>1, <2>2
  <2>. QED
    BY <2>3 DEF R
<1>. QED
  BY <1>8, <1>9, <1>11 DEF IsSequence, c

\* The checks before those of the upstream.
LEMMA SectionChecksAre ==
  ASSUME NEW mode
  PROVE  IsSequence(SectionChecks(mode))
<1>1. IsSequence(GrokImageChecks) /\ IsSequence(GrokImageEditChecks) /\ IsSequence(GeminiImageChecks)
  BY TuplesAreSequences DEF GrokImageChecks, GrokImageEditChecks, GeminiImageChecks
<1>2. IsSequence(FeatherlessChecks)
  BY TuplesAreSequences DEF FeatherlessChecks
<1>3. IsSequence(<<>>)
  BY TuplesAreSequences
<1>. QED
  BY <1>1, <1>2, <1>3 DEF SectionChecks

LEMMA LoggingChecksAre ==
  ASSUME NEW e
  PROVE  IsSequence(LoggingChecks(e))
<1>. DEFINE on == At(e, "file.enabled") = "true"
<1>1. IsSequence(FileChecks(e))
  <2>. DEFINE a == <<Check("file", Optional({"object"})), RejectUnknownKeys("file"),
                     Check("file.enabled", Optional(Boolean))>>
              b == IF on THEN <<Check("file.path", {"/log"}),
                                Check("file.max_bytes", Optional(PositiveInteger)),
                                Check("file.backup_count", Optional(PositiveInteger))>>
                   ELSE <<>>
  <2>1. IsSequence(a)
    BY TuplesAreSequences
  <2>2. IsSequence(b)
    BY TuplesAreSequences
  <2>3. FileChecks(e) = a \o b
    BY DEF FileChecks
  <2>. HIDE DEF a, b
  <2>. QED
    BY <2>1, <2>2, <2>3, BothAreOne
<1>2. IsSequence(CaptureChecks) /\ IsSequence(RedactionChecks)
  BY TuplesAreSequences DEF CaptureChecks, RedactionChecks
<1>. DEFINE a == <<RejectUnknownKeys("logging"), Check("stdout", Optional(Boolean))>>
            b == IF on THEN <<>> ELSE <<Check("stdout", Optional({"true"}))>>
<1>3. IsSequence(a) /\ IsSequence(b)
  BY TuplesAreSequences
<1>4. LoggingChecks(e) = (((a \o FileChecks(e)) \o CaptureChecks) \o RedactionChecks) \o b
  BY DEF LoggingChecks
<1>. HIDE DEF a, b
<1>. QED
  BY ONLY <1>1, <1>2, <1>3, <1>4, BothAreOne

LEMMA FeatureChecksAre ==
  ASSUME NEW e
  PROVE  IsSequence(FeatureChecks(e))
<1>. DEFINE features == Check("features", Optional({"[]", "items"}))
            second == Check("feature 2", {"absent"})
            a == <<features>>
            b == <<Check("feature", {"object"}), RejectUnknownKeys("feature"),
                   Check("feature.name", {"logging"}), Check("logging", {"object"})>>
            c == <<second>>
            rest == IF At(e, "features") # "items" THEN <<>> ELSE (b \o LoggingChecks(e)) \o c
<1>1. FeatureChecks(e) = a \o rest
  BY DEF FeatureChecks
<1>. HIDE DEF features, second
<1>2. IsSequence(a) /\ IsSequence(c) /\ IsSequence(<<>>) /\ IsSequence(b)
  <2>1. IsSequence(a)
    BY TuplesAreSequences
  <2>2. IsSequence(b)
    BY TuplesAreSequences
  <2>3. IsSequence(c)
    BY TuplesAreSequences
  <2>4. IsSequence(<<>>)
    BY TuplesAreSequences
  <2>. HIDE DEF a, b, c
  <2>. QED
    BY <2>1, <2>2, <2>3, <2>4
<1>. HIDE DEF a, b, c
<1>3. IsSequence((b \o LoggingChecks(e)) \o c)
  BY <1>2, LoggingChecksAre, BothAreOne
<1>4. IsSequence(rest)
  BY <1>2, <1>3
<1>. HIDE DEF rest
<1>. QED
  BY ONLY <1>1, <1>2, <1>4, BothAreOne

\* No check of an entry that starts fails.
LEMMA AllChecksHold ==
  ASSUME NEW e, NEW checks, Reaction(e, checks) = "started", NEW i \in DOMAIN checks
  PROVE  At(e, checks[i].key) \in checks[i].takes
<1>. DEFINE failing == {j \in DOMAIN checks : At(e, checks[j].key) \notin checks[j].takes}
<1>1. failing # {} => Reaction(e, checks) # "started"
  BY DEF Reaction
<1>. QED
  BY <1>1

\* An entry that starts has a mode, and unless it is featherless's a key that the
\* environment has.
LEMMA StartedHasKey ==
  ASSUME NEW e, ListenerRuntime(e, Environ) = "started"
  PROVE  e["mode"] \in Modes /\ (e["mode"] # "featherless" => e["upstream.api_key_env"] \in Environ)
<1>. DEFINE first == <<PortCheck, ModeCheck>>
            checks == EntryChecks(e, Environ)
<1>1. Reaction(e, first) = "started" /\ Reaction(e, checks) = "started"
  BY DEF ListenerRuntime
<1>2. e["mode"] \in Modes
  <2>1. 2 \in DOMAIN first /\ first[2].key = "mode" /\ first[2].takes = Modes
    BY DEF ModeCheck, Check
  <2>. HIDE DEF first
  <2>2. At(e, "mode") \in Modes
    BY <1>1, <2>1, AllChecksHold
  <2>3. "absent" \notin Modes
    BY DEF Modes
  <2>. QED
    BY <2>2, <2>3 DEF At
<1>3. ASSUME e["mode"] # "featherless" PROVE e["upstream.api_key_env"] \in Environ
  <2>. DEFINE key == Check("upstream.api_key_env", Environ)
              s == SectionChecks(e["mode"])
              f == FeatureChecks(e)
              u == UpstreamChecks(e, Environ)
              t == TimeoutChecks
  <2>1. IsSequence(s) /\ IsSequence(f)
    BY SectionChecksAre, FeatureChecksAre
  <2>2. u = <<Check("upstream", {"object"}), key, Check("upstream.base_url", {"url"})>>
    BY <1>3 DEF UpstreamChecks
  <2>3. IsSequence(t)
    BY TuplesAreSequences DEF TimeoutChecks
  <2>. HIDE DEF key, u
  <2>4. IsSequence(u)
    BY <2>2, TuplesAreSequences
  <2>5. key \in Range(u)
    <3>1. 2 \in DOMAIN u /\ u[2] = key
      BY <2>2
    <3>. QED
      BY ONLY <3>1 DEF Range
  <2>6. checks = ((s \o f) \o u) \o t
    BY DEF EntryChecks, u
  <2>. HIDE DEF s, f, t, checks
  <2>7. IsSequence(s \o f)
    BY ONLY <2>1, BothAreOne
  <2>8. IsSequence((s \o f) \o u) /\ key \in Range((s \o f) \o u)
    BY ONLY <2>4, <2>5, <2>7, BothAreOne
  <2>9. key \in Range(checks)
    BY ONLY <2>3, <2>6, <2>8, BothAreOne
  <2>10. key.key = "upstream.api_key_env" /\ key.takes = Environ
    BY DEF key, Check
  <2>11. At(e, "upstream.api_key_env") \in Environ
    BY <1>1, <2>9, <2>10, AllChecksHold DEF Range
  <2>. QED
    BY <2>11, EnvironAssumption DEF At
<1>. QED
  BY <1>2, <1>3

\* Only featherless has operations that take the client's credentials.
LEMMA OthersAreNotGated ==
  ASSUME NEW mode \in Modes \ {"featherless"}, NEW method, NEW path
  PROVE  RouteOf(mode, method, path) # "gated"
<1>1. ASSUME mode # "passthrough", path \in DOMAIN ImageRoutes(mode)
      PROVE  ImageRoutes(mode)[path][2] \in {"image", "relay", "list"}
  <2>1. mode \in {"grok-image", "grok-image-edit", "gemini-image"}
    BY <1>1 DEF Modes
  <2>2. CASE mode = "grok-image"
    BY <1>1, <2>2 DEF ImageRoutes, GrokImageRoutes
  <2>3. CASE mode = "grok-image-edit"
    BY <1>1, <2>3 DEF ImageRoutes, GrokImageEditRoutes
  <2>4. CASE mode = "gemini-image"
    BY <1>1, <2>4 DEF ImageRoutes, GeminiRoutes
  <2>. QED
    BY <2>1, <2>2, <2>3, <2>4
<1>2. mode # "featherless"
  OBVIOUS
<1>. QED
  BY <1>1, <1>2 DEF RouteOf

-----------------------------------------------------------------------------
(* Bodies of image requests.                                                *)

\* What a field is that the client says nothing about.
Otherwise(fields, settings, k) ==
  CASE k = "model" -> settings["default_model"]
    [] k = "response_format" -> "b64_json"
    [] OTHER -> IF k \in DOMAIN fields THEN "null" ELSE settings[k]

\* The body says what the fields say, without those that are dropped and whatever
\* it has under the names in set.
Tells(body, fields, settings, dropped, set) ==
  /\ DOMAIN fields \ dropped \subseteq DOMAIN body
  /\ \A k \in DOMAIN fields \ (dropped \cup set) : Given(fields, k) => body[k] = fields[k]
  /\ \A k \in DOMAIN body \ set : Given(fields, k) \/ body[k] = Otherwise(fields, settings, k)
  /\ DOMAIN body \cap dropped = {}
  /\ body["model"] # "none"

LEMMA BasicsTell ==
  ASSUME NEW fields, NEW settings, NEW counts, NEW formats, BasicsHold(fields, settings, counts, formats),
         NEW dropped, dropped \subseteq RemovedKeys,
         NEW rest, DOMAIN rest = DOMAIN fields \ dropped, \A k \in DOMAIN rest : rest[k] = fields[k]
  PROVE  Tells(With(Basics(fields, settings), rest), fields, settings, dropped, {})
<1>. DEFINE basics == {"prompt", "model", "response_format"}
            B == Basics(fields, settings)
            body == With(B, rest)
<1>1. /\ DOMAIN B = basics /\ B["prompt"] = fields["prompt"]
      /\ B["model"] = ValueOr(fields, "model", settings["default_model"])
      /\ B["response_format"] = ValueOr(fields, "response_format", "b64_json")
  BY DEF Basics
<1>2. basics \cap dropped = {}
  BY DEF RemovedKeys
<1>3. "prompt" \in DOMAIN fields /\ fields["prompt"] # "null" /\ B["model"] # "none"
  BY <1>1 DEF BasicsHold
<1>. HIDE DEF B
<1>4. /\ DOMAIN body = basics \cup (DOMAIN fields \ dropped)
      /\ \A k \in basics : body[k] = B[k]
      /\ \A k \in DOMAIN body \ basics : body[k] = fields[k]
  BY <1>1 DEF With
<1>. HIDE DEF body
<1>5. ASSUME NEW k \in basics, Given(fields, k) PROVE body[k] = fields[k]
  BY <1>1, <1>4, <1>5 DEF ValueOr
<1>6. ASSUME NEW k \in basics, ~Given(fields, k) PROVE body[k] = Otherwise(fields, settings, k)
  <2>1. k # "prompt"
    BY <1>3, <1>6 DEF Given
  <2>2. CASE k = "model"
    BY <1>1, <1>4, <1>6, <2>2 DEF ValueOr, Otherwise
  <2>3. CASE k = "response_format"
    BY <1>1, <1>4, <1>6, <2>3 DEF ValueOr, Otherwise
  <2>. QED
    BY <2>1, <2>2, <2>3
<1>7. ASSUME NEW k \in DOMAIN body \ basics, ~Given(fields, k) PROVE body[k] = Otherwise(fields, settings, k)
  <2>1. k \in DOMAIN fields /\ fields[k] = "null" /\ k # "model" /\ k # "response_format"
    BY <1>4, <1>7 DEF Given
  <2>2. Otherwise(fields, settings, k) = "null"
    BY <2>1 DEF Otherwise
  <2>. QED
    BY <1>4, <2>1, <2>2
<1>8. body["model"] # "none"
  BY <1>3, <1>4
<1>. HIDE DEF basics
<1>9. Tells(body, fields, settings, dropped, {})
  BY <1>2, <1>4, <1>5, <1>6, <1>7, <1>8 DEF Tells
<1>. QED
  BY <1>9 DEF body, B

\* Settings tell of what the client does not.
LEMMA DefaultsTell ==
  ASSUME NEW body, NEW fields, NEW settings, NEW dropped, dropped \subseteq RemovedKeys, NEW set,
         Tells(body, fields, settings, dropped, set), "model" \in DOMAIN body,
         NEW names, names \subseteq {"aspect_ratio", "resolution"}
  PROVE  Tells(WithDefaults(body, settings, names), fields, settings, dropped, set)
<1>. DEFINE more == {n \in names : settings[n] # "none"}
            full == WithDefaults(body, settings, names)
<1>1. /\ DOMAIN full = DOMAIN body \cup more
      /\ \A k \in DOMAIN body : full[k] = body[k]
      /\ \A k \in more \ DOMAIN body : full[k] = settings[k]
  BY DEF WithDefaults, With
<1>2. more \cap dropped = {}
  BY DEF RemovedKeys
<1>3. "model" \notin more /\ "response_format" \notin more
  OBVIOUS
<1>. HIDE DEF full, more
<1>4. ASSUME NEW k \in more \ DOMAIN body PROVE full[k] = Otherwise(fields, settings, k)
  <2>1. k \notin DOMAIN fields
    BY <1>2 DEF Tells
  <2>. QED
    BY <1>1, <1>3, <2>1 DEF Otherwise
<1>5. Tells(full, fields, settings, dropped, set)
  BY <1>1, <1>2, <1>4 DEF Tells
<1>. QED
  BY <1>5 DEF full

\* Fields put before the others are set.
LEMMA OthersTell ==
  ASSUME NEW body, NEW fields, NEW settings, NEW dropped,
         Tells(body, fields, settings, dropped, {}), "model" \in DOMAIN body,
         NEW extra, DOMAIN extra \cap dropped = {}, "model" \notin DOMAIN extra
  PROVE  /\ Tells(With(extra, body), fields, settings, dropped, DOMAIN extra)
         /\ "model" \in DOMAIN With(extra, body)
<1>1. /\ DOMAIN With(extra, body) = DOMAIN extra \cup DOMAIN body
      /\ \A k \in DOMAIN body \ DOMAIN extra : With(extra, body)[k] = body[k]
  BY DEF With
<1>. QED
  BY <1>1 DEF Tells

LEMMA WithBasicsHasModel ==
  ASSUME NEW fields, NEW settings, NEW rest
  PROVE  "model" \in DOMAIN With(Basics(fields, settings), rest)
BY DEF With, Basics

LEMMA GrokImageTells ==
  ASSUME NEW fields, NEW settings, GrokImageBody(fields, settings) # Refused
  PROVE  Tells(GrokImageBody(fields, settings), fields, settings, RemovedKeys, {})
<1>. DEFINE rest == [k \in DOMAIN fields \ RemovedKeys |-> fields[k]]
            body == With(Basics(fields, settings), rest)
<1>1. /\ BasicsHold(fields, settings, {"1", "10"}, {"url", "b64_json"})
      /\ GrokImageBody(fields, settings) = WithDefaults(body, settings, {"aspect_ratio", "resolution"})
  BY DEF GrokImageBody
<1>2. Tells(body, fields, settings, RemovedKeys, {})
  <2>1. DOMAIN rest = DOMAIN fields \ RemovedKeys /\ \A k \in DOMAIN rest : rest[k] = fields[k]
    OBVIOUS
  <2>. HIDE DEF rest
  <2>. QED
    BY <1>1, <2>1, BasicsTell
<1>3. "model" \in DOMAIN body
  BY WithBasicsHasModel
<1>. HIDE DEF body
<1>. QED
  BY <1>1, <1>2, <1>3, DefaultsTell

LEMMA GeminiTells ==
  ASSUME NEW fields, NEW settings, GeminiBody(fields, settings) # Refused
  PROVE  Tells(GeminiBody(fields, settings), fields, settings, {}, {})
<1>. DEFINE body == With(Basics(fields, settings), fields)
            names == IF "size" \in DOMAIN fields THEN {} ELSE {"aspect_ratio"}
<1>1. /\ BasicsHold(fields, settings, {"1"}, {"b64_json"})
      /\ GeminiBody(fields, settings) = WithDefaults(body, settings, names)
  BY DEF GeminiBody
<1>2. Tells(body, fields, settings, {}, {})
  <2>1. DOMAIN fields = DOMAIN fields \ {}
    OBVIOUS
  <2>. QED
    BY <1>1, <2>1, BasicsTell
<1>3. "model" \in DOMAIN body
  BY WithBasicsHasModel
<1>4. names \subseteq {"aspect_ratio", "resolution"}
  OBVIOUS
<1>. HIDE DEF body, names
<1>. QED
  BY <1>1, <1>2, <1>3, <1>4, DefaultsTell

\* No text field of a form has the name of one that is dropped.
LEMMA TextsAreKept ==
  ASSUME NEW parts
  PROVE  DOMAIN FormFields(parts) \cap RemovedKeys = {}
<1>. DEFINE texts == {i \in DOMAIN parts : ~parts[i].file /\ parts[i].name \notin ImageNames \cup RemovedKeys}
<1>1. DOMAIN FormFields(parts) = {parts[i].name : i \in texts}
  BY DEF FormFields
<1>. QED
  BY <1>1

\* The name under which the pictures go.
PicturesName(pictures) == IF Len(pictures) = 1 THEN "image" ELSE "images"

\* The texts of a form, without a model that is empty.
SaidBy(texts) ==
  IF ValueOr(texts, "model", "null") = "blank" THEN [k \in DOMAIN texts \ {"model"} |-> texts[k]] ELSE texts

\* An edit's body has all the form's pictures and says what its texts say.
TellsOfForm(body, parts, settings) ==
  LET pictures == Pictures(parts)
      name == PicturesName(pictures)
  IN  /\ Tells(body, SaidBy(FormFields(parts)), settings, RemovedKeys, {name})
      /\ body[name] = ToString([i \in DOMAIN pictures |-> pictures[i].data])

LEMMA EditTells ==
  ASSUME NEW parts, NEW body, NEW type, NEW settings, EditBody(type, body, settings) # Refused,
         NEW form, ParseMultipart(body) = form, form.ok => form.parts = parts
  PROVE  form.ok /\ TellsOfForm(EditBody(type, body, settings), parts, settings)
<1>. DEFINE texts == FormFields(form.parts)
            fields == SaidBy(texts)
            pictures == Pictures(form.parts)
            name == PicturesName(pictures)
            basic == With(Basics(fields, settings), fields)
            pictured == With(Images(pictures), basic)
            whole == WithDefaults(pictured, settings, {"aspect_ratio", "resolution"})
            sentBody == EditBody(type, body, settings)
<1>1. /\ form.ok /\ BasicsHold(fields, settings, {"1", "10"}, {"url", "b64_json"})
      /\ sentBody = whole
  BY DEF EditBody, SaidBy
<1>2. form.parts = parts
  BY <1>1
<1>3. DOMAIN fields = DOMAIN fields \ RemovedKeys
  <2>1. DOMAIN texts \cap RemovedKeys = {}
    BY TextsAreKept
  <2>. HIDE DEF texts
  <2>2. DOMAIN fields \subseteq DOMAIN texts
    BY DEF SaidBy
  <2>. QED
    BY <2>1, <2>2
<1>4. DOMAIN Images(pictures) = {name}
      /\ Images(pictures)[name] = ToString([i \in DOMAIN pictures |-> pictures[i].data])
  BY DEF Images, Field, PicturesName
<1>5. name \in {"image", "images"} /\ name \notin RemovedKeys /\ name # "model"
      /\ name \notin {"aspect_ratio", "resolution"}
  BY DEF PicturesName, RemovedKeys
<1>. HIDE DEF texts, fields, pictures, name
<1>6. Tells(basic, fields, settings, RemovedKeys, {})
  BY <1>1, <1>3, BasicsTell
<1>7. "model" \in DOMAIN basic
  BY WithBasicsHasModel
<1>. HIDE DEF basic
<1>8. DOMAIN Images(pictures) \cap RemovedKeys = {} /\ "model" \notin DOMAIN Images(pictures)
  BY <1>4, <1>5
<1>9. Tells(pictured, fields, settings, RemovedKeys, {name}) /\ "model" \in DOMAIN pictured
  <2>1. /\ Tells(pictured, fields, settings, RemovedKeys, DOMAIN Images(pictures))
        /\ "model" \in DOMAIN pictured
    BY <1>6, <1>7, <1>8, OthersTell
  <2>. HIDE DEF pictured
  <2>. QED
    BY <1>4, <2>1
<1>10. name \in DOMAIN pictured /\ pictured[name] = ToString([i \in DOMAIN pictures |-> pictures[i].data])
  BY <1>4 DEF With
<1>. HIDE DEF pictured
<1>11. Tells(whole, fields, settings, RemovedKeys, {name})
  BY <1>9, DefaultsTell
<1>12. whole[name] = pictured[name]
  BY <1>10 DEF WithDefaults, With
<1>13. TellsOfForm(whole, form.parts, settings)
  BY <1>10, <1>11, <1>12 DEF TellsOfForm, texts, fields, pictures, name
<1>. QED
  BY <1>1, <1>2, <1>13

\* Image routes are those of the three image modes.
LEMMA ImagesHaveModes ==
  ASSUME NEW mode \in Modes, NEW method, NEW path, RouteOf(mode, method, path) = "image"
  PROVE  mode \in {"grok-image", "grok-image-edit", "gemini-image"}
<1>1. mode # "passthrough"
  BY DEF RouteOf
<1>2. mode # "featherless"
  <2>1. ClassifyFeatherless(method, path) # "image"
    BY DEF ClassifyFeatherless
  <2>. QED
    BY <2>1 DEF RouteOf
<1>. QED
  BY <1>1, <1>2 DEF Modes

-----------------------------------------------------------------------------
(* The invariant.                                                           *)

LEMMA Initially == Init => IInv
  BY DEF Init, IInv, LoadedAsWritten, Loaded, KeyIsSet, Serving, SentAsMade, AnsweredAsMade

\* A step that keeps the listener keeps its key, and what was loaded is gone.
LEMMA ListenerStays ==
  ASSUME IInv, Serving, Serving', listener' = listener
  PROVE  LoadedAsWritten' /\ KeyIsSet'
<1>1. stage' # "file" /\ ~Loaded'
  BY DEF Serving, Loaded
<1>2. KeyIsSet'
  BY DEF IInv, KeyIsSet
<1>. QED
  BY <1>1, <1>2 DEF LoadedAsWritten

LEMMA Inductive == IInv /\ [Next]_vars => IInv'
<1>. SUFFICES ASSUME IInv, [Next]_vars PROVE IInv'
  OBVIOUS
<1>1. CASE Loads
  <2>. DEFINE loaded == LoadConfig(file.document, Environ)
  <2>1. file \in Files /\ received = None
    BY <1>1 DEF IInv, LoadedAsWritten, Loads
  <2>2. IsDocument(file.document) /\ DocumentOf(file) = file.document
    BY <2>1, FilesHaveDocuments, CommentsAreNoContent
  <2>3. config' = loaded /\ stage' = loaded.verdict /\ file' = file
    BY <1>1, <2>2 DEF Loads
  <2>4. loaded.verdict \in {"loaded", "refused", "crashed"}
    BY <2>2, LoadsInOrder
  <2>5. LoadedAsWritten'
    BY <2>1, <2>3 DEF LoadedAsWritten
  <2>. HIDE DEF loaded
  <2>6. stage' \in {"loaded", "refused", "crashed"} /\ received' = None
    BY <1>1, <2>1, <2>3, <2>4 DEF Loads
  <2>. QED
    BY <2>5, <2>6 DEF IInv, KeyIsSet, Serving, SentAsMade, AnsweredAsMade
<1>2. CASE Starts
  <2>. DEFINE loaded == LoadConfig(file.document, Environ)
  <2>1. stage = "loaded" /\ stage' = "serving" /\ config = loaded /\ received = None /\ received' = received
    BY <1>2 DEF Starts, IInv, LoadedAsWritten, Loaded
  <2>2. PICK i \in DOMAIN config.listeners :
          listener' = [mode |-> config.listeners[i].mode, key |-> config.listeners[i].key,
                       settings |-> ModeSettings(config.listeners[i])]
    BY <1>2 DEF Starts
  <2>. DEFINE e == file.document.entries[i]
  <2>3. i \in Started(file.document.entries, Environ) /\ config.listeners[i] = ListenerOf(e)
    <3>1. loaded.listeners = IF loaded.verdict = "loaded"
                             THEN [j \in Started(file.document.entries, Environ) |-> ListenerOf(file.document.entries[j])]
                             ELSE <<>>
      BY ListenersAre
    <3>2. DOMAIN <<>> = {}
      OBVIOUS
    <3>. HIDE DEF loaded
    <3>. QED
      BY <2>1, <2>2, <3>1, <3>2
  <2>4. ListenerRuntime(e, Environ) = "started"
    BY <2>3 DEF Started
  <2>. HIDE DEF e
  <2>5. listener'.mode = e["mode"]
        /\ listener'.key = IF e["mode"] = "featherless" THEN "" ELSE e["upstream.api_key_env"]
    <3>1. ListenerOf(e).mode = e["mode"]
      BY DEF ListenerOf
    <3>2. ListenerOf(e).key = IF e["mode"] = "featherless" THEN "" ELSE e["upstream.api_key_env"]
      BY DEF ListenerOf
    <3>3. listener'.mode = config.listeners[i].mode /\ listener'.key = config.listeners[i].key
      BY <2>2
    <3>. QED
      BY <2>3, <3>1, <3>2, <3>3
  <2>6. KeyIsSet'
    BY <2>4, <2>5, StartedHasKey DEF KeyIsSet
  <2>7. LoadedAsWritten'
    BY <2>1 DEF LoadedAsWritten, Loaded
  <2>. QED
    BY <2>1, <2>6, <2>7 DEF IInv, SentAsMade, AnsweredAsMade
<1>3. CASE Ends
  <2>1. LoadedAsWritten' /\ KeyIsSet'
    BY <1>3, ListenerStays DEF Ends, Serving
  <2>. QED
    BY <1>3, <2>1 DEF Ends, IInv, SentAsMade, AnsweredAsMade
<1>4. ASSUME NEW r \in Requests, Answers(r) PROVE IInv'
  <2>1. LoadedAsWritten' /\ KeyIsSet'
    BY <1>4, ListenerStays DEF Answers, Takes, Serving
  <2>. QED
    BY <1>4, <2>1 DEF Answers, Takes, IInv, SentAsMade, AnsweredAsMade
<1>5. ASSUME NEW r \in Requests, Takes(r), stage' = "sent", received' = received, SentHeaders(r, sent'),
             SentBody(r, sent')
      PROVE  IInv'
  <2>1. LoadedAsWritten' /\ KeyIsSet'
    BY <1>5, ListenerStays DEF Takes, Serving
  <2>2. received' = None /\ stage' # "answered"
    BY <1>5 DEF Takes, IInv
  <2>3. SentAsMade' /\ AnsweredAsMade'
    <3>1. request' = r /\ listener' = listener
      BY <1>5 DEF Takes
    <3>2. SentHeaders(request, sent)'
      BY <1>5, <3>1 DEF SentHeaders, RouteFor
    <3>3. SentBody(request, sent)'
      <4>1. RouteFor(request)' = RouteFor(r) /\ Transformed(request)' = Transformed(r)
        BY <3>1 DEF RouteFor, Transformed
      <4>. QED
        BY <1>5, <4>1 DEF SentBody
    <3>. QED
      BY <1>5, <3>1, <3>2, <3>3 DEF SentAsMade, AnsweredAsMade
  <2>. QED
    BY <2>1, <2>2, <2>3 DEF IInv
<1>6. ASSUME NEW r \in Requests, Streams(r) PROVE IInv'
  <2>1. SentHeaders(r, sent') /\ SentBody(r, sent')
    BY <1>6 DEF Streams, Sends, SentHeaders, SentBody
  <2>. QED
    BY <1>5, <1>6, <2>1 DEF Streams, Sends
<1>7. ASSUME NEW r \in Requests, Gates(r) PROVE IInv'
  <2>1. SentHeaders(r, sent') /\ SentBody(r, sent')
    BY <1>7 DEF Gates, Sends, SentHeaders, SentBody
  <2>. QED
    BY <1>5, <1>7, <2>1 DEF Gates, Sends
<1>8. ASSUME NEW r \in Requests, NEW bytes \in {"nothing", "buffered", "transformed"}, NEW fields,
             RouteFor(r) \in {"image", "list"}, SendsBuffered(r, bytes, fields)
      PROVE  SentHeaders(r, sent')
  BY <1>8 DEF SendsBuffered, Sends, SentHeaders
<1>9. ASSUME NEW r \in Requests, Lists(r) PROVE IInv'
  <2>1. SentHeaders(r, sent') /\ SentBody(r, sent')
    BY <1>8, <1>9 DEF Lists, SentBody
  <2>. QED
    BY <1>5, <1>9, <2>1 DEF Lists, SendsBuffered, Sends
<1>10. ASSUME NEW r \in Requests, SendsImage(r) PROVE IInv'
  <2>1. SentHeaders(r, sent')
    BY <1>8, <1>10 DEF SendsImage
  <2>2. SentBody(r, sent')
    BY <1>10 DEF SendsImage, SendsBuffered, Sends, IsAnswered, SentBody
  <2>. QED
    BY <1>5, <1>10, <2>1, <2>2 DEF SendsImage, SendsBuffered, Sends
<1>11. ASSUME NEW p \in Responses, Relays(p) PROVE IInv'
  <2>1. request \in Requests /\ SentHeaders(request, sent)
    BY <1>11 DEF Relays, IInv, SentAsMade
  <2>2. RouteFor(request) \in {"image", "list"} => EncodingOf(p.bytes) \in {"gzip", "plain"}
    BY <1>11, <2>1, SentFits DEF Relays, IsResponse
  <2>3. AnsweredAsMade'
    <3>1. request' = request /\ listener' = listener /\ received' = p
      BY <1>11 DEF Relays
    <3>2. CASE RouteFor(request) \in {"image", "list"}
      <4>1. reply' = BufferedReply(p)
        BY <1>11, <3>2 DEF Relays
      <4>2. BufferedReply(p) = BufferedReply(received)'
        BY <3>1 DEF BufferedReply, RouteFor
      <4>. QED
        BY <2>2, <3>1, <3>2, <4>1, <4>2 DEF AnsweredAsMade
    <3>3. CASE RouteFor(request) \notin {"image", "list"}
      BY <1>11, <3>1, <3>3 DEF Relays, AnsweredAsMade, StreamedReply
    <3>. QED
      BY <3>2, <3>3
  <2>4. LoadedAsWritten' /\ KeyIsSet'
    BY <1>11, ListenerStays DEF Relays, Serving
  <2>. QED
    BY <1>11, <2>3, <2>4 DEF Relays, IInv, SentAsMade
<1>12. CASE UNCHANGED vars
  <2>1. LoadedAsWritten' /\ KeyIsSet'
    BY <1>12 DEF vars, IInv, LoadedAsWritten, Loaded, KeyIsSet, Serving
  <2>2. SentAsMade' /\ AnsweredAsMade'
    BY <1>12 DEF vars, IInv, SentAsMade, AnsweredAsMade, SentHeaders, SentBody, RouteFor, Transformed, BufferedReply,
                 StreamedReply
  <2>. QED
    BY <1>12, <2>1, <2>2 DEF vars, IInv
<1>. QED
  BY <1>1, <1>2, <1>3, <1>4, <1>6, <1>7, <1>9, <1>10, <1>11, <1>12 DEF Next

THEOREM Invariance == Spec => []IInv
  BY Initially, Inductive, PTL DEF Spec

-----------------------------------------------------------------------------
(* What follows.                                                            *)

\* The upstream of a featherless operation sees the client's credentials, any other
\* the listener's alone (prepare_request_headers).
THEOREM CredentialsFollowRoutes == Spec => []CredentialOfRoute
<1>1. IInv => CredentialOfRoute
  <2>. SUFFICES ASSUME IInv, stage = "sent"
                PROVE  IF RouteFor(request) # "gated" THEN Credentials(sent.headers) = {"Bearer " \o listener.key}
                       ELSE "authorization" \notin ConnectionTokens(request.headers) =>
                              Credentials(sent.headers) = Credentials(request.headers)
    BY DEF CredentialOfRoute
  <2>. DEFINE own == {"Bearer " \o listener.key}
  <2>1. SentHeaders(request, sent)
    BY DEF IInv, SentAsMade
  <2>2. CASE RouteFor(request) # "gated"
    <3>1. PICK headers, type :
            /\ \/ headers = RequestHeaders(request.headers, listener.key)
               \/ headers = ImageRequestHeaders(request.headers, listener.key, type)
            /\ sent.headers = Completed(headers, sent.bytes)
      BY <2>1, <2>2 DEF SentHeaders
    <3>2. Credentials(headers) = own
      BY <3>1, OwnCredential, Zenon
    <3>3. Credentials(sent.headers) = Credentials(headers)
      BY <3>1, CompletedKeepsCredentials
    <3>. HIDE DEF own
    <3>4. Credentials(sent.headers) = own
      BY <3>2, <3>3
    <3>. QED
      BY <3>4, <2>2, Zenon DEF own
  <2>3. CASE RouteFor(request) = "gated"
    BY <2>1, <2>3, CompletedKeepsCredentials, ClientsCredential DEF SentHeaders
  <2>. QED
    BY <2>2, <2>3
<1>. QED
  BY <1>1, Invariance, PTL

\* A header meant for one connection goes no further, in either direction
\* (_forwardable_headers).
THEOREM HeadersOfOneHopStay == Spec => []HopsStayApart
<1>1. IInv => HopsStayApart
  <2>. SUFFICES ASSUME IInv PROVE HopsStayApart
    OBVIOUS
  <2>1. ASSUME stage = "sent", NEW h \in sent.headers \cap request.headers,
               h[1] \in OnlyForNextHop(request.headers)
        PROVE  SetAnew(h)
    <3>1. SentHeaders(request, sent)
      BY <2>1 DEF IInv, SentAsMade
    <3>. QED
      BY <2>1, <3>1, SentIsForwardableOrSetAnew, ForwardableIsEndToEnd
  <2>2. ASSUME stage = "answered", received # None, NEW h \in reply.headers
        PROVE  h[1] \notin OnlyForNextHop(received.headers) \ {"content-length"}
    <3>1. reply \in {StreamedReply(received), BufferedReply(received)}
      BY <2>2 DEF IInv, AnsweredAsMade
    <3>. QED
      BY <2>2, <3>1, RepliesAreEndToEnd
  <2>. QED
    BY <2>1, <2>2 DEF HopsStayApart
<1>. QED
  BY <1>1, Invariance, PTL

\* Lengths and encodings are those of the bodies they come with, and a request has
\* one way of being delimited (image_relay.py's headers, httpx' framing).
THEOREM MessagesFit == Spec => []FramingFits
<1>1. IInv => FramingFits
  <2>. SUFFICES ASSUME IInv PROVE FramingFits
    OBVIOUS
  <2>1. CASE stage = "sent"
    <3>1. request \in Requests /\ SentHeaders(request, sent)
      BY <2>1 DEF IInv, SentAsMade
    <3>. QED
      BY <2>1, <3>1, SentFits DEF FramingFits
  <2>2. CASE stage = "answered"
    <3>1. CASE received = None /\ reply.headers = {<<"content-length", "own">>} /\ reply.bytes = "own"
      <4>1. ValuesOf({<<"content-length", "own">>}, "content-length") = {"own"}
        BY ValuesOfPair
      <4>2. ValuesOf({<<"content-length", "own">>}, "content-encoding") = {}
        BY ValuesOfOther
      <4>3. EncodingOf(reply.bytes) = "plain"
        BY <3>1 DEF EncodingOf
      <4>. DEFINE own == <<"content-length", "own">>
      <4>4. reply.headers = {own} /\ ValuesOf({own}, "content-length") = {"own"} /\ ValuesOf({own}, "content-encoding") = {}
        BY <3>1, <4>1, <4>2
      <4>. HIDE DEF own
      <4>. QED
        BY <2>2, <3>1, <4>3, <4>4 DEF FramingFits, Fits
    <3>2. CASE received \in Responses /\ reply = StreamedReply(received)
      BY <2>2, <3>2, StreamedReplyFits DEF FramingFits
    <3>3. CASE EncodingOf(received.bytes) \in {"gzip", "plain"} /\ reply = BufferedReply(received)
      BY <2>2, <3>3, BufferedReplyFits DEF FramingFits
    <3>. QED
      BY <2>2, <3>1, <3>2, <3>3 DEF IInv, AnsweredAsMade
  <2>. QED
    BY <2>1, <2>2 DEF FramingFits
<1>. QED
  BY <1>1, Invariance, PTL

\* Comments, wherever they stand in a file of any length, do not change what it
\* means (_strip_jsonc_comments, load_config).
THEOREM CommentsAreIgnored == Spec => []CommentsChangeNothing
<1>1. IInv => CommentsChangeNothing
  BY DEF IInv, LoadedAsWritten, CommentsChangeNothing
<1>. QED
  BY <1>1, Invariance, PTL

\* A file of any number of entries loads exactly if each, alone, would load or be
\* skipped, one would load, and no two have one port; and it starts what they would
\* start alone (load_config's loop, and the checks after it).
THEOREM EntriesAreTheirOwn == Spec => []EntriesStandAlone
<1>1. IInv => EntriesStandAlone
  <2>. SUFFICES ASSUME IInv, Loaded, file.document.shape = "listeners" PROVE EntriesStandAlone
    BY DEF EntriesStandAlone
  <2>. DEFINE d == file.document
              entries == d.entries
              outcome(i) == ListenerRuntime(entries[i], Environ)
              loads == {i \in DOMAIN entries : Alone(i).verdict = "loaded"}
              skipped == {i \in DOMAIN entries \ loads : Alone(i).warnings # {}}
              started == Started(entries, Environ)
              fatal == Fatal(entries, Environ)
  <2>1. IsDocument(d) /\ config = LoadConfig(d, Environ) /\ d.shape = "listeners"
    <3>1. file \in Files /\ config = LoadConfig(d, Environ)
      BY DEF IInv, LoadedAsWritten
    <3>. QED
      BY <3>1, FilesHaveDocuments
  <2>. HIDE DEF d
  <2>2. ASSUME NEW i
        PROVE  /\ (Alone(i).verdict = "loaded") <=> (outcome(i) = "started")
               /\ outcome(i) = "started" => Alone(i).listeners[1] = ListenerOf(entries[i])
               /\ outcome(i) # "started" => ((Alone(i).warnings # {}) <=> (outcome(i) = "skipped"))
    <3>1. Alone(i) = LoadConfig([d EXCEPT !.entries = <<entries[i]>>], Environ)
      BY DEF Alone, d
    <3>. QED
      BY ONLY <2>1, <3>1, AloneIs
  <2>3. loads = started
    BY <2>2 DEF Started
  <2>4. (loads \cup skipped = DOMAIN entries) <=> (fatal = {})
    <3>1. ASSUME NEW i \in DOMAIN entries PROVE i \in loads \cup skipped <=> i \notin fatal
      <4>1. outcome(i) \in {"started", "skipped", "refused", "crashed"}
        BY FourOutcomes
      <4>2. i \in loads <=> outcome(i) = "started"
        BY <2>2
      <4>3. i \in skipped <=> outcome(i) = "skipped"
        BY <2>2, <4>2
      <4>4. i \in fatal <=> outcome(i) \in {"refused", "crashed"}
        BY DEF Fatal
      <4>. HIDE DEF outcome, loads, skipped, fatal, entries
      <4>. QED
        BY <4>1, <4>2, <4>3, <4>4
    <3>2. loads \cup skipped \subseteq DOMAIN entries /\ fatal \subseteq DOMAIN entries
      BY DEF Fatal
    <3>. HIDE DEF loads, skipped, fatal, entries
    <3>. QED
      BY <3>1, <3>2
  <2>5. ASSUME NEW i \in loads
        PROVE  Alone(i).listeners[1] = ListenerOf(entries[i]) /\ Alone(i).listeners[1].port = entries[i]["port"]
    <3>1. Alone(i).listeners[1] = ListenerOf(entries[i])
      BY <2>2, <2>5
    <3>2. ListenerOf(entries[i]).port = entries[i]["port"]
      BY DEF ListenerOf
    <3>. QED
      BY <3>1, <3>2
  <2>6. (\A i, j \in loads : Alone(i).listeners[1].port = Alone(j).listeners[1].port => i = j)
          <=> ~PortsClash(entries, Environ)
    <3>1. PortsClash(entries, Environ) <=> \E i, j \in loads : i # j /\ entries[i]["port"] = entries[j]["port"]
      BY <2>3 DEF PortsClash
    <3>. HIDE DEF loads, entries
    <3>. QED
      BY <2>5, <3>1
  <2>7. (config.verdict = "loaded") <=> fatal = {} /\ started # {} /\ ~PortsClash(entries, Environ)
    BY <2>1, LoadsWhen
  <2>8. config.verdict = "loaded" => config.listeners = [i \in loads |-> Alone(i).listeners[1]]
    <3>. SUFFICES ASSUME config.verdict = "loaded" PROVE config.listeners = [i \in loads |-> Alone(i).listeners[1]]
      OBVIOUS
    <3>1. config.listeners = [i \in started |-> ListenerOf(entries[i])]
      BY <2>1, ListenersAre
    <3>. HIDE DEF loads, started, entries
    <3>. QED
      BY <2>3, <2>5, <3>1
  <2>9. /\ (config.verdict = "loaded") <=>
             /\ loads # {} /\ loads \cup skipped = DOMAIN entries
             /\ \A i, j \in loads : Alone(i).listeners[1].port = Alone(j).listeners[1].port => i = j
        /\ config.verdict = "loaded" => config.listeners = [i \in loads |-> Alone(i).listeners[1]]
    <3>. HIDE DEF loads, skipped, started, fatal, entries
    <3>. QED
      BY <2>3, <2>4, <2>6, <2>7, <2>8
  <2>. QED
    BY ONLY <2>9 DEF EntriesStandAlone, d
<1>. QED
  BY <1>1, Invariance, PTL

\* Entries that lack their section change nothing for the others
\* (_listener_runtime).
THEOREM SkippedAreAside == Spec => []SkippedEntriesDoNoHarm
<1>1. IInv => SkippedEntriesDoNoHarm
  <2>. SUFFICES ASSUME IInv, Loaded, file.document.shape = "listeners" PROVE SkippedEntriesDoNoHarm
    BY DEF SkippedEntriesDoNoHarm
  <2>. DEFINE d == file.document
              lacking(e) == At(e, "port") \in PortCheck.takes /\ At(e, "mode") \in Modes /\ LacksSection(e)
              rest == {i \in DOMAIN d.entries : ~lacking(d.entries[i])}
              without == LoadConfig([d EXCEPT !.entries = [i \in rest |-> @[i]]], Environ)
  <2>1. IsDocument(d) /\ config = LoadConfig(d, Environ) /\ d.shape = "listeners"
    <3>1. file \in Files /\ config = LoadConfig(d, Environ)
      BY DEF IInv, LoadedAsWritten
    <3>. QED
      BY <3>1, FilesHaveDocuments
  <2>. HIDE DEF d
  <2>2. \A i \in DOMAIN d.entries \ rest : ListenerRuntime(d.entries[i], Environ) = "skipped"
    BY LackingIsSkipped
  <2>3. rest \in SUBSET DOMAIN d.entries
    OBVIOUS
  <2>4. LoadConfig(d, Environ).verdict = without.verdict /\ LoadConfig(d, Environ).listeners = without.listeners
    <3>. HIDE DEF rest
    <3>. QED
      BY ONLY <2>1, <2>2, <2>3, SkippedOnesAside
  <2>. QED
    BY ONLY <2>1, <2>4 DEF SkippedEntriesDoNoHarm, d
<1>. QED
  BY <1>1, Invariance, PTL

\* Where the listener has a key, the upstream sees it and nothing else, and it is
\* one that the environment has (_upstream's check, prepare_request_headers).
THEOREM OneCredentialIsSeen == Spec => []OneCredential
<1>1. IInv => (stage = "sent" /\ listener.mode # "featherless" =>
                 RouteFor(request) # "gated" /\ listener.key \in Environ)
  <2>. SUFFICES ASSUME IInv, stage = "sent", listener.mode # "featherless"
                PROVE  RouteFor(request) # "gated" /\ listener.key \in Environ
    OBVIOUS
  <2>1. listener.mode \in Modes \ {"featherless"} /\ listener.key \in Environ
    BY DEF IInv, KeyIsSet, Serving
  <2>2. RouteFor(request) # "gated"
    BY <2>1, OthersAreNotGated DEF RouteFor
  <2>. QED
    BY <2>1, <2>2
<1>2. CredentialOfRoute /\ (stage = "sent" /\ listener.mode # "featherless" =>
                              RouteFor(request) # "gated" /\ listener.key \in Environ)
        => OneCredential
  BY DEF OneCredential
<1>. QED
  BY <1>1, <1>2, CredentialsFollowRoutes, Invariance, PTL

\* What an image request sends says all that the client asked for and the provider
\* knows, and beyond that only what the settings or the fixed defaults say; every
\* picture goes with it, and a form that breaks off is refused, wherever it does (the
\* transform_request_body of the three modes, parse_multipart).
THEOREM SentSaysWhatWasAsked == Spec => []SentIsWhatWasAsked
<1>1. IInv => SentIsWhatWasAsked
  <2>. SUFFICES ASSUME IInv, stage = "sent", RouteFor(request) = "image" PROVE SentIsWhatWasAsked
    BY DEF SentIsWhatWasAsked
  <2>. DEFINE r == request
              settings == listener.settings
              asked == AskedFields(r)
              dropped == IF listener.mode = "gemini-image" THEN {} ELSE RemovedKeys
              pictures == Pictures(r.parts)
              pictured == IF listener.mode # "grok-image-edit" THEN {} ELSE {PicturesName(pictures)}
              body == sent.fields
              list == ToString([i \in DOMAIN pictures |-> pictures[i].data])
  <2>1. r \in Requests /\ body = Transformed(r) /\ body # Refused
    BY DEF IInv, SentAsMade, SentBody
  <2>2. listener.mode \in {"grok-image", "grok-image-edit", "gemini-image"}
    <3>1. listener.mode \in Modes
      BY DEF IInv, KeyIsSet, Serving
    <3>. QED
      BY <3>1, ImagesHaveModes DEF RouteFor
  <2>3. SUFFICES
          /\ \A k \in DOMAIN asked \ (dropped \cup pictured) : Says(asked, k) => k \in DOMAIN body /\ body[k] = asked[k]
          /\ \A k \in DOMAIN body \ pictured : Says(asked, k) \/ body[k] = Unsaid(asked, k)
          /\ DOMAIN body \cap dropped = {}
          /\ body["model"] # "none"
          /\ listener.mode = "grok-image-edit" =>
               IsComplete(r.body, BuildMultipart(r.parts)) /\ \A k \in pictured : body[k] = list
    BY DEF SentIsWhatWasAsked, PicturesName
  <2>4. CASE listener.mode # "grok-image-edit"
    <3>1. asked = r.fields /\ pictured = {}
      BY <2>4 DEF AskedFields
    <3>2. Tells(body, asked, settings, dropped, {})
      <4>1. CASE listener.mode = "grok-image"
        <5>1. body = GrokImageBody(asked, settings)
          BY <2>1, <3>1, <4>1 DEF Transformed
        <5>. QED
          BY <2>1, <4>1, <5>1, GrokImageTells
      <4>2. CASE listener.mode = "gemini-image"
        <5>1. body = GeminiBody(asked, settings)
          BY <2>1, <3>1, <4>2 DEF Transformed
        <5>. QED
          BY <2>1, <4>2, <5>1, GeminiTells
      <4>. QED
        BY <2>2, <2>4, <4>1, <4>2
    <3>3. \A k : (Says(asked, k) <=> Given(asked, k)) /\ Unsaid(asked, k) = Otherwise(asked, settings, k)
      BY <2>4 DEF Says, Unsaid, Otherwise
    <3>. HIDE DEF asked, dropped, body
    <3>. QED
      BY <2>4, <3>1, <3>2, <3>3 DEF Tells
  <2>5. CASE listener.mode = "grok-image-edit"
    <3>. DEFINE form == ParseMultipart(r.body)
                fields == SaidBy(asked)
    <3>1. /\ asked = FormFields(r.parts) /\ dropped = RemovedKeys /\ pictured = {PicturesName(pictures)}
          /\ body = EditBody(r.type, r.body, settings)
      BY <2>1, <2>5 DEF AskedFields, Transformed
    <3>2. r.type = "multipart/form-data" /\ form.ok
      BY <2>1, <3>1 DEF EditBody
    <3>3. form = [ok |-> TRUE, parts |-> r.parts] /\ IsComplete(r.body, BuildMultipart(r.parts))
      <4>1. /\ r.parts \in Seq(Range(r.parts)) /\ \A i \in DOMAIN r.parts : IsField(r.parts[i])
            /\ \E n \in 0 .. Len(BuildMultipart(r.parts)) : r.body = SubSeq(BuildMultipart(r.parts), 1, n)
        BY <2>1, <3>2, FormsAssumption
      <4>2. form = IF IsComplete(r.body, BuildMultipart(r.parts)) THEN [ok |-> TRUE, parts |-> r.parts] ELSE Malformed
        BY ONLY <4>1, FormsAreRead
      <4>3. ~Malformed.ok
        BY DEF Malformed
      <4>. QED
        BY <3>2, <4>2, <4>3
    <3>4. /\ Tells(body, fields, settings, RemovedKeys, {PicturesName(pictures)})
          /\ body[PicturesName(pictures)] = list
      <4>1. EditBody(r.type, r.body, settings) # Refused /\ form.parts = r.parts
        BY <2>1, <3>1, <3>3
      <4>. HIDE DEF r, settings, form
      <4>2. TellsOfForm(EditBody(r.type, r.body, settings), r.parts, settings)
        BY ONLY <4>1, EditTells DEF form
      <4>. HIDE DEF body, asked
      <4>. QED
        BY <3>1, <4>2 DEF TellsOfForm
    <3>. HIDE DEF body, asked, dropped, pictures, pictured, list
    <3>5. ASSUME NEW k PROVE Says(asked, k) <=> Given(fields, k)
      BY <2>5 DEF Says, Given, ValueOr, SaidBy
    <3>6. ASSUME NEW k, Given(fields, k) PROVE k \in DOMAIN asked /\ fields[k] = asked[k]
      BY <3>6 DEF Given, SaidBy
    <3>7. ASSUME NEW k, ~Given(fields, k) PROVE Otherwise(fields, settings, k) = Unsaid(asked, k)
      BY DEF Otherwise, Unsaid, SaidBy
    <3>. HIDE DEF fields
    <3>8. ASSUME NEW k \in DOMAIN asked \ (dropped \cup pictured), Says(asked, k)
          PROVE  k \in DOMAIN body /\ body[k] = asked[k]
      <4>1. Given(fields, k) /\ k \in DOMAIN fields /\ fields[k] = asked[k]
        BY <3>5, <3>6, <3>8 DEF Given
      <4>. QED
        BY <3>1, <3>4, <4>1 DEF Tells
    <3>9. ASSUME NEW k \in DOMAIN body \ pictured PROVE Says(asked, k) \/ body[k] = Unsaid(asked, k)
      BY <3>1, <3>4, <3>5, <3>7 DEF Tells
    <3>10. DOMAIN body \cap dropped = {} /\ body["model"] # "none"
      BY <3>1, <3>4 DEF Tells
    <3>. QED
      BY <2>5, <3>1, <3>3, <3>4, <3>8, <3>9, <3>10
  <2>. QED
    BY <2>4, <2>5
<1>. QED
  BY <1>1, Invariance, PTL

=============================================================================
