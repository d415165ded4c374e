---------------------------- MODULE InboundProofs ----------------------------
(***************************************************************************)
(* Inbound for chains of any length in any order, any rules of the          *)
(* middlewares, any client and any number of attempts and visits.           *)
(*                                                                          *)
(* Every layer that lets a request pass does the same two things: it writes *)
(* to the object it was given (Told) and hands on that object or a clone of *)
(* it (HandedOn).  StepKinds says so once for all layers.                   *)
(*                                                                          *)
(* What an attempt brings a layer is a function of the request that Retry   *)
(* got and of the layers in between (PathTo, XfhTo, ...).  Two facts carry  *)
(* the invariants about attempts: one layer further on, the function of     *)
(* what it hands on is the same (...Ahead), and what it leaves behind on    *)
(* the object that Retry holds does not change it either (...Left).         *)
(***************************************************************************)
EXTENDS Inbound, FiniteSetTheorems, SequenceTheorems, TLAPS

(***************************************************************************)
(* What a layer makes of a request.                                         *)
(***************************************************************************)
Fill(value, default) == IF value = Absent THEN default ELSE value

\* The path and the host that the layer hands on.
Stripped(path) ==
  LET prefix == FirstPrefix(Strips, path)
  IN  IF prefix = <<>> THEN path ELSE Trimmed(prefix, path)

RuleStrips == [i \in DOMAIN Rules |-> Rules[i].strip]
RuleFor(strip) ==
  Rules[CHOOSE i \in DOMAIN Rules :
          strip = Rules[i].strip /\ \A j \in 1..(i - 1) : strip # Rules[j].strip]

Rewritten(path) ==
  LET strip == FirstPrefix(RuleStrips, path)
  IN  IF strip = <<>> THEN path ELSE RuleFor(strip).add \o Trimmed(strip, path)

PathAfter(name, path) ==
  CASE name = "stripprefix" -> Stripped(path)
    [] name = "rewrite"     -> Rewritten(path)
    [] OTHER -> path

HostAfter(name, host) == IF name = "rewritehost" THEN NewHost(host) ELSE host

\* The headers that the layer leaves behind, on a request for this host.
XffAfter(name, xff) ==
  CASE name = "proxyheaders"  -> <<"remote">>
    [] name = "proxytrusting" -> Append(xff, "remote")
    [] OTHER -> xff

ProtoAfter(name, scheme, proto) ==
  CASE name = "proxyheaders"  -> scheme
    [] name = "proxytrusting" -> Fill(proto, scheme)
    [] OTHER -> proto

XfhAfter(name, host, xfh) ==
  CASE name = "proxyheaders"  -> host
    [] name = "proxytrusting" -> Fill(xfh, host)
    [] name = "rewritehost" /\ NewHost(host) # host -> host
    [] OTHER -> xfh

IdAfter(name, last, id) == IF name = "requestid" /\ id = None THEN last + 1 ELSE id

ParentAfter(name, last, parent) ==
  IF name = "tracing"
  THEN [trace |-> IF parent.trace = None THEN last + 2 ELSE parent.trace, span |-> last + 1]
  ELSE parent

\* The scheme by which the request has reached the proxy.
Scheme == IF TLS THEN "https" ELSE "http"

\* The object that the layer was given, and the one that it hands on.
Told(name, r) ==
  [r EXCEPT !.xff = XffAfter(name, @), !.proto = ProtoAfter(name, Scheme, @),
            !.xfh = XfhAfter(name, r.host, @), !.id = IdAfter(name, drawn, @),
            !.parent = ParentAfter(name, drawn, @)]
HandedOn(name, r) ==
  [Told(name, r) EXCEPT !.path = PathAfter(name, @), !.host = HostAfter(name, @)]

Cloning == {"rewritehost", "stripprefix", "rewrite"}

\* The address that a gate decides about.
View(name, xff) ==
  IF xff = <<>> THEN <<"remote">> ELSE IF name = "geoblock" THEN <<Head(xff)>> ELSE xff

\* IPFilter takes this for an address, and one that is not denied.
Admits(view) == ~(Len(view) > 1 \/ Head(view) \in Denied)

AddressGates == {"ipfilter", "geoblock", "ratelimit"}

\* What a gate has found when it lets this request pass.
Lets(name, r) ==
  /\ name = "redirect" => r.path \in Exempt \/ TLS \/ r.proto = "https"
  /\ name = "auth" => r.path \in Exempt \/ r.cred
  /\ name = "jwt" => r.path \in Exempt \/ (r.cred /\ ~expired)
  /\ name = "maintenance" => r.path \in Exempt \/ ~enabled
  /\ name = "cors" => ~(client.origin = "other" \/ (client.origin = "listed" /\ client.preflight))
  /\ name = "allowlist" => Allowed = {} \/ IsAllowed(r.path)
  /\ name \in {"screen", "size"} => client.fit
  /\ name = "health" => r.path # HealthPath
  /\ name = "ipfilter" => Admits(View(name, r.xff))

\* The layers that may refuse what they would have let pass before.
Fickle == {"geoblock", "ratelimit"}

(***************************************************************************)
(* The kinds of steps.                                                      *)
(***************************************************************************)
SameVisit == UNCHANGED <<chain, fronted, client, visits>>

PassStep ==
  /\ going = "in" /\ at \in DOMAIN chain
  /\ at' = at + 1 /\ judged' = Judged
  /\ SameVisit /\ UNCHANGED <<going, by, status, tries, enabled, expired, sent, changed, seen>>
  /\ mark' = IF chain[at] = "retry" THEN Len(reqs) ELSE mark
  /\ Lets(chain[at], Top)
  /\ LET told == [reqs EXCEPT ![Len(reqs)] = Told(chain[at], Top)]
     IN  \/ reqs' = told /\ HandedOn(chain[at], Top) = Told(chain[at], Top)
         \/ reqs' = Append(told, HandedOn(chain[at], Top)) /\ chain[at] \in Cloning
  /\ echo' = CASE chain[at] = "requestid" -> [echo EXCEPT !.id = IdAfter("requestid", drawn, Top.id)]
               [] chain[at] = "tracing" -> [echo EXCEPT !.parent = ParentAfter("tracing", drawn, Top.parent)]
               [] OTHER -> echo
  /\ drawn' \in {drawn, drawn + 1, drawn + 2}

RefuseStep ==
  /\ going = "in" /\ at \in DOMAIN chain
  /\ going' = "out" /\ by' = chain[at] /\ status' \in Nat
  /\ status' = 301 => chain[at] = "redirect"
  /\ judged' = Judged
  /\ sent' \in {sent, Header(200, 0), Header(status', 0)}
  /\ SameVisit /\ UNCHANGED <<at, mark, tries, enabled, expired, drawn, echo, changed, reqs, seen>>
  /\ \/ ~Lets(chain[at], Top)
     \/ chain[at] \in Fickle
     \/ chain[at] = "size" /\ status' = 431

ForwardStep == Forward \/ ForwardFails
(***************************************************************************)
(* The request as it will be further on in the chain c.                     *)
(***************************************************************************)

\* The layer is one of c[i], ..., c[j - 1]; and one is outside the other.
Within(c, name, i, j) == \E k \in DOMAIN c : c[k] = name /\ i <= k /\ k < j
Before(c, a, b) == \E k, l \in DOMAIN c : c[k] = a /\ c[l] = b /\ k < l

\* What the layers c[i], ..., c[j - 1] make of a path, and so on.
PathTo(c, path, i, j) ==
  LET strips == Within(c, "stripprefix", i, j)
      rules  == Within(c, "rewrite", i, j)
  IN  CASE strips /\ rules /\ Before(c, "stripprefix", "rewrite")  -> Rewritten(Stripped(path))
        [] strips /\ rules /\ ~Before(c, "stripprefix", "rewrite") -> Stripped(Rewritten(path))
        [] strips /\ ~rules -> Stripped(path)
        [] ~strips /\ rules -> Rewritten(path)
        [] OTHER -> path

HostTo(c, host, i, j) == IF Within(c, "rewritehost", i, j) THEN NewHost(host) ELSE host

ProtoTo(c, scheme, proto, i, j) ==
  CASE Within(c, "proxyheaders", i, j) -> scheme
    [] ~Within(c, "proxyheaders", i, j) /\ Within(c, "proxytrusting", i, j) -> Fill(proto, scheme)
    [] OTHER -> proto

XfhTo(c, host, xfh, i, j) ==
  LET sets == Within(c, "proxyheaders", i, j)
      new  == Within(c, "rewritehost", i, j) /\ NewHost(host) # host
  IN  CASE sets /\ new /\ Before(c, "rewritehost", "proxyheaders") -> NewHost(host)
        [] (sets /\ ~(new /\ Before(c, "rewritehost", "proxyheaders"))) \/ (~sets /\ new) -> host
        [] ~sets /\ ~new /\ Within(c, "proxytrusting", i, j) -> Fill(xfh, host)
        [] OTHER -> xfh

XffTo(c, xff, i, j) == IF Within(c, "proxyheaders", i, j) THEN <<"remote">> ELSE xff

ViewTo(c, name, xff, i, j) == IF Within(c, "proxyheaders", i, j) THEN <<"remote">> ELSE View(name, xff)

(***************************************************************************)
(* The invariants.                                                          *)
(***************************************************************************)
Base == reqs[mark]
Rt == Index("retry")
InRetry == "retry" \in Layers /\ Rt < at

\* Only Retry makes a second attempt.
Fresh ==
  /\ seen # <<>> /\ ~InRetry => at = Upstream /\ going # "in" /\ Len(seen) = 1
  /\ client.body => Len(seen) <= 1
  /\ by = "upstream" /\ going # "in" =>
       at = Upstream /\ seen # <<>> /\ Last(seen).id = Top.id /\ Last(seen).parent = Top.parent

\* A request whose X-Forwarded-Proto nobody has touched yet.
Untouched == "proxyheaders" \notin Layers \/ ("redirect" \in Layers /\ at <= Index("redirect"))

ProtoTold ==
  /\ visits >= 2 => client.scheme = "https"
  /\ (~fronted \/ ProtoKept) /\ (status = 301 \/ sent.status = 301) => client.scheme = "http"
  /\ ~fronted => Top.proto \in {Absent, client.scheme} /\ (InRetry => Base.proto \in {Absent, client.scheme})
  /\ fronted /\ ProtoKept /\ Untouched => Top.proto = client.scheme
  /\ fronted /\ InRetry /\ "proxyheaders" \notin Layers => Base.proto = client.scheme

\* A request in front of layer i still has the client's host, as its own or in
\* X-Forwarded-Host.
HasHost(c, r, host, i) ==
  /\ r.host = HostTo(c, host, 1, i)
  /\ Within(c, "rewritehost", 1, i) /\ NewHost(host) # host => r.xfh = host

HostTold ==
  ~Outside("rewritehost", "proxyheaders") =>
    /\ HasHost(chain, Top, client.host, at)
    /\ InRetry => HasHost(chain, Base, client.host, Rt + 1)
    /\ \A r \in ToSet(seen) : r.host = client.host \/ r.xfh = client.host

HasIds(r) ==
  /\ client.id # None => r.id = client.id
  /\ client.parent.trace # None => r.parent.trace = client.parent.trace

\* The identifiers of a request in front of layer i have been echoed.
Echoed(r, i) ==
  /\ "requestid" \in Layers /\ Index("requestid") < i => echo.id = r.id /\ r.id # None
  /\ "tracing" \in Layers /\ Index("tracing") < i => echo.parent = r.parent /\ r.parent.trace # None

IdsTold ==
  /\ HasIds(Top) /\ Echoed(Top, at)
  /\ InRetry => HasIds(Base) /\ Echoed(Base, Rt)
  /\ \A r \in ToSet(seen) : HasIds(r)

\* The identifiers that have been echoed are those of a request.
SameId(e, r) == e.id = r.id /\ r.id # None
SameTrace(e, r) == e.parent = r.parent /\ r.parent.trace # None

\* Only inside Retry does a request go in whose answer's header is fixed.  What
\* the client has of a layer outside Retry, it has of every attempt.
SentTold ==
  /\ sent.status # 0 /\ going = "in" => InRetry
  /\ \A i \in DOMAIN seen : i = sent.from =>
       /\ "requestid" \in Layers => SameId(sent.echo, seen[i])
       /\ "tracing" \in Layers => SameTrace(sent.echo, seen[i])
  /\ "requestid" \in Layers /\ ~Outside("retry", "requestid") =>
       /\ \A i \in DOMAIN seen : SameId(echo, seen[i])
       /\ sent.status # 0 \/ going = "over" => sent.echo.id = echo.id
  /\ "tracing" \in Layers /\ ~Outside("retry", "tracing") =>
       /\ \A i \in DOMAIN seen : SameTrace(echo, seen[i])
       /\ sent.status # 0 \/ going = "over" => sent.echo.parent = echo.parent

\* When Retry's next attempt reaches layer j it finds there what this one does.
SameAhead(c, scheme, first, b, i, r) ==
  /\ b.cred = r.cred
  /\ HostTo(c, b.host, first, Len(c) + 1) = HostTo(c, r.host, i, Len(c) + 1)
  /\ XfhTo(c, b.host, b.xfh, first, Len(c) + 1) = XfhTo(c, r.host, r.xfh, i, Len(c) + 1)
  /\ ProtoTo(c, scheme, b.proto, first, Len(c) + 1) = ProtoTo(c, scheme, r.proto, i, Len(c) + 1)
  /\ \A j \in i..(Len(c) + 1) : PathTo(c, b.path, first, j) = PathTo(c, r.path, i, j)
  /\ \A j \in i..(Len(c) + 1) :
       ViewTo(c, "geoblock", b.xff, first, j) = ViewTo(c, "geoblock", r.xff, i, j)
  /\ ~Within(c, "proxytrusting", first, Len(c) + 1) =>
       \A j \in i..(Len(c) + 1) : XffTo(c, b.xff, first, j) = XffTo(c, r.xff, i, j)

\* So far the chain has not cloned the request since Retry.
SameIds(b, r) ==
  /\ ~Shielded("requestid") => b.id = r.id
  /\ ~Shielded("tracing") => b.parent.trace = r.parent.trace

Alike ==
  InRetry =>
    /\ SameAhead(chain, Scheme, Rt + 1, Base, at, Top)
    /\ \A r \in ToSet(seen) : SameAhead(chain, Scheme, Rt + 1, Base, Upstream, r)
    /\ mark # Len(reqs) => \E c \in Cloning : Outside("retry", c) /\ Index(c) < at
    /\ SameIds(Base, Top)
    /\ \A r \in ToSet(seen) : SameIds(Base, r)
    /\ seen # <<>> => /\ Outside("retry", "requestid") /\ ~Shielded("requestid") => Base.id # None
                      /\ Outside("retry", "tracing") /\ ~Shielded("tracing") => Base.parent.trace # None

\* A gate has decided about one address, and only when the request was there.
JudgedOnce ==
  /\ \A j \in judged : 
       /\ j.layer \in AddressGates \cap Layers
       /\ \/ Index(j.layer) < at
          \/ Index(j.layer) = at /\ going # "in"
          \/ InRetry /\ Outside("retry", j.layer)
       /\ InRetry /\ Outside("retry", j.layer) /\ ~AddressMayChange(j.layer) =>
            j.address = ViewTo(chain, j.layer, Base.xff, Rt + 1, Index(j.layer))
  /\ OneAddressJudged

\* What a layer inside Retry has let pass, it will let pass again.
LetsAgain(name) ==
  LET path == PathTo(chain, Base.path, Rt + 1, Index(name))
  IN  /\ name = "redirect" /\ (~fronted \/ ProtoKept) => path \in Exempt \/ client.scheme = "https"
      /\ name = "auth" => path \in Exempt \/ Base.cred
      /\ name = "jwt" => path \in Exempt \/ (Base.cred /\ (~expired \/ name \in changed))
      /\ name = "maintenance" => path \in Exempt \/ ~enabled \/ name \in changed
      /\ name = "cors" => ~(client.origin = "other" \/ (client.origin = "listed" /\ client.preflight))
      /\ name = "allowlist" => Allowed = {} \/ IsAllowed(path)
      /\ name \in {"screen", "size"} => client.fit
      /\ name = "health" => path # HealthPath
      /\ name = "ipfilter" /\ ~AddressMayChange(name) =>
           Admits(ViewTo(chain, name, Base.xff, Rt + 1, Index(name)))

Passed ==
  /\ InRetry =>
      \A name \in Layers : Outside("retry", name) /\ (Index(name) < at \/ seen # <<>>) => LetsAgain(name)
  /\ PassedForGood
-----------------------------------------------------------------------------
(***************************************************************************)
(* Sequences.                                                               *)
(***************************************************************************)
LEMMA ReplacedLast ==
  ASSUME NEW S, NEW s \in Seq(S), NEW e \in S, s # <<>>
  PROVE  /\ [s EXCEPT ![Len(s)] = e] \in Seq(S)
         /\ Len([s EXCEPT ![Len(s)] = e]) = Len(s) /\ Last([s EXCEPT ![Len(s)] = e]) = e
         /\ \A i \in 1..(Len(s) - 1) : [s EXCEPT ![Len(s)] = e][i] = s[i]
BY DEF Last

LEMMA Appended ==
  ASSUME NEW S, NEW s \in Seq(S), NEW e \in S
  PROVE  /\ Append(s, e) \in Seq(S) /\ Append(s, e) # <<>>
         /\ Len(Append(s, e)) = Len(s) + 1 /\ Last(Append(s, e)) = e
         /\ \A i \in 1..Len(s) : Append(s, e)[i] = s[i]
         /\ \A x \in ToSet(Append(s, e)) : x \in ToSet(s) \/ x = e
         /\ \A x \in ToSet(s) : x \in S
BY DEF Last, ToSet

LEMMA CutBack ==
  ASSUME NEW S, NEW s \in Seq(S), NEW m \in 1..Len(s)
  PROVE  /\ SubSeq(s, 1, m) \in Seq(S) /\ Len(SubSeq(s, 1, m)) = m
         /\ Last(SubSeq(s, 1, m)) = s[m] /\ SubSeq(s, 1, m)[m] = s[m]
BY SubSeqProperties DEF Last

\* A set of natural numbers that is not empty has a least element.
LEMMA LeastNat ==
  ASSUME NEW S \in SUBSET Nat, S # {}
  PROVE  \E i \in S : \A j \in S : i <= j
<1>1. PICK i \in S : \A j \in S : ~(<<j, i>> \in OpToRel(<, Nat))
  BY NatLessThanWellFounded, WFMin
<1>2. \A j \in S : <<j, i>> \in OpToRel(<, Nat) <=> j < i
  BY DEF OpToRel
<1>3. \A j \in S : ~(j < i)
  BY <1>1, <1>2, Zenon
<1> QED BY <1>3

(***************************************************************************)
(* The values that layers make are of the type of those they get.           *)
(***************************************************************************)

\* FirstPrefix returns one of the prefixes, or the empty one.
LEMMA FirstPrefixType ==
  ASSUME NEW prefixes \in Seq(Path), NEW path \in Path
  PROVE  /\ FirstPrefix(prefixes, path) \in Path
         /\ FirstPrefix(prefixes, path) # <<>> =>
              \E i \in DOMAIN prefixes : prefixes[i] = FirstPrefix(prefixes, path)
         /\ Len(FirstPrefix(prefixes, path)) <= Len(path)
<1> DEFINE matches == {i \in DOMAIN prefixes : prefixes[i] # <<>> /\ IsPrefix(prefixes[i], path)}
<1>1. CASE matches = {}
  <2>1. FirstPrefix(prefixes, path) = <<>>
    BY <1>1 DEF FirstPrefix
  <2>2. <<>> \in Seq(Text) /\ Len(<<>>) = 0 /\ Len(path) \in Nat
    BY DEF Path
  <2> QED BY <2>1, <2>2 DEF Path
<1>2. CASE matches # {}
  <2>1. matches \in SUBSET Nat /\ matches \subseteq DOMAIN prefixes
    OBVIOUS
  <2>2. \E i \in matches : \A j \in matches : i <= j
    BY <1>2, <2>1, LeastNat
  <2> DEFINE first == CHOOSE i \in matches : \A j \in matches : i <= j
  <2>3. first \in matches
    BY <2>2
  <2>4. FirstPrefix(prefixes, path) = prefixes[first]
    BY <1>2 DEF FirstPrefix
  <2>5. first \in DOMAIN prefixes /\ IsPrefix(prefixes[first], path)
    BY <2>3
  <2> HIDE DEF first, matches
  <2> QED BY <2>4, <2>5 DEF IsPrefix
<1> QED BY <1>1, <1>2

LEMMA TrimmedType ==
  ASSUME NEW prefix \in Path, NEW path \in Path
  PROVE  Trimmed(prefix, path) \in Path
<1>1. CASE Len(path) = Len(prefix)
  <2>1. "/" \in Text
    BY InboundAssumption
  <2>2. <<"/">> \in Seq(Text)
    BY <2>1
  <2> QED BY <1>1, <2>2 DEF Trimmed, Path
<1>2. CASE Len(path) # Len(prefix)
  <2>1. Len(path) \in Nat /\ Len(prefix) \in Nat /\ \A i \in 1..Len(path) : path[i] \in Text
    BY DEF Path
  <2>2. SubSeq(path, Len(prefix) + 1, Len(path)) \in Seq(Text)
    <3>1. \A i \in (Len(prefix) + 1)..Len(path) : path[i] \in Text
      BY <2>1
    <3> QED BY <2>1, <3>1, SubSeqProperties
  <2> QED BY <1>2, <2>2 DEF Trimmed, Path
<1> QED BY <1>1, <1>2

LEMMA PathAfterType ==
  ASSUME NEW name, NEW path \in Path
  PROVE  PathAfter(name, path) \in Path
<1>1. Stripped(path) \in Path
  BY FirstPrefixType, TrimmedType, InboundAssumption DEF Stripped
<1>2. Rewritten(path) \in Path
  <2> DEFINE strip == FirstPrefix(RuleStrips, path)
  <2>1. Len(Rules) \in Nat /\ DOMAIN Rules = 1..Len(Rules) /\ DOMAIN Rules \subseteq Nat
        /\ \A i \in DOMAIN Rules : Rules[i].strip \in Path /\ Rules[i].add \in Path
    <3>1. Rules \in Seq([strip : Path, add : Path])
      BY InboundAssumption
    <3>2. Len(Rules) \in Nat /\ DOMAIN Rules = 1..Len(Rules) /\ DOMAIN Rules \subseteq Nat
      BY <3>1
    <3>3. \A i \in DOMAIN Rules : Rules[i] \in [strip : Path, add : Path]
      BY <3>1, <3>2, ElementOfSeq
    <3> QED BY <3>2, <3>3
  <2>2. RuleStrips \in Seq(Path) /\ DOMAIN RuleStrips = DOMAIN Rules
        /\ \A i \in DOMAIN Rules : RuleStrips[i] = Rules[i].strip
    BY <2>1 DEF RuleStrips
  <2>3. strip \in Path /\ (strip # <<>> => \E i \in DOMAIN Rules : Rules[i].strip = strip)
    BY <2>2, FirstPrefixType
  <2> HIDE DEF strip
  <2>4. ASSUME strip # <<>> PROVE RuleFor(strip).add \in Path
    <3> DEFINE good == {i \in DOMAIN Rules : strip = Rules[i].strip}
               first == CHOOSE i \in DOMAIN Rules :
                          strip = Rules[i].strip /\ \A j \in 1..(i - 1) : strip # Rules[j].strip
    <3>1. good # {} /\ good \in SUBSET Nat
      BY <2>1, <2>3, <2>4
    <3>2. PICK k \in good : \A j \in good : k <= j
      BY <3>1, LeastNat
    <3>3. k \in DOMAIN Rules /\ strip = Rules[k].strip /\ \A j \in 1..(k - 1) : strip # Rules[j].strip
      BY <2>1, <3>2
    <3>4. first \in DOMAIN Rules
      BY <3>3
    <3>5. RuleFor(strip) = Rules[first]
      BY DEF RuleFor
    <3> HIDE DEF first
    <3> QED BY <2>1, <3>4, <3>5
  <2>5. Rewritten(path) = IF strip = <<>> THEN path ELSE RuleFor(strip).add \o Trimmed(strip, path)
    BY DEF Rewritten, strip
  <2>6. strip # <<>> => RuleFor(strip).add \o Trimmed(strip, path) \in Path
    BY <2>3, <2>4, TrimmedType, ConcatProperties DEF Path
  <2> QED BY <2>5, <2>6
<1> QED BY <1>1, <1>2 DEF PathAfter

LEMMA NewHostType ==
  ASSUME NEW host \in Host
  PROVE  NewHost(host) \in Host
BY InboundAssumption DEF NewHost

\* What is there when the types are right.
LEMMA Typed ==
  ASSUME TypeOK
  PROVE  /\ reqs # <<>> /\ Len(reqs) \in Nat \ {0} /\ Top \in Request /\ Base \in Request
         /\ chain \in Seq(Text) /\ IsInjective(chain) /\ DOMAIN chain = 1..Len(chain)
         /\ Len(chain) \in Nat /\ Upstream \in Nat /\ \A i \in DOMAIN chain : chain[i] \in Text
         /\ Scheme \in {"http", "https"} /\ Scheme \in Text
<1>1. reqs # <<>> /\ Len(reqs) \in Nat \ {0} /\ Top \in Request /\ Base \in Request
  BY DEF TypeOK, Base, Top, Last
<1>2. chain \in Seq(Text) /\ IsInjective(chain)
  BY InboundAssumption DEF TypeOK
<1>3. DOMAIN chain = 1..Len(chain) /\ Len(chain) \in Nat /\ \A i \in DOMAIN chain : chain[i] \in Text
  BY <1>2
<1>4. Scheme \in {"http", "https"} /\ Scheme \in Text
  BY InboundAssumption DEF Scheme
<1> QED BY <1>1, <1>2, <1>3, <1>4 DEF Upstream

LEMMA ToldFields ==
  ASSUME TypeOK, NEW name, NEW r \in Request
  PROVE  /\ Told(name, r) \in Request /\ HandedOn(name, r) \in Request
         /\ \A s \in {Told(name, r), HandedOn(name, r)} :
              /\ s.xff = XffAfter(name, r.xff) /\ s.proto = ProtoAfter(name, Scheme, r.proto)
              /\ s.xfh = XfhAfter(name, r.host, r.xfh)
              /\ s.id = IdAfter(name, drawn, r.id) /\ s.parent = ParentAfter(name, drawn, r.parent)
              /\ s.cred = r.cred /\ s.marked = r.marked
         /\ Told(name, r).path = r.path /\ Told(name, r).host = r.host
         /\ HandedOn(name, r).path = PathAfter(name, r.path)
         /\ HandedOn(name, r).host = HostAfter(name, r.host)
<1> DEFINE xff == XffAfter(name, r.xff)
           proto == ProtoAfter(name, Scheme, r.proto)
           xfh == XfhAfter(name, r.host, r.xfh)
           id == IdAfter(name, drawn, r.id)
           parent == ParentAfter(name, drawn, r.parent)
           path == PathAfter(name, r.path)
           host == HostAfter(name, r.host)
<1>1. r.path \in Path /\ r.host \in Host /\ r.xfh \in Text /\ r.xff \in Seq(Text) /\ r.id \in Nat
      /\ r.parent \in Trace /\ r.cred \in BOOLEAN /\ r.marked \in BOOLEAN /\ r.proto \in Text
  BY DEF Request
<1>2. xff \in Seq(Text)
  <2>1. "remote" \in Text
    BY InboundAssumption
  <2> QED BY <1>1, <2>1 DEF XffAfter
<1>3. proto \in Text
  BY <1>1, Typed DEF ProtoAfter, Fill
<1>4. xfh \in Text
  BY <1>1 DEF XfhAfter, Fill, Host
<1>5. id \in Nat
  BY <1>1 DEF IdAfter, TypeOK
<1>6. parent \in Trace
  BY <1>1 DEF ParentAfter, TypeOK, Trace
<1>7. path \in Path /\ host \in Host
  BY <1>1, PathAfterType, NewHostType DEF HostAfter
<1>8. Told(name, r) = [r EXCEPT !.xff = xff, !.proto = proto, !.xfh = xfh, !.id = id, !.parent = parent]
  BY DEF Told
<1>9. HandedOn(name, r) = [Told(name, r) EXCEPT !.path = PathAfter(name, Told(name, r).path),
                                                !.host = HostAfter(name, Told(name, r).host)]
  BY DEF HandedOn
<1> HIDE DEF xff, proto, xfh, id, parent
<1>10. /\ Told(name, r) \in Request /\ Told(name, r).path = r.path /\ Told(name, r).host = r.host
       /\ Told(name, r).xff = xff /\ Told(name, r).proto = proto /\ Told(name, r).xfh = xfh
       /\ Told(name, r).id = id /\ Told(name, r).parent = parent
       /\ Told(name, r).cred = r.cred /\ Told(name, r).marked = r.marked
  BY <1>1, <1>2, <1>3, <1>4, <1>5, <1>6, <1>8 DEF Request
<1>11. HandedOn(name, r) = [Told(name, r) EXCEPT !.path = path, !.host = host]
  BY <1>9, <1>10
<1> HIDE DEF path, host
<1>12. /\ HandedOn(name, r) \in Request /\ HandedOn(name, r).path = path /\ HandedOn(name, r).host = host
       /\ HandedOn(name, r).xff = xff /\ HandedOn(name, r).proto = proto /\ HandedOn(name, r).xfh = xfh
       /\ HandedOn(name, r).id = id /\ HandedOn(name, r).parent = parent
       /\ HandedOn(name, r).cred = r.cred /\ HandedOn(name, r).marked = r.marked
  BY <1>7, <1>10, <1>11 DEF Request
<1> QED BY <1>10, <1>12 DEF xff, proto, xfh, id, parent, path, host

\* Two requests are the same when they agree in everything.
LEMMA SameRequest ==
  ASSUME NEW r \in Request, NEW s \in Request,
         r.path = s.path, r.host = s.host, r.xfh = s.xfh, r.xff = s.xff, r.id = s.id,
         r.parent = s.parent, r.cred = s.cred, r.marked = s.marked, r.proto = s.proto
  PROVE  r = s
BY DEF Request

\* A layer that is not named here passes the request on as it is.
LEMMA PlainLayer ==
  ASSUME TypeOK, NEW name, NEW r \in Request
  PROVE  /\ name \notin {"requestid", "tracing", "proxyheaders", "proxytrusting", "rewritehost"} =>
              Told(name, r) = r
         /\ name \notin Cloning => HandedOn(name, r) = Told(name, r)
<1>1. ASSUME name \notin {"requestid", "tracing", "proxyheaders", "proxytrusting", "rewritehost"}
      PROVE  Told(name, r) = r
  <2> DEFINE s == Told(name, r)
  <2>1. /\ s \in Request /\ s.xff = XffAfter(name, r.xff) /\ s.proto = ProtoAfter(name, Scheme, r.proto)
        /\ s.xfh = XfhAfter(name, r.host, r.xfh) /\ s.id = IdAfter(name, drawn, r.id)
        /\ s.parent = ParentAfter(name, drawn, r.parent) /\ s.cred = r.cred /\ s.marked = r.marked
        /\ s.path = r.path /\ s.host = r.host
    BY ToldFields
  <2> HIDE DEF s
  <2>2. /\ s.xff = r.xff /\ s.proto = r.proto /\ s.xfh = r.xfh /\ s.id = r.id /\ s.parent = r.parent
    BY <1>1, <2>1 DEF XffAfter, ProtoAfter, XfhAfter, IdAfter, ParentAfter
  <2>3. s = r
    BY <2>1, <2>2, SameRequest
  <2> QED BY <2>3 DEF s
<1>2. ASSUME name \notin Cloning PROVE HandedOn(name, r) = Told(name, r)
  BY <1>2, ToldFields, SameRequest DEF PathAfter, HostAfter, Cloning
<1> QED BY <1>1, <1>2

LEMMA KeptLast ==
  ASSUME TypeOK
  PROVE  [reqs EXCEPT ![Len(reqs)] = Top] = reqs
<1>1. reqs \in Seq(Request) /\ Len(reqs) \in 1..Len(reqs)
  BY Typed DEF TypeOK
<1> QED BY <1>1 DEF Top, Last
-----------------------------------------------------------------------------
(***************************************************************************)
(* Every action is a step of one of these kinds.                            *)
(***************************************************************************)
StepKinds == PassStep \/ RefuseStep \/ ForwardStep \/ RetryAgain \/ Answered \/ Follow \/ SetEnabled

\* A gate that lets the request pass leaves it as it is.
LEMMA GatePasses ==
  ASSUME TypeOK, NEW name, In(name), Passes, Unchanged, Lets(name, Top),
         name \notin {"requestid", "tracing", "proxyheaders", "proxytrusting", "retry"} \cup Cloning
  PROVE  PassStep
<1>1. at \in DOMAIN chain /\ chain[at] = name /\ going = "in"
  BY Typed DEF In, Upstream, TypeOK
<1>2. Told(name, Top) = Top /\ HandedOn(name, Top) = Told(name, Top)
  BY Typed, PlainLayer DEF Cloning
<1>3. reqs' = [reqs EXCEPT ![Len(reqs)] = Told(name, Top)]
  BY <1>2, KeptLast DEF Unchanged
<1> QED BY <1>1, <1>2, <1>3 DEF Passes, Unchanged, PassStep, SameVisit

Refused(code) == \E body \in BOOLEAN : RefusesWith(code, body)

LEMMA RefusedWithBody ==
  ASSUME NEW code, Refuses(code)
  PROVE  Refused(code)
<1>1. RefusesWith(code, TRUE)
  BY Zenon DEF Refuses
<1>2. TRUE \in BOOLEAN
  OBVIOUS
<1> QED BY <1>1, <1>2, Zenon DEF Refused

LEMMA GateRefuses ==
  ASSUME TypeOK, NEW name, In(name), NEW code \in Nat, Refused(code),
         code = 301 => name = "redirect",
         ~Lets(name, Top) \/ name \in Fickle \/ (name = "size" /\ code = 431)
  PROVE  RefuseStep
<1>1. at \in DOMAIN chain /\ chain[at] = name /\ going = "in" /\ at < Upstream
  BY Typed DEF In, Upstream, TypeOK
<1>2. name # "upstream"
  BY DEF Lets, Fickle
<1>3. PICK body \in BOOLEAN : RefusesWith(code, body)
  BY Zenon DEF Refused
<1>4. status' = code /\ by' = name
  BY <1>1, <1>3 DEF RefusesWith, Answers
<1>5. sent' \in {sent, Header(200, 0), Header(status', 0)}
  BY <1>2, <1>3, <1>4 DEF RefusesWith, Answers
<1> QED BY <1>1, <1>3, <1>4, <1>5 DEF RefusesWith, Answers, RefuseStep, SameVisit

LEMMA ClientType ==
  ASSUME TypeOK
  PROVE  client.scheme \in {"http", "https"} /\ client.host \in Host /\ client.body \in BOOLEAN
BY DEF TypeOK, Client

\* A layer that writes to the request and hands it on.
LEMMA WriterPasses ==
  ASSUME TypeOK, NEW name, In(name), Passes, mark' = mark,
         reqs' = [reqs EXCEPT ![Len(reqs)] = Told(name, Top)],
         name \in {"requestid", "tracing", "proxyheaders", "proxytrusting"},
         name = "requestid" => echo' = [echo EXCEPT !.id = IdAfter("requestid", drawn, Top.id)],
         name = "tracing" => echo' = [echo EXCEPT !.parent = ParentAfter("tracing", drawn, Top.parent)],
         name \notin {"requestid", "tracing"} => echo' = echo,
         drawn' \in {drawn, drawn + 1, drawn + 2}
  PROVE  PassStep
<1>1. at \in DOMAIN chain /\ chain[at] = name /\ going = "in"
  BY Typed DEF In, Upstream, TypeOK
<1>2. HandedOn(name, Top) = Told(name, Top)
  BY Typed, PlainLayer DEF Cloning
<1>3. Lets(name, Top)
  BY DEF Lets
<1> QED BY <1>1, <1>2, <1>3 DEF Passes, PassStep, SameVisit

\* A layer that hands on a clone.
LEMMA ClonerPasses ==
  ASSUME TypeOK, NEW name \in Cloning, In(name), Passes, UNCHANGED <<mark, drawn, echo>>,
         \/ UNCHANGED reqs /\ HandedOn(name, Top) = Top /\ Told(name, Top) = Top
         \/ reqs' = Append([reqs EXCEPT ![Len(reqs)] = Told(name, Top)], HandedOn(name, Top))
  PROVE  PassStep
<1>1. at \in DOMAIN chain /\ chain[at] = name /\ going = "in"
  BY Typed DEF In, Upstream, TypeOK
<1>2. name \notin {"requestid", "tracing", "retry"} /\ Lets(name, Top)
  BY DEF Lets, Cloning
<1>3. CASE UNCHANGED reqs /\ HandedOn(name, Top) = Top /\ Told(name, Top) = Top
  <2>1. reqs' = [reqs EXCEPT ![Len(reqs)] = Told(name, Top)] /\ HandedOn(name, Top) = Told(name, Top)
    BY <1>3, KeptLast
  <2> QED BY <1>1, <1>2, <2>1 DEF Passes, PassStep, SameVisit
<1>4. CASE reqs' = Append([reqs EXCEPT ![Len(reqs)] = Told(name, Top)], HandedOn(name, Top))
  BY <1>1, <1>2, <1>4 DEF Passes, PassStep, SameVisit
<1> QED BY <1>3, <1>4


\* What the writers do, field by field.
LEMMA ToldByWriters ==
  ASSUME NEW r \in Request
  PROVE  /\ Told("requestid", r) = [r EXCEPT !.id = IdAfter("requestid", drawn, r.id)]
         /\ Told("tracing", r) = [r EXCEPT !.parent = ParentAfter("tracing", drawn, r.parent)]
         /\ Told("proxyheaders", r) = ForwardingHeaders(r, FALSE)
         /\ Told("proxytrusting", r) = ForwardingHeaders(r, TRUE)
         /\ Told("rewritehost", r) = [r EXCEPT !.xfh = XfhAfter("rewritehost", r.host, r.xfh)]
         /\ Told("stripprefix", r) = r /\ Told("rewrite", r) = r
<1>1. \A name : Told(name, r) =
        [r EXCEPT !.xff = XffAfter(name, r.xff), !.proto = ProtoAfter(name, Scheme, r.proto),
                  !.xfh = XfhAfter(name, r.host, r.xfh), !.id = IdAfter(name, drawn, r.id),
                  !.parent = ParentAfter(name, drawn, r.parent)]
  BY DEF Told
<1>2. Told("requestid", r) = [r EXCEPT !.id = IdAfter("requestid", drawn, r.id)]
  <2>1. Told("requestid", r) = [r EXCEPT !.xff = r.xff, !.proto = r.proto, !.xfh = r.xfh,
                                         !.id = IdAfter("requestid", drawn, r.id), !.parent = r.parent]
    BY <1>1 DEF XffAfter, ProtoAfter, XfhAfter, ParentAfter
  <2> QED BY <2>1 DEF Request
<1>3. Told("tracing", r) = [r EXCEPT !.parent = ParentAfter("tracing", drawn, r.parent)]
  <2>1. Told("tracing", r) = [r EXCEPT !.xff = r.xff, !.proto = r.proto, !.xfh = r.xfh, !.id = r.id,
                                       !.parent = ParentAfter("tracing", drawn, r.parent)]
    BY <1>1 DEF XffAfter, ProtoAfter, XfhAfter, IdAfter
  <2> QED BY <2>1 DEF Request
<1>4. Told("rewritehost", r) = [r EXCEPT !.xfh = XfhAfter("rewritehost", r.host, r.xfh)]
  <2>1. Told("rewritehost", r) =
          [r EXCEPT !.xff = r.xff, !.proto = r.proto, !.xfh = XfhAfter("rewritehost", r.host, r.xfh),
                    !.id = r.id, !.parent = r.parent]
    BY <1>1 DEF XffAfter, ProtoAfter, IdAfter, ParentAfter
  <2> QED BY <2>1 DEF Request
<1>5. Told("proxyheaders", r) = ForwardingHeaders(r, FALSE)
  <2>1. Told("proxyheaders", r) = [r EXCEPT !.xff = <<"remote">>, !.proto = Scheme, !.xfh = r.host,
                                            !.id = r.id, !.parent = r.parent]
    BY <1>1 DEF XffAfter, ProtoAfter, XfhAfter, IdAfter, ParentAfter
  <2>2. ForwardingHeaders(r, FALSE) = [r EXCEPT !.xff = <<"remote">>, !.proto = Scheme, !.xfh = r.host]
    BY DEF ForwardingHeaders, Scheme
  <2> QED BY <2>1, <2>2 DEF Request
<1>6. Told("proxytrusting", r) = ForwardingHeaders(r, TRUE)
  <2>1. Told("proxytrusting", r) =
          [r EXCEPT !.xff = Append(r.xff, "remote"), !.proto = Fill(r.proto, Scheme),
                    !.xfh = Fill(r.xfh, r.host), !.id = r.id, !.parent = r.parent]
    BY <1>1 DEF XffAfter, ProtoAfter, XfhAfter, IdAfter, ParentAfter
  <2>2. ForwardingHeaders(r, TRUE) =
          [r EXCEPT !.xff = Append(r.xff, "remote"), !.proto = Fill(r.proto, Scheme),
                    !.xfh = Fill(r.xfh, r.host)]
    BY DEF ForwardingHeaders, Scheme, Fill
  <2> QED BY <2>1, <2>2 DEF Request
<1>7. Told("stripprefix", r) = r /\ Told("rewrite", r) = r
  <2>1. \A name \in {"stripprefix", "rewrite"} : Told(name, r) =
          [r EXCEPT !.xff = r.xff, !.proto = r.proto, !.xfh = r.xfh, !.id = r.id, !.parent = r.parent]
    BY <1>1 DEF XffAfter, ProtoAfter, XfhAfter, IdAfter, ParentAfter
  <2> QED BY <2>1 DEF Request
<1> QED BY <1>2, <1>3, <1>4, <1>5, <1>6, <1>7

LEMMA RequestIDKind == TypeOK /\ RequestID => PassStep
<1> SUFFICES ASSUME TypeOK, RequestID PROVE PassStep
  OBVIOUS
<1> DEFINE id == IF Top.id = None THEN drawn + 1 ELSE Top.id
<1>1. IdAfter("requestid", drawn, Top.id) = id
  BY DEF IdAfter
<1>2. /\ In("requestid") /\ Passes /\ mark' = mark
      /\ reqs' = [reqs EXCEPT ![Len(reqs)] = [Top EXCEPT !.id = id]]
      /\ drawn' \in {drawn, drawn + 1, drawn + 2} /\ echo' = [echo EXCEPT !.id = id]
  BY DEF RequestID, InPlace
<1> HIDE DEF id
<1>3. reqs' = [reqs EXCEPT ![Len(reqs)] = Told("requestid", Top)]
  BY <1>1, <1>2, Typed, ToldByWriters
<1> QED BY <1>1, <1>2, <1>3, WriterPasses

LEMMA TracingKind == TypeOK /\ Tracing => PassStep
<1> SUFFICES ASSUME TypeOK, Tracing PROVE PassStep
  OBVIOUS
<1> DEFINE parent == [trace |-> IF Top.parent.trace = None THEN drawn + 2 ELSE Top.parent.trace,
                      span |-> drawn + 1]
<1>1. ParentAfter("tracing", drawn, Top.parent) = parent
  BY DEF ParentAfter
<1>2. /\ In("tracing") /\ Passes /\ mark' = mark
      /\ reqs' = [reqs EXCEPT ![Len(reqs)] = [Top EXCEPT !.parent = parent]]
      /\ drawn' \in {drawn, drawn + 1, drawn + 2} /\ echo' = [echo EXCEPT !.parent = parent]
  BY DEF Tracing, InPlace
<1> HIDE DEF parent
<1>3. reqs' = [reqs EXCEPT ![Len(reqs)] = Told("tracing", Top)]
  BY <1>1, <1>2, Typed, ToldByWriters
<1> QED BY <1>1, <1>2, <1>3, WriterPasses

LEMMA ProxyHeadersKind == TypeOK /\ ProxyHeaders => PassStep
<1> SUFFICES ASSUME TypeOK, ProxyHeaders PROVE PassStep
  OBVIOUS
<1>1. PICK name \in {"proxyheaders", "proxytrusting"} : In(name)
  BY DEF ProxyHeaders
<1>2. chain[at] = name
  BY <1>1 DEF In
<1>3. Told(name, Top) = ForwardingHeaders(Top, chain[at] = "proxytrusting")
  BY <1>1, <1>2, Typed, ToldByWriters
<1>4. /\ Passes /\ mark' = mark /\ drawn' = drawn /\ echo' = echo
      /\ reqs' = [reqs EXCEPT ![Len(reqs)] = Told(name, Top)]
  BY <1>3 DEF ProxyHeaders, InPlace
<1> QED BY <1>1, <1>4, WriterPasses

LEMMA RewriteHostKind == TypeOK /\ (RewriteHost \/ KeepHost) => PassStep
<1> SUFFICES ASSUME TypeOK, RewriteHost \/ KeepHost PROVE PassStep
  OBVIOUS
<1> DEFINE name == "rewritehost"
<1>1. Top \in Request /\ name \in Cloning
  BY Typed DEF Cloning
<1>2. CASE RewriteHost
  <2>1. Told(name, Top) = [Top EXCEPT !.xfh = Top.host]
    BY <1>1, <1>2, ToldByWriters DEF XfhAfter, RewriteHost
  <2>2. HandedOn(name, Top) = [Told(name, Top) EXCEPT !.host = NewHost(@)]
    <3>1. Told(name, Top) \in Request
      BY <1>1, ToldFields
    <3>2. HandedOn(name, Top) = [Told(name, Top) EXCEPT !.path = Told(name, Top).path,
                                                        !.host = NewHost(Told(name, Top).host)]
      BY DEF HandedOn, PathAfter, HostAfter
    <3> QED BY <3>1, <3>2 DEF Request
  <2>3. /\ In(name) /\ Passes /\ UNCHANGED <<mark, drawn, echo>>
        /\ reqs' = Append([reqs EXCEPT ![Len(reqs)] = [Top EXCEPT !.xfh = Top.host]],
                          [[Top EXCEPT !.xfh = Top.host] EXCEPT !.host = NewHost(@)])
    BY <1>2 DEF RewriteHost
  <2> QED BY <1>1, <2>1, <2>2, <2>3, ClonerPasses
<1>3. CASE KeepHost
  <2>1. NewHost(Top.host) = Top.host
    BY <1>3 DEF KeepHost
  <2>2. Told(name, Top) = Top
    <3>1. Told(name, Top) = [Top EXCEPT !.xfh = Top.xfh]
      BY <1>1, <2>1, ToldByWriters DEF XfhAfter
    <3> QED BY <1>1, <3>1 DEF Request
  <2>3. HandedOn(name, Top) = Top
    <3>1. HandedOn(name, Top) = [Top EXCEPT !.path = Top.path, !.host = NewHost(Top.host)]
      BY <2>2 DEF HandedOn, PathAfter, HostAfter
    <3> QED BY <1>1, <2>1, <3>1 DEF Request
  <2> QED BY <1>1, <1>3, <2>2, <2>3, ClonerPasses DEF KeepHost, Unchanged
<1> QED BY <1>2, <1>3

LEMMA StripPrefixKind == TypeOK /\ StripPrefix => PassStep
<1> SUFFICES ASSUME TypeOK, StripPrefix PROVE PassStep
  OBVIOUS
<1> DEFINE name == "stripprefix"
           prefix == FirstPrefix(Strips, Top.path)
<1>1. Top \in Request /\ name \in Cloning /\ Told(name, Top) = Top
  BY Typed, ToldByWriters DEF Cloning
<1>2. HandedOn(name, Top) = [Top EXCEPT !.path = Stripped(Top.path)]
  <2>1. HandedOn(name, Top) = [Top EXCEPT !.path = Stripped(Top.path), !.host = Top.host]
    BY <1>1 DEF HandedOn, PathAfter, HostAfter
  <2> QED BY <1>1, <2>1 DEF Request
<1>3. Stripped(Top.path) = IF prefix = <<>> THEN Top.path ELSE Trimmed(prefix, Top.path)
  BY DEF Stripped
<1>4. /\ In(name) /\ Passes /\ UNCHANGED <<mark, drawn, echo>>
      /\ prefix = <<>> => UNCHANGED reqs
      /\ prefix # <<>> => reqs' = Append(reqs, [Top EXCEPT !.path = Trimmed(prefix, Top.path)])
  BY DEF StripPrefix, OnClone
<1> HIDE DEF prefix
<1>5. prefix = <<>> => HandedOn(name, Top) = Top
  BY <1>1, <1>2, <1>3 DEF Request
<1>6. prefix # <<>> => reqs' = Append([reqs EXCEPT ![Len(reqs)] = Told(name, Top)], HandedOn(name, Top))
  BY <1>1, <1>2, <1>3, <1>4, KeptLast
<1> QED BY <1>1, <1>4, <1>5, <1>6, ClonerPasses

LEMMA PathRewriteKind == TypeOK /\ PathRewrite => PassStep
<1> SUFFICES ASSUME TypeOK, PathRewrite PROVE PassStep
  OBVIOUS
<1> DEFINE name == "rewrite"
           strip == FirstPrefix(RuleStrips, Top.path)
<1>1. Top \in Request /\ name \in Cloning /\ Told(name, Top) = Top
  BY Typed, ToldByWriters DEF Cloning
<1>2. HandedOn(name, Top) = [Top EXCEPT !.path = Rewritten(Top.path)]
  <2>1. HandedOn(name, Top) = [Top EXCEPT !.path = Rewritten(Top.path), !.host = Top.host]
    BY <1>1 DEF HandedOn, PathAfter, HostAfter
  <2> QED BY <1>1, <2>1 DEF Request
<1>3. Rewritten(Top.path) = IF strip = <<>> THEN Top.path ELSE RuleFor(strip).add \o Trimmed(strip, Top.path)
  BY DEF Rewritten
<1>4. /\ In(name) /\ Passes /\ UNCHANGED <<mark, drawn, echo>>
      /\ strip = <<>> => UNCHANGED reqs
      /\ strip # <<>> =>
           reqs' = Append(reqs, [Top EXCEPT !.path = RuleFor(strip).add \o Trimmed(strip, Top.path)])
  BY DEF PathRewrite, OnClone, RuleFor, RuleStrips
<1> HIDE DEF strip
<1>5. strip = <<>> => HandedOn(name, Top) = Top
  BY <1>1, <1>2, <1>3 DEF Request
<1>6. strip # <<>> => reqs' = Append([reqs EXCEPT ![Len(reqs)] = Told(name, Top)], HandedOn(name, Top))
  BY <1>1, <1>2, <1>3, <1>4, KeptLast
<1> QED BY <1>1, <1>4, <1>5, <1>6, ClonerPasses

LEMMA RedirectKind == TypeOK /\ Redirect => PassStep \/ RefuseStep
<1> SUFFICES ASSUME TypeOK, Redirect PROVE PassStep \/ RefuseStep
  OBVIOUS
<1>1. In("redirect")
  BY DEF Redirect
<1>2. CASE Top.path \in Exempt \/ Secure
  <2>1. Lets("redirect", Top)
    BY <1>2 DEF Lets, Secure
  <2> QED BY <1>1, <1>2, <2>1, GatePasses DEF Redirect, Cloning
<1>3. CASE ~(Top.path \in Exempt \/ Secure)
  <2>1. ~Lets("redirect", Top)
    BY <1>3 DEF Lets, Secure
  <2>2. Refused(301)
    <3>1. PICK body \in {FALSE, ~client.body} : RefusesWith(301, body)
      BY <1>3, Zenon DEF Redirect
    <3>2. body \in BOOLEAN
      BY <3>1, ClientType, Zenon
    <3> QED BY <3>1, <3>2, Zenon DEF Refused
  <2> QED BY <1>1, <2>1, <2>2, GateRefuses
<1> QED BY <1>2, <1>3

LEMMA AuthKind == TypeOK /\ Auth => PassStep \/ RefuseStep
<1> SUFFICES ASSUME TypeOK, Auth PROVE PassStep \/ RefuseStep
  OBVIOUS
<1>1. In("auth")
  BY DEF Auth
<1>2. CASE Top.path \in Exempt \/ Top.cred
  <2>1. Lets("auth", Top)
    BY <1>2 DEF Lets
  <2> QED BY <1>1, <1>2, <2>1, GatePasses DEF Auth, Cloning
<1>3. CASE ~(Top.path \in Exempt \/ Top.cred)
  <2>1. ~Lets("auth", Top)
    BY <1>3 DEF Lets
  <2> QED BY <1>1, <1>3, <2>1, GateRefuses, RefusedWithBody DEF Auth
<1> QED BY <1>2, <1>3

LEMMA JWTKind == TypeOK /\ JWT => PassStep \/ RefuseStep
<1> SUFFICES ASSUME TypeOK, JWT PROVE PassStep \/ RefuseStep
  OBVIOUS
<1>1. In("jwt")
  BY DEF JWT
<1>2. CASE Top.path \in Exempt \/ (Top.cred /\ ~expired)
  <2>1. Lets("jwt", Top)
    BY <1>2 DEF Lets
  <2> QED BY <1>1, <1>2, <2>1, GatePasses DEF JWT, Cloning
<1>3. CASE ~(Top.path \in Exempt \/ (Top.cred /\ ~expired))
  <2>1. ~Lets("jwt", Top)
    BY <1>3 DEF Lets
  <2> QED BY <1>1, <1>3, <2>1, GateRefuses, RefusedWithBody DEF JWT
<1> QED BY <1>2, <1>3

LEMMA IPFilterKind == TypeOK /\ IPFilter => PassStep \/ RefuseStep
<1> SUFFICES ASSUME TypeOK, IPFilter PROVE PassStep \/ RefuseStep
  OBVIOUS
<1> DEFINE address == Address("ipfilter")
<1>1. In("ipfilter") /\ (Lets("ipfilter", Top) <=> ~(Len(address) > 1 \/ Head(address) \in Denied))
  BY DEF IPFilter, Lets, Admits, Address, View
<1>2. CASE Len(address) > 1 \/ Head(address) \in Denied
  BY <1>1, <1>2, GateRefuses, RefusedWithBody DEF IPFilter
<1>3. CASE ~(Len(address) > 1 \/ Head(address) \in Denied)
  BY <1>1, <1>3, GatePasses DEF IPFilter, Cloning
<1> QED BY <1>2, <1>3

LEMMA GeoBlockKind == TypeOK /\ GeoBlock => PassStep \/ RefuseStep
<1> SUFFICES ASSUME TypeOK, GeoBlock PROVE PassStep \/ RefuseStep
  OBVIOUS
<1>1. In("geoblock") /\ Lets("geoblock", Top) /\ "geoblock" \in Fickle
  BY DEF GeoBlock, Lets, Fickle
<1>2. CASE Refuses(403)
  BY <1>1, <1>2, GateRefuses, RefusedWithBody
<1>3. CASE Passes /\ Unchanged
  BY <1>1, <1>3, GatePasses DEF Cloning
<1> QED BY <1>2, <1>3 DEF GeoBlock

LEMMA RateLimitKind == TypeOK /\ RateLimit => PassStep \/ RefuseStep
<1> SUFFICES ASSUME TypeOK, RateLimit PROVE PassStep \/ RefuseStep
  OBVIOUS
<1>1. In("ratelimit") /\ Lets("ratelimit", Top) /\ "ratelimit" \in Fickle
  BY DEF RateLimit, Lets, Fickle
<1>2. CASE Refuses(429)
  BY <1>1, <1>2, GateRefuses, RefusedWithBody
<1>3. CASE Passes /\ Unchanged
  BY <1>1, <1>3, GatePasses DEF Cloning
<1> QED BY <1>2, <1>3 DEF RateLimit

LEMMA RequestSizeKind == TypeOK /\ RequestSize => PassStep \/ RefuseStep
<1> SUFFICES ASSUME TypeOK, RequestSize PROVE PassStep \/ RefuseStep
  OBVIOUS
<1>1. In("size") /\ (Lets("size", Top) <=> client.fit)
  BY DEF RequestSize, Lets
<1>2. CASE \E code \in {413, 414} : ~client.fit /\ Refuses(code)
  <2>1. PICK code \in {413, 414} : ~client.fit /\ Refuses(code)
    BY <1>2
  <2>2. code \in Nat /\ code # 301
    OBVIOUS
  <2> QED BY <1>1, <2>1, <2>2, GateRefuses, RefusedWithBody
<1>3. CASE Refuses(431)
  BY <1>1, <1>3, GateRefuses, RefusedWithBody
<1>4. CASE client.fit /\ Passes /\ Unchanged
  BY <1>1, <1>4, GatePasses DEF Cloning
<1> QED BY <1>2, <1>3, <1>4 DEF RequestSize

LEMMA CORSKind == TypeOK /\ CORS => PassStep \/ RefuseStep
<1> SUFFICES ASSUME TypeOK, CORS PROVE PassStep \/ RefuseStep
  OBVIOUS
<1>1. In("cors")
  BY DEF CORS
<1>2. CASE client.origin = "other"
  <2>1. ~Lets("cors", Top) /\ Refused(403)
    <3>1. RefusesWith(403, FALSE)
      BY <1>2 DEF CORS
    <3> QED BY <1>2, <3>1 DEF Lets, Refused
  <2> QED BY <1>1, <2>1, GateRefuses
<1>3. CASE client.origin = "listed" /\ client.preflight
  <2>1. ~Lets("cors", Top) /\ Refused(204)
    <3>1. RefusesWith(204, FALSE)
      BY <1>3 DEF CORS
    <3> QED BY <1>3, <3>1 DEF Lets, Refused
  <2> QED BY <1>1, <2>1, GateRefuses
<1>4. CASE ~(client.origin = "other" \/ (client.origin = "listed" /\ client.preflight))
  <2>1. Lets("cors", Top) /\ Passes /\ Unchanged
    BY <1>4 DEF Lets, CORS
  <2> QED BY <1>1, <2>1, GatePasses DEF Cloning
<1> QED BY <1>2, <1>3, <1>4

LEMMA MaintenanceKind == TypeOK /\ Maintenance => PassStep \/ RefuseStep
<1> SUFFICES ASSUME TypeOK, Maintenance PROVE PassStep \/ RefuseStep
  OBVIOUS
<1>1. In("maintenance") /\ (Lets("maintenance", Top) <=> ~(enabled /\ Top.path \notin Exempt))
  BY DEF Maintenance, Lets
<1>2. CASE enabled /\ Top.path \notin Exempt
  BY <1>1, <1>2, GateRefuses, RefusedWithBody DEF Maintenance
<1>3. CASE ~(enabled /\ Top.path \notin Exempt)
  BY <1>1, <1>3, GatePasses DEF Maintenance, Cloning
<1> QED BY <1>2, <1>3

LEMMA AllowListKind == TypeOK /\ AllowList => PassStep \/ RefuseStep
<1> SUFFICES ASSUME TypeOK, AllowList PROVE PassStep \/ RefuseStep
  OBVIOUS
<1>1. In("allowlist") /\ (Lets("allowlist", Top) <=> Allowed = {} \/ IsAllowed(Top.path))
  BY DEF AllowList, Lets
<1>2. CASE Allowed = {} \/ IsAllowed(Top.path)
  BY <1>1, <1>2, GatePasses DEF AllowList, Cloning
<1>3. CASE ~(Allowed = {} \/ IsAllowed(Top.path))
  BY <1>1, <1>3, GateRefuses, RefusedWithBody DEF AllowList
<1> QED BY <1>2, <1>3

LEMMA ScreenKind == TypeOK /\ Screen => PassStep \/ RefuseStep
<1> SUFFICES ASSUME TypeOK, Screen PROVE PassStep \/ RefuseStep
  OBVIOUS
<1>1. In("screen") /\ (Lets("screen", Top) <=> client.fit)
  BY DEF Screen, Lets
<1>2. CASE client.fit
  BY <1>1, <1>2, GatePasses DEF Screen, Cloning
<1>3. CASE ~client.fit
  BY <1>1, <1>3, GateRefuses, RefusedWithBody DEF Screen
<1> QED BY <1>2, <1>3

LEMMA HealthCheckKind == TypeOK /\ HealthCheck => PassStep \/ RefuseStep
<1> SUFFICES ASSUME TypeOK, HealthCheck PROVE PassStep \/ RefuseStep
  OBVIOUS
<1>1. In("health") /\ (Lets("health", Top) <=> Top.path # HealthPath)
  BY DEF HealthCheck, Lets
<1>2. CASE Top.path # HealthPath
  BY <1>1, <1>2, GatePasses DEF HealthCheck, Cloning
<1>3. CASE Top.path = HealthPath
  <2>1. PICK code \in {200, 503} : Refuses(code)
    BY <1>3 DEF HealthCheck
  <2>2. code \in Nat /\ code # 301
    OBVIOUS
  <2> QED BY <1>1, <1>3, <2>1, <2>2, GateRefuses, RefusedWithBody
<1> QED BY <1>2, <1>3

LEMMA EnterRetryKind == TypeOK /\ EnterRetry => PassStep
<1> SUFFICES ASSUME TypeOK, EnterRetry PROVE PassStep
  OBVIOUS
<1>1. at \in DOMAIN chain /\ chain[at] = "retry" /\ going = "in"
  BY Typed DEF EnterRetry, In, Upstream, TypeOK
<1>2. Told("retry", Top) = Top /\ HandedOn("retry", Top) = Told("retry", Top)
  BY Typed, PlainLayer DEF Cloning
<1>3. Lets("retry", Top)
  BY DEF Lets
<1>4. reqs' = [reqs EXCEPT ![Len(reqs)] = Told("retry", Top)]
  BY <1>2, KeptLast DEF EnterRetry
<1> QED BY <1>1, <1>2, <1>3, <1>4 DEF EnterRetry, Passes, PassStep, SameVisit

LEMMA EveryStep == TypeOK /\ Next => StepKinds
BY RequestIDKind, TracingKind, ProxyHeadersKind, RewriteHostKind, StripPrefixKind, PathRewriteKind,
   RedirectKind, AuthKind, JWTKind, IPFilterKind, GeoBlockKind, RateLimitKind, RequestSizeKind,
   CORSKind, MaintenanceKind, AllowListKind, ScreenKind, HealthCheckKind, EnterRetryKind
   DEF Next, StepKinds, ForwardStep
-----------------------------------------------------------------------------
(***************************************************************************)
(* What steps do to the requests.                                           *)
(***************************************************************************)
Marked(r) == [r EXCEPT !.marked = TRUE]

LEMMA MarkedFields ==
  ASSUME NEW r \in Request
  PROVE  /\ Marked(r) \in Request /\ Marked(r).path = r.path /\ Marked(r).host = r.host
         /\ Marked(r).xfh = r.xfh /\ Marked(r).xff = r.xff /\ Marked(r).id = r.id
         /\ Marked(r).parent = r.parent /\ Marked(r).cred = r.cred /\ Marked(r).proto = r.proto
BY DEF Request, Marked

LEMMA PassRequests ==
  ASSUME TypeOK, PassStep
  PROVE  /\ reqs' \in Seq(Request) /\ mark' \in 1..Len(reqs') /\ Len(reqs') >= Len(reqs)
         /\ Top' = HandedOn(chain[at], Top)
         /\ chain[at] = "retry" => Base' = Top /\ Top' = Top /\ Len(reqs') = mark'
         /\ chain[at] # "retry" /\ mark = Len(reqs) =>
              /\ Base = Top /\ Base' = Told(chain[at], Top)
              /\ Len(reqs') # mark' => chain[at] \in Cloning
         /\ chain[at] # "retry" /\ mark # Len(reqs) => Base' = Base
<1> DEFINE name == chain[at]
           told == [reqs EXCEPT ![Len(reqs)] = Told(name, Top)]
<1>1. Told(name, Top) \in Request /\ HandedOn(name, Top) \in Request
  BY Typed, ToldFields
<1>2. reqs \in Seq(Request) /\ reqs # <<>> /\ Len(reqs) \in Nat \ {0} /\ mark \in 1..Len(reqs)
  BY Typed DEF TypeOK
<1>3. /\ told \in Seq(Request) /\ Len(told) = Len(reqs) /\ told[Len(reqs)] = Told(name, Top)
      /\ \A i \in 1..(Len(reqs) - 1) : told[i] = reqs[i]
  BY <1>1, <1>2, ReplacedLast DEF Last
<1>4. /\ Top = reqs[Len(reqs)] /\ Top' = reqs'[Len(reqs')] /\ Base = reqs[mark] /\ Base' = reqs'[mark']
  BY DEF Top, Last, Base
<1>5. mark' = IF name = "retry" THEN Len(reqs) ELSE mark
  BY DEF PassStep
<1>6. name = "retry" => Told(name, Top) = Top /\ HandedOn(name, Top) = Top
  BY Typed, PlainLayer DEF Cloning
<1> HIDE DEF told
<1>7. CASE reqs' = told /\ HandedOn(name, Top) = Told(name, Top)
  BY <1>1, <1>2, <1>3, <1>4, <1>5, <1>6, <1>7
<1>8. CASE reqs' = Append(told, HandedOn(name, Top)) /\ name \in Cloning
  <2>1. /\ reqs' \in Seq(Request) /\ Len(reqs') = Len(reqs) + 1
        /\ reqs'[Len(reqs')] = HandedOn(name, Top) /\ \A i \in 1..Len(reqs) : reqs'[i] = told[i]
    BY <1>1, <1>3, <1>8, Appended DEF Last
  <2>2. name # "retry"
    BY <1>8 DEF Cloning
  <2> QED BY <1>2, <1>3, <1>4, <1>5, <1>8, <2>1, <2>2
<1> QED BY <1>7, <1>8 DEF PassStep, told

LEMMA ForwardRequests ==
  ASSUME TypeOK, ForwardStep
  PROVE  /\ reqs' \in Seq(Request) /\ Len(reqs') = Len(reqs) /\ mark' = mark
         /\ Top' = Marked(Top) /\ Base' \in {Base, Marked(Base)}
<1>1. reqs \in Seq(Request) /\ reqs # <<>> /\ Len(reqs) \in Nat \ {0} /\ mark \in 1..Len(reqs)
  BY Typed DEF TypeOK
<1>2. Marked(Top) \in Request
  BY Typed, MarkedFields
<1>3. reqs' = [reqs EXCEPT ![Len(reqs)] = Marked(Top)] /\ mark' = mark
  BY DEF ForwardStep, Forward, ForwardFails, InPlace, Marked, Answers
<1>4. /\ reqs' \in Seq(Request) /\ Len(reqs') = Len(reqs) /\ reqs'[Len(reqs)] = Marked(Top)
      /\ \A i \in 1..(Len(reqs) - 1) : reqs'[i] = reqs[i]
  BY <1>1, <1>2, <1>3, ReplacedLast DEF Last
<1>5. /\ Top = reqs[Len(reqs)] /\ Top' = reqs'[Len(reqs')] /\ Base = reqs[mark] /\ Base' = reqs'[mark']
  BY DEF Top, Last, Base
<1>6. Top' = Marked(Top)
  BY <1>4, <1>5
<1>7. CASE mark = Len(reqs)
  BY <1>3, <1>4, <1>5, <1>6, <1>7
<1>8. CASE mark \in 1..(Len(reqs) - 1)
  BY <1>3, <1>4, <1>5, <1>6, <1>8
<1> QED BY <1>1, <1>7, <1>8

LEMMA RetryRequests ==
  ASSUME TypeOK, RetryAgain
  PROVE  /\ reqs' \in Seq(Request) /\ mark' = mark /\ Len(reqs') = mark /\ Top' = Base /\ Base' = Base
<1>1. reqs \in Seq(Request) /\ mark \in 1..Len(reqs) /\ reqs' = SubSeq(reqs, 1, mark) /\ mark' = mark
  BY DEF TypeOK, RetryAgain
<1> QED BY <1>1, CutBack DEF Top, Base, Last

\* A visit begins with one request.
LEMMA IncomingFields ==
  ASSUME NEW c \in Client, fronted \in BOOLEAN
  PROVE  /\ Incoming(c) \in Request /\ Incoming(c).path = c.path /\ Incoming(c).host = c.host
         /\ Incoming(c).xfh = c.xfh /\ Incoming(c).xff = c.xff /\ Incoming(c).id = c.id
         /\ Incoming(c).parent = c.parent /\ Incoming(c).cred = c.cred
         /\ Incoming(c).proto = IF fronted THEN c.scheme ELSE Absent
<1>1. {Absent, "http", "https"} \subseteq Text
  BY InboundAssumption
<1>2. c.scheme \in Text
  BY <1>1 DEF Client
<1> QED BY <1>1, <1>2 DEF Incoming, Client, Request

\* Last(<<r>>) = r.
LEMMA OneRequest ==
  ASSUME NEW r \in Request
  PROVE  <<r>> \in Seq(Request) /\ Len(<<r>>) = 1 /\ Last(<<r>>) = r /\ <<r>>[1] = r
BY DEF Last

\* A redirected client is a client.
LEMMA FollowClient ==
  ASSUME TypeOK, Follow
  PROVE  /\ client' \in Client /\ client'.scheme = "https" /\ client'.host = Top.host
         /\ client'.id = client.id /\ client'.parent = client.parent /\ client'.body = client.body
         /\ reqs' = <<Incoming(client')>> /\ Top' = Incoming(client') /\ Base' = Incoming(client')
         /\ Top' \in Request
<1>1. client \in Client /\ Top \in Request /\ fronted \in BOOLEAN /\ fronted' = fronted
  BY Typed DEF TypeOK, Follow
<1>2. client' = [client EXCEPT !.scheme = "https", !.host = Top.host, !.path = Top.path]
      /\ reqs' = <<Incoming(client')>> /\ mark' = 1
  BY DEF Follow, Visit
<1>3. /\ client' \in Client /\ client'.scheme = "https" /\ client'.host = Top.host
      /\ client'.id = client.id /\ client'.parent = client.parent /\ client'.body = client.body
  BY <1>1, <1>2 DEF Client, Request
<1>4. Incoming(client') \in Request
  BY <1>1, <1>3, IncomingFields
<1> QED BY <1>2, <1>3, <1>4, OneRequest DEF Top, Base, Last
-----------------------------------------------------------------------------
(***************************************************************************)
(* Type correctness.                                                        *)
(***************************************************************************)
LEMMA IndexFacts ==
  ASSUME TypeOK
  PROVE  /\ \A name \in Layers : Index(name) \in DOMAIN chain /\ chain[Index(name)] = name
         /\ \A i \in DOMAIN chain : chain[i] \in Layers /\ Index(chain[i]) = i
<1>1. \A name \in Layers : Index(name) \in DOMAIN chain /\ chain[Index(name)] = name
  BY DEF Layers, ToSet, Index
<1>2. \A i \in DOMAIN chain : chain[i] \in Layers
  BY DEF Layers, ToSet
<1> QED BY <1>1, <1>2, Typed DEF IsInjective

LEMMA JudgedType ==
  ASSUME TypeOK
  PROVE  Judged \subseteq [layer : Text, address : Seq(Text)]
<1>1. Top.xff \in Seq(Text)
  BY Typed DEF Request
<1>2. "remote" \in Text
  BY InboundAssumption
<1>3. <<"remote">> \in Seq(Text)
  BY <1>2
<1>4. Top.xff # <<>> => <<Head(Top.xff)>> \in Seq(Text)
  BY <1>1, HeadTailProperties
<1>5. \A name : Address(name) \in Seq(Text)
  BY <1>1, <1>3, <1>4 DEF Address
<1>6. at < Upstream => chain[at] \in Text
  BY Typed DEF TypeOK, Upstream
<1> QED BY <1>5, <1>6 DEF Judged, TypeOK

\* Nothing is echoed or sent yet.
LEMMA NoneYet ==
  /\ NoEcho \in Echo /\ NotSent.status = 0 /\ NotSent.from = 0
  /\ \A n \in Nat : NotSent \in [status : Nat, echo : Echo, from : 0..n]
<1>1. NoEcho \in Echo
  BY DEF NoEcho, NoTrace, None, Echo, Trace
<1> QED BY <1>1 DEF NotSent

\* What the answer to a request fixes.
LEMMA HeaderType ==
  ASSUME TypeOK, NEW code \in Nat, NEW n \in Nat, NEW from \in 0..n
  PROVE  /\ Header(code, from) \in [status : Nat, echo : Echo, from : 0..n]
         /\ Header(code, from).status = code /\ Header(code, from).echo = echo
         /\ Header(code, from).from = from
BY DEF Header, TypeOK

\* The upstream's answer, or the transport's, fixes the header or does not.
LEMMA ForwardSends ==
  ASSUME TypeOK, ForwardStep
  PROVE  /\ going = "in" /\ going' = "out" /\ status' \in {200, 502, 503}
         /\ SameVisit /\ UNCHANGED <<at, mark, tries, enabled, expired, drawn, echo, changed>>
         /\ by' \in {"transport", "upstream"}
         /\ \/ sent' = sent
            \/ \E code \in {200, 502, 503} : sent' = Header(code, 0)
            \/ \E code \in {200, 502, 503} : sent' = Header(code, Len(seen) + 1) /\ seen' = Append(seen, Top)
         /\ seen' = seen \/ seen' = Append(seen, Top)
<1>1. at = Upstream /\ ~(at < Upstream) /\ going = "in"
  <2>1. at = Upstream /\ going = "in"
    BY Zenon DEF ForwardStep, Forward, ForwardFails
  <2> QED BY <2>1, Typed
<1>2. CASE Forward
  <2>1. PICK code \in {200, 503}, body \in BOOLEAN : Answers(code, body)
    BY <1>2 DEF Forward
  <2>2. seen' = Append(seen, Top) /\ ~Spent
    BY <1>2 DEF Forward
  <2>3. by' = "upstream"
    BY <1>1, <2>1, <2>2 DEF Answers
  <2>4. sent' = sent \/ \E c \in {200, 503} : sent' = Header(c, Len(seen) + 1)
    BY <2>1, <2>3 DEF Answers
  <2> QED BY <1>1, <2>1, <2>2, <2>3, <2>4 DEF Answers, SameVisit
<1>3. CASE ForwardFails
  <2>1. Answers(502, TRUE) /\ seen' = seen /\ Spent
    BY <1>3 DEF ForwardFails
  <2>2. by' = "transport"
    BY <1>1, <2>1 DEF Answers
  <2>3. sent' = sent \/ \E c \in {200, 502} : sent' = Header(c, 0)
    BY <2>1, <2>2 DEF Answers
  <2> QED BY <1>1, <2>1, <2>2, <2>3 DEF Answers, SameVisit
<1> QED BY <1>2, <1>3 DEF ForwardStep

LEMMA ExpiredType == TypeOK /\ TimePasses => expired' \in BOOLEAN
<1>1. TypeOK => expired \in BOOLEAN
  BY DEF TypeOK
<1>2. ("jwt" \in Layers) \in BOOLEAN
  OBVIOUS
<1> QED BY <1>1, <1>2, Zenon DEF TimePasses

LEMMA InitType == Init => TypeOK
<1> SUFFICES ASSUME Init PROVE TypeOK
  OBVIOUS
<1>1. client \in Client /\ fronted \in BOOLEAN /\ chain \in Seq(Text)
  BY InboundAssumption DEF Init
<1>2. Incoming(client) \in Request
  BY <1>1, IncomingFields
<1>3. reqs \in Seq(Request) /\ Len(reqs) = 1 /\ seen \in Seq(Request)
  BY <1>2, OneRequest DEF Init
<1>4. at \in 1..Upstream
  BY <1>1 DEF Init, Upstream
<1>5. "nobody" \in Text /\ MaxVisits \in Nat \ {0} /\ MaxAttempts \in Nat \ {0}
  BY InboundAssumption
<1>6. /\ echo \in Echo /\ sent \in [status : Nat, echo : Echo, from : 0..Len(seen)]
      /\ changed \subseteq {"jwt", "maintenance"}
  <2>1. Len(seen) \in Nat
    BY <1>3
  <2> QED BY <2>1, NoneYet DEF Init
<1>7. enabled \in BOOLEAN /\ expired \in BOOLEAN
  <2>1. ("maintenance" \in ToSet(chain)) \in BOOLEAN
    OBVIOUS
  <2>2. enabled \in {"maintenance" \in ToSet(chain), FALSE} /\ expired = FALSE
    BY DEF Init
  <2> QED BY <2>1, <2>2, Zenon
<1>8. /\ visits \in 1..MaxVisits /\ mark \in 1..Len(reqs) /\ tries \in 1..MaxAttempts
      /\ going \in {"in", "out", "over"} /\ by \in Text /\ status \in Nat /\ drawn \in Nat \ {0}
      /\ chain \in Chains /\ judged = {}
  BY <1>3, <1>5 DEF Init
<1> QED BY <1>1, <1>3, <1>4, <1>6, <1>7, <1>8 DEF TypeOK

LEMMA StepType == TypeOK /\ [Next]_vars => TypeOK'
<1> SUFFICES ASSUME TypeOK, [Next]_vars PROVE TypeOK'
  OBVIOUS
<1>1. CASE PassStep
  <2>1. reqs' \in Seq(Request) /\ mark' \in 1..Len(reqs')
    BY <1>1, PassRequests
  <2>2. at' \in 1..Upstream /\ chain' = chain /\ Upstream' = Upstream
    BY <1>1, Typed DEF PassStep, SameVisit, Upstream
  <2>3. drawn' \in Nat \ {0}
    BY <1>1 DEF PassStep, TypeOK
  <2>4. judged' \subseteq [layer : Text, address : Seq(Text)]
    BY <1>1, JudgedType DEF PassStep
  <2>5. echo' \in Echo
    <3>1. Top.id \in Nat /\ Top.parent \in Trace /\ drawn \in Nat /\ echo \in Echo
      BY Typed DEF Request, TypeOK
    <3>2. IdAfter("requestid", drawn, Top.id) \in Nat /\ ParentAfter("tracing", drawn, Top.parent) \in Trace
      BY <3>1 DEF IdAfter, ParentAfter, Trace
    <3> QED BY <1>1, <3>1, <3>2 DEF PassStep, Echo
  <2> QED BY <1>1, <2>1, <2>2, <2>3, <2>4, <2>5 DEF PassStep, SameVisit, TypeOK
<1>2. CASE RefuseStep
  <2>1. chain[at] \in Text /\ Upstream' = Upstream
    BY <1>2, Typed DEF RefuseStep, SameVisit, Upstream
  <2>2. judged' \subseteq [layer : Text, address : Seq(Text)]
    BY <1>2, JudgedType DEF RefuseStep
  <2>3. sent' \in [status : Nat, echo : Echo, from : 0..Len(seen)] /\ seen' = seen
    <3>1. status' \in Nat /\ 200 \in Nat /\ Len(seen) \in Nat /\ 0 \in 0..Len(seen) /\ seen' = seen
      BY <1>2 DEF RefuseStep, TypeOK
    <3>2. sent' \in {sent, Header(200, 0), Header(status', 0)}
      BY <1>2 DEF RefuseStep
    <3>3. sent \in [status : Nat, echo : Echo, from : 0..Len(seen)]
      BY DEF TypeOK
    <3> QED BY <3>1, <3>2, <3>3, HeaderType
  <2> QED BY <1>2, <2>1, <2>2, <2>3 DEF RefuseStep, SameVisit, TypeOK
<1>3. CASE ForwardStep
  <2>1. reqs' \in Seq(Request) /\ mark' \in 1..Len(reqs')
    BY <1>3, ForwardRequests DEF TypeOK
  <2>2. seen' \in Seq(Request)
    <3>1. seen \in Seq(Request) /\ Top \in Request
      BY Typed DEF TypeOK
    <3>2. Append(seen, Top) \in Seq(Request)
      BY <3>1, Appended
    <3>3. seen' = seen \/ seen' = Append(seen, Top)
      BY <1>3 DEF ForwardStep, Forward, ForwardFails
    <3> QED BY <3>1, <3>2, <3>3
  <2>3. judged' \subseteq [layer : Text, address : Seq(Text)]
    BY <1>3, JudgedType DEF ForwardStep, Forward, ForwardFails, Answers
  <2>4. by' \in Text /\ status' \in Nat /\ Upstream' = Upstream /\ going' = "out"
    <3>3. by' \in {"transport", "upstream"} /\ status' \in Nat /\ going' = "out" /\ chain' = chain
      BY <1>3, ForwardSends DEF SameVisit
    <3>4. {"transport", "upstream"} \subseteq Text
      BY InboundAssumption
    <3>5. Upstream' = Upstream
      BY <3>3 DEF Upstream
    <3> QED BY <3>3, <3>4, <3>5
  <2>5. sent' \in [status : Nat, echo : Echo, from : 0..Len(seen')]
    <3>1. seen \in Seq(Request) /\ Top \in Request /\ Len(seen) \in Nat
          /\ sent \in [status : Nat, echo : Echo, from : 0..Len(seen)]
      BY Typed DEF TypeOK
    <3>2. Len(Append(seen, Top)) = Len(seen) + 1
      BY <3>1, Appended
    <3>3. /\ Len(seen') \in Nat /\ Len(seen) <= Len(seen')
          /\ seen' = Append(seen, Top) => Len(seen) + 1 \in 0..Len(seen')
      BY <1>3, <3>1, <3>2, ForwardSends
    <3>4. \A code \in {200, 502, 503} :
            /\ Header(code, 0) \in [status : Nat, echo : Echo, from : 0..Len(seen')]
            /\ seen' = Append(seen, Top) =>
                 Header(code, Len(seen) + 1) \in [status : Nat, echo : Echo, from : 0..Len(seen')]
      BY <3>3, HeaderType
    <3>5. sent \in [status : Nat, echo : Echo, from : 0..Len(seen')]
      BY <3>1, <3>3
    <3>6. \/ sent' = sent
          \/ \E code \in {200, 502, 503} : sent' = Header(code, 0)
          \/ \E code \in {200, 502, 503} : sent' = Header(code, Len(seen) + 1) /\ seen' = Append(seen, Top)
      BY <1>3, ForwardSends
    <3> QED BY <3>4, <3>5, <3>6
  <2>6. SameVisit /\ UNCHANGED <<at, mark, tries, enabled, expired, drawn, echo, changed>>
    BY <1>3, ForwardSends
  <2> QED BY <2>1, <2>2, <2>3, <2>4, <2>5, <2>6 DEF SameVisit, TypeOK
<1>4. CASE RetryAgain
  <2>1. reqs' \in Seq(Request) /\ mark' \in 1..Len(reqs')
    BY <1>4, RetryRequests DEF TypeOK
  <2>2. at' \in 1..Upstream /\ Upstream' = Upstream
    BY <1>4, Typed, IndexFacts DEF RetryAgain, Again, Retried, Upstream
  <2>3. tries' \in 1..MaxAttempts
    <3>1. MaxAttempts \in Nat /\ tries \in 1..MaxAttempts /\ tries < MaxAttempts /\ tries' = tries + 1
      BY <1>4, InboundAssumption DEF RetryAgain, Again, Retried, TypeOK
    <3> QED BY <3>1
  <2>4. expired' \in BOOLEAN
    BY <1>4, ExpiredType DEF RetryAgain
  <2>5. changed' \subseteq {"jwt", "maintenance"}
    BY <1>4 DEF RetryAgain, TypeOK
  <2> QED BY <1>4, <2>1, <2>2, <2>3, <2>4, <2>5 DEF RetryAgain, TypeOK
<1>5. CASE Answered
  <2>1. Upstream' = Upstream
    BY <1>5 DEF Answered, Upstream
  <2>2. sent' \in [status : Nat, echo : Echo, from : 0..Len(seen)] /\ seen' = seen
    <3>1. Len(seen) \in Nat /\ status \in Nat /\ seen' = seen
          /\ sent \in [status : Nat, echo : Echo, from : 0..Len(seen)]
      BY <1>5 DEF Answered, TypeOK
    <3>2. sent' = sent \/ sent' = Header(status, 0) \/ sent' = Header(status, Len(seen))
      BY <1>5 DEF Answered
    <3> QED BY <3>1, <3>2, HeaderType
  <2> QED BY <1>5, <2>1, <2>2 DEF Answered, TypeOK
<1>6. CASE Follow
  <2>1. client' \in Client /\ reqs' \in Seq(Request) /\ Len(reqs') = 1
    BY <1>6, FollowClient, OneRequest
  <2>2. 1 \in 1..Upstream /\ Upstream' = Upstream
    BY <1>6, Typed DEF Follow, Upstream
  <2>3. "nobody" \in Text /\ MaxAttempts \in Nat \ {0}
    BY InboundAssumption
  <2>4. visits' \in 1..MaxVisits
    <3>1. MaxVisits \in Nat /\ visits \in 1..MaxVisits /\ visits < MaxVisits /\ visits' = visits + 1
      BY <1>6, InboundAssumption DEF Follow, TypeOK
    <3> QED BY <3>1
  <2>5. echo' \in Echo /\ sent' \in [status : Nat, echo : Echo, from : 0..Len(seen')]
    <3>1. echo' = NoEcho /\ sent' = NotSent /\ Len(seen') = 0
      BY <1>6 DEF Follow, Visit
    <3> QED BY <3>1, NoneYet
  <2>6. expired' \in BOOLEAN /\ <<>> \in Seq(Request)
    <3>1. expired' \in BOOLEAN
      BY <1>6, ExpiredType DEF Follow
    <3>2. <<>> \in Seq(Request)
      OBVIOUS
    <3> QED BY <3>1, <3>2
  <2> QED BY <1>6, <2>1, <2>2, <2>3, <2>4, <2>5, <2>6 DEF Follow, Visit, TypeOK
<1>7. CASE SetEnabled
  <2>1. Upstream' = Upstream
    BY <1>7 DEF SetEnabled, Upstream
  <2>2. changed' \subseteq {"jwt", "maintenance"}
    BY <1>7 DEF SetEnabled, TypeOK
  <2> QED BY <1>7, <2>1, <2>2 DEF SetEnabled, TypeOK
<1>8. CASE UNCHANGED vars
  <2>1. Upstream' = Upstream
    BY <1>8 DEF vars, Upstream
  <2> QED BY <1>8, <2>1 DEF vars, TypeOK
<1> QED BY <1>1, <1>2, <1>3, <1>4, <1>5, <1>6, <1>7, <1>8, EveryStep DEF StepKinds

\* The variables keep their types, and Retry makes at most MaxAttempts attempts,
\* each with a request that exists (retry.go:58-75).
THEOREM TypeCorrect == Spec => []TypeOK
BY InitType, StepType, PTL DEF Spec
-----------------------------------------------------------------------------
(***************************************************************************)
(* The chain of a process does not change, nor what depends on it alone.    *)
(***************************************************************************)
LEMMA ChainKept ==
  ASSUME chain' = chain
  PROVE  /\ Layers' = Layers /\ Rt' = Rt /\ Upstream' = Upstream /\ \A a : Index(a)' = Index(a)
         /\ \A a, b : (Outside(a, b)' <=> Outside(a, b))
         /\ \A a : (Shielded(a)' <=> Shielded(a))
         /\ \A a : (AddressMayChange(a)' <=> AddressMayChange(a))
         /\ (ProtoKept' <=> ProtoKept)
BY DEF Layers, Rt, Upstream, Index, Outside, Shielded, AddressMayChange, ProtoKept

LEMMA EveryStepKeepsChain ==
  ASSUME TypeOK, [Next]_vars
  PROVE  chain' = chain /\ (fronted' <=> fronted)
BY EveryStep DEF StepKinds, PassStep, SameVisit, RefuseStep, ForwardStep, Forward, ForwardFails,
   Answers, RetryAgain, Answered, Follow, SetEnabled, vars

\* Retry's place, when it has one.
LEMMA RtType ==
  ASSUME TypeOK, "retry" \in Layers
  PROVE  Rt \in Nat /\ Rt \in DOMAIN chain /\ Rt < Upstream /\ chain[Rt] = "retry"
BY IndexFacts, Typed DEF Rt, Upstream

-----------------------------------------------------------------------------
(***************************************************************************)
(* Only Retry makes a second attempt.                                       *)
(***************************************************************************)
LEMMA InitFresh == Init => Fresh
<1> SUFFICES ASSUME Init PROVE Fresh
  OBVIOUS
<1>1. seen = <<>> /\ by = "nobody" /\ Len(seen) = 0
  BY DEF Init
<1> QED BY <1>1 DEF Fresh

LEMMA StepFresh == TypeOK /\ Fresh /\ [Next]_vars => Fresh'
<1> SUFFICES ASSUME TypeOK, Fresh, [Next]_vars PROVE Fresh'
  OBVIOUS
<1>1. chain' = chain /\ Layers' = Layers /\ Rt' = Rt /\ Upstream' = Upstream
  BY EveryStepKeepsChain, ChainKept
<1>2. /\ at \in Nat /\ Upstream \in Nat /\ seen \in Seq(Request) /\ Len(seen) \in Nat
      /\ "retry" \in Layers => Rt \in Nat
  BY Typed, RtType DEF TypeOK
<1>3. CASE PassStep
  <2>1. going' = "in" /\ seen' = seen /\ client' = client /\ going = "in" /\ at' = at + 1
    BY <1>3 DEF PassStep, SameVisit
  <2>2. seen = <<>> \/ InRetry
    BY <2>1 DEF Fresh
  <2>3. InRetry => InRetry'
    BY <1>1, <1>2, <2>1 DEF InRetry
  <2> QED BY <2>1, <2>2, <2>3 DEF Fresh
<1>4. CASE RefuseStep
  <2>1. /\ going' = "out" /\ seen' = seen /\ client' = client /\ going = "in" /\ at' = at
        /\ by' = chain[at]
    BY <1>4 DEF RefuseStep, SameVisit
  <2>2. seen = <<>> \/ InRetry
    BY <2>1 DEF Fresh
  <2>3. InRetry' = InRetry
    BY <1>1, <2>1 DEF InRetry
  <2>4. chain[at] # "upstream"
    BY <1>4 DEF RefuseStep, Lets, Fickle
  <2> QED BY <2>1, <2>2, <2>3, <2>4 DEF Fresh
<1>5. CASE Forward
  <2>1. /\ going = "in" /\ at = Upstream /\ ~Spent /\ seen' = Append(seen, Top)
        /\ going' = "out" /\ at' = at /\ client' = client
    BY <1>5 DEF Forward, Answers
  <2>2. Top \in Request /\ Top'.id = Top.id /\ Top'.parent = Top.parent
    BY <1>5, Typed, ForwardRequests, MarkedFields DEF ForwardStep
  <2>3. seen' # <<>> /\ Len(seen') = Len(seen) + 1 /\ Last(seen') = Top
    BY <1>2, <2>1, <2>2, Appended
  <2>4. seen = <<>> => Len(seen) = 0
    BY <1>2
  <2>5. client.body => seen = <<>>
    BY <2>1 DEF Spent
  <2>6. InRetry' = InRetry
    BY <1>1, <2>1 DEF InRetry
  <2>7. seen = <<>> \/ InRetry
    BY <2>1 DEF Fresh
  <2>8. Last(seen)' = Last(seen')
    OBVIOUS
  <2> QED BY <1>1, <2>1, <2>2, <2>3, <2>4, <2>5, <2>6, <2>7, <2>8 DEF Fresh
<1>6. CASE ForwardFails
  <2>1. /\ going = "in" /\ at = Upstream /\ Spent /\ seen' = seen /\ at' = at /\ client' = client
        /\ by' = "transport"
    BY <1>6, Typed DEF ForwardFails, Answers
  <2>2. InRetry
    BY <2>1 DEF Spent, Fresh
  <2>3. InRetry' = InRetry
    BY <1>1, <2>1 DEF InRetry
  <2> QED BY <2>1, <2>2, <2>3 DEF Fresh
<1>7. CASE RetryAgain
  <2>1. going' = "in" /\ seen' = seen /\ client' = client /\ at' = Rt + 1 /\ "retry" \in Layers
    BY <1>7 DEF RetryAgain, Again, Retried, Rt
  <2>2. InRetry'
    BY <1>1, <1>2, <2>1 DEF InRetry
  <2> QED BY <2>1, <2>2 DEF Fresh
<1>8. CASE Answered
  BY <1>1, <1>8 DEF Answered, Fresh, InRetry, Top
<1>9. CASE Follow
  <2>1. seen' = <<>> /\ by' = "nobody" /\ Len(<<>>) = 0
    BY <1>9 DEF Follow, Visit
  <2> QED BY <2>1 DEF Fresh
<1>10. CASE SetEnabled
  BY <1>1, <1>10 DEF SetEnabled, Fresh, InRetry, Top
<1>11. CASE UNCHANGED vars
  BY <1>1, <1>11 DEF vars, Fresh, InRetry, Top
<1> QED BY <1>3, <1>4, <1>5, <1>6, <1>7, <1>8, <1>9, <1>10, <1>11, EveryStep DEF StepKinds, ForwardStep

\* A request that is passed on outside Retry has not been at the upstream.
LEMMA FirstAttempt ==
  ASSUME TypeOK, Fresh, going = "in", ~InRetry
  PROVE  seen = <<>>
BY DEF Fresh
-----------------------------------------------------------------------------
(***************************************************************************)
(* X-Forwarded-Proto and the redirect to https.                             *)
(***************************************************************************)
LEMMA AbsentIsNoScheme == Absent \notin {"http", "https"}
BY Zenon DEF Absent

LEMMA PassProto ==
  ASSUME TypeOK, PassStep
  PROVE  /\ Top'.proto = ProtoAfter(chain[at], Scheme, Top.proto)
         /\ \/ chain[at] # "retry" /\ Base'.proto = Base.proto
            \/ chain[at] # "retry" /\ Base'.proto = ProtoAfter(chain[at], Scheme, Base.proto)
            \/ chain[at] = "retry" /\ Base'.proto = Top.proto
BY PassRequests, Typed, ToldFields

LEMMA InitProto == Init => ProtoTold
<1> SUFFICES ASSUME Init PROVE ProtoTold
  OBVIOUS
<1>1. TypeOK
  BY InitType
<1>2. client \in Client /\ fronted \in BOOLEAN /\ reqs = <<Incoming(client)>> /\ mark = 1
      /\ visits = 1 /\ status = 0 /\ sent.status = 0
  BY <1>1, NoneYet DEF TypeOK, Init
<1>3. Incoming(client) \in Request /\ Incoming(client).proto = IF fronted THEN client.scheme ELSE Absent
  BY <1>2, IncomingFields
<1>4. Top = Incoming(client) /\ Base = Incoming(client)
  BY <1>2, <1>3, OneRequest DEF Top, Base
<1> QED BY <1>2, <1>3, <1>4 DEF ProtoTold

LEMMA StepProto == TypeOK /\ ProtoTold /\ [Next]_vars => ProtoTold'
<1> SUFFICES ASSUME TypeOK, ProtoTold, [Next]_vars PROVE ProtoTold'
  OBVIOUS
<1>1. /\ chain' = chain /\ Layers' = Layers /\ Rt' = Rt /\ (ProtoKept' <=> ProtoKept)
      /\ (fronted' <=> fronted) /\ Index("redirect")' = Index("redirect")
  BY EveryStepKeepsChain, ChainKept
<1>2. /\ at \in Nat /\ visits \in Nat /\ client.scheme \in {"http", "https"} /\ fronted \in BOOLEAN
      /\ "retry" \in Layers => Rt \in Nat
      /\ "redirect" \in Layers => Index("redirect") \in Nat
  BY Typed, RtType, ClientType, IndexFacts DEF TypeOK
<1>3. (fronted => Scheme = "http") /\ (~fronted => Scheme = client.scheme)
  BY <1>2 DEF Scheme, TLS
<1>4. CASE PassStep
  <2>1. /\ client' = client /\ visits' = visits /\ status' = status /\ sent' = sent /\ at' = at + 1
        /\ at \in DOMAIN chain
    BY <1>4 DEF PassStep, SameVisit
  <2>2. chain[at] \in Layers /\ Index(chain[at]) = at
    BY <2>1, IndexFacts
  <2>3. ~fronted => Top'.proto \in {Absent, client.scheme}
    BY <1>3, <1>4, PassProto DEF ProtoTold, ProtoAfter, Fill
  <2>4. ~fronted /\ InRetry' => Base'.proto \in {Absent, client.scheme}
    <3>1. chain[at] # "retry" /\ InRetry' => InRetry
      BY <1>1, <1>2, <2>1, <2>2, RtType DEF InRetry, Rt
    <3> QED BY <1>3, <1>4, <3>1, PassProto DEF ProtoTold, ProtoAfter, Fill
  <2>5. fronted /\ ProtoKept /\ Untouched' => Top'.proto = client.scheme
    <3> SUFFICES ASSUME fronted, ProtoKept, Untouched' PROVE Top'.proto = client.scheme
      OBVIOUS
    <3>1. Untouched
      BY <1>1, <1>2, <2>1 DEF Untouched
    <3>2. chain[at] # "proxyheaders"
      BY <1>1, <1>2, <2>1, <2>2 DEF Untouched, ProtoKept, Outside
    <3> QED BY <1>2, <1>4, <3>1, <3>2, PassProto, AbsentIsNoScheme DEF ProtoTold, ProtoAfter, Fill
  <2>6. fronted /\ InRetry' /\ "proxyheaders" \notin Layers => Base'.proto = client.scheme
    <3>1. chain[at] # "retry" /\ InRetry' => InRetry
      BY <1>1, <1>2, <2>1, <2>2, RtType DEF InRetry, Rt
    <3>2. "proxyheaders" \notin Layers => ProtoKept /\ Untouched /\ chain[at] # "proxyheaders"
      BY <2>2 DEF ProtoKept, Untouched
    <3> QED BY <1>2, <1>4, <3>1, <3>2, PassProto, AbsentIsNoScheme DEF ProtoTold, ProtoAfter, Fill
  <2> QED BY <1>1, <2>1, <2>3, <2>4, <2>5, <2>6 DEF ProtoTold
<1>5. CASE RefuseStep
  <2>1. /\ client' = client /\ visits' = visits /\ at' = at /\ reqs' = reqs /\ mark' = mark
        /\ at \in DOMAIN chain
    BY <1>5 DEF RefuseStep, SameVisit
  <2>2. (~fronted \/ ProtoKept) /\ (status' = 301 \/ sent'.status = 301) => client.scheme = "http"
    <3> SUFFICES ASSUME ~fronted \/ ProtoKept, status' = 301 PROVE client.scheme = "http"
      <4>1. status' \in Nat /\ sent' \in {sent, Header(200, 0), Header(status', 0)}
        BY <1>5 DEF RefuseStep
      <4>2. sent'.status \in {sent.status, 200, status'}
        BY <4>1 DEF Header
      <4> QED BY <4>2 DEF ProtoTold
    <3>1. chain[at] = "redirect" /\ ~TLS /\ Top.proto # "https"
      BY <1>5 DEF RefuseStep, Lets, Fickle
    <3>2. "redirect" \in Layers /\ Index("redirect") = at
      BY <2>1, <3>1, IndexFacts
    <3>3. Untouched
      BY <1>2, <3>2 DEF Untouched
    <3> QED BY <1>2, <3>1, <3>3 DEF ProtoTold, TLS
  <2>3. Top' = Top /\ Base' = Base /\ (InRetry' <=> InRetry) /\ (Untouched' <=> Untouched)
    BY <1>1, <2>1 DEF Top, Base, InRetry, Untouched
  <2> QED BY <1>1, <2>1, <2>2, <2>3 DEF ProtoTold
<1>6. CASE ForwardStep
  <2>1. client' = client /\ visits' = visits /\ at' = at
    BY <1>6 DEF ForwardStep, Forward, ForwardFails, Answers
  <2>4. status' # 301 /\ (sent' = sent \/ sent'.status # 301)
    <3>1. status' \in {200, 502, 503} /\ (sent' = sent \/ sent'.status \in {200, 502, 503})
      BY <1>6, ForwardSends DEF Header
    <3> QED BY <3>1
  <2>2. Top'.proto = Top.proto /\ Base'.proto = Base.proto
    BY <1>6, Typed, ForwardRequests, MarkedFields
  <2>3. (InRetry' <=> InRetry) /\ (Untouched' <=> Untouched)
    BY <1>1, <2>1 DEF InRetry, Untouched
  <2> QED BY <1>1, <2>1, <2>2, <2>3, <2>4 DEF ProtoTold
<1>7. CASE RetryAgain
  <2>1. /\ client' = client /\ visits' = visits /\ status' = status /\ sent' = sent /\ at' = Rt + 1
        /\ "retry" \in Layers /\ InRetry
    BY <1>7 DEF RetryAgain, Again, Retried, Rt, InRetry
  <2>2. Top' = Base /\ Base' = Base
    BY <1>7, RetryRequests
  <2>3. ProtoKept /\ Untouched' => "proxyheaders" \notin Layers
    BY <1>1, <1>2, <2>1 DEF ProtoKept, Untouched, Outside, Rt
  <2> QED BY <1>1, <2>1, <2>2, <2>3 DEF ProtoTold
<1>8. CASE Answered
  <2>1. sent' = sent \/ sent'.status = status
    BY <1>8 DEF Answered, Header
  <2> QED BY <1>1, <1>8, <2>1 DEF Answered, ProtoTold, InRetry, Top, Base, Untouched
<1>9. CASE Follow
  <2>1. /\ client'.scheme = "https" /\ client' \in Client /\ Top' = Incoming(client')
        /\ Base' = Incoming(client')
    BY <1>9, FollowClient
  <2>2. status' = 0 /\ sent'.status = 0
    BY <1>9, NoneYet DEF Follow, Visit
  <2>3. Incoming(client').proto = IF fronted THEN client'.scheme ELSE Absent
    BY <1>2, <2>1, IncomingFields
  <2> QED BY <1>1, <2>1, <2>2, <2>3 DEF ProtoTold
<1>10. CASE SetEnabled
  BY <1>1, <1>10 DEF SetEnabled, ProtoTold, InRetry, Top, Base, Untouched
<1>11. CASE UNCHANGED vars
  BY <1>1, <1>11 DEF vars, ProtoTold, InRetry, Top, Base, Untouched
<1> QED BY <1>4, <1>5, <1>6, <1>7, <1>8, <1>9, <1>10, <1>11, EveryStep DEF StepKinds

\* A client that follows the redirect is not redirected again: a redirect finds
\* a client that speaks http, and the one that has followed speaks https
\* (redirecthttps.go:46-58).
THEOREM RedirectsOnce == Spec => []RedirectedOnce
<1>1. Init => RedirectedOnce
  BY DEF Init, RedirectedOnce
<1>2. TypeOK /\ ProtoTold /\ RedirectedOnce /\ [Next]_vars => RedirectedOnce'
  <2> SUFFICES ASSUME TypeOK, ProtoTold, RedirectedOnce, [Next]_vars PROVE RedirectedOnce'
    OBVIOUS
  <2>1. (fronted' <=> fronted) /\ (ProtoKept' <=> ProtoKept) /\ visits \in Nat
    BY EveryStepKeepsChain, ChainKept DEF TypeOK
  <2>2. CASE Follow
    <3>1. sent.status = 301 /\ visits' = visits + 1
      BY <2>2 DEF Follow
    <3>2. ~fronted \/ ProtoKept => visits < 2
      BY <2>1, <3>1 DEF ProtoTold
    <3> QED BY <2>1, <3>1, <3>2 DEF RedirectedOnce
  <2>3. CASE ~Follow
    <3>1. visits' = visits
      BY <2>3, EveryStep DEF StepKinds, PassStep, SameVisit, RefuseStep, ForwardStep, Forward,
         ForwardFails, Answers, RetryAgain, Answered, SetEnabled, vars
    <3> QED BY <2>1, <3>1 DEF RedirectedOnce
  <2> QED BY <2>2, <2>3
<1> QED BY <1>1, <1>2, InitType, StepType, InitProto, StepProto, PTL DEF Spec
-----------------------------------------------------------------------------
(***************************************************************************)
(* Where layers are in a chain.                                             *)
(***************************************************************************)

\* One layer further on in the chain.
LEMMA WithinStep ==
  ASSUME NEW c \in Seq(Text), IsInjective(c), NEW i \in DOMAIN c, NEW j \in Nat, i < j, NEW name
  PROVE  /\ Within(c, name, i, j) <=> c[i] = name \/ Within(c, name, i + 1, j)
         /\ c[i] = name => ~Within(c, name, i + 1, j)
<1>1. DOMAIN c = 1..Len(c) /\ Len(c) \in Nat
  OBVIOUS
<1>2. \A k \in DOMAIN c : i <= k <=> k = i \/ i + 1 <= k
  BY <1>1
<1>3. Within(c, name, i, j) <=> c[i] = name \/ Within(c, name, i + 1, j)
  BY <1>1, <1>2 DEF Within
<1>4. c[i] = name => ~Within(c, name, i + 1, j)
  BY <1>1 DEF Within, IsInjective
<1> QED BY <1>3, <1>4

LEMMA WithinNothing ==
  ASSUME NEW c \in Seq(Text), NEW i \in Nat, NEW name
  PROVE  ~Within(c, name, i, i)
BY DEF Within

\* A layer of the chain lies somewhere.
LEMMA WithinIndex ==
  ASSUME TypeOK, NEW i \in Nat, NEW j \in Nat, NEW name
  PROVE  Within(chain, name, i, j) <=> name \in Layers /\ i <= Index(name) /\ Index(name) < j
<1>1. Within(chain, name, i, j) => name \in Layers /\ i <= Index(name) /\ Index(name) < j
  BY IndexFacts DEF Within
<1>2. name \in Layers /\ i <= Index(name) /\ Index(name) < j => Within(chain, name, i, j)
  BY IndexFacts DEF Within
<1> QED BY <1>1, <1>2

LEMMA BeforeOutside ==
  ASSUME TypeOK, NEW a, NEW b
  PROVE  Before(chain, a, b) <=> Outside(a, b)
<1>1. Before(chain, a, b) => Outside(a, b)
  BY IndexFacts DEF Before, Outside
<1>2. Outside(a, b) => Before(chain, a, b)
  BY IndexFacts DEF Before, Outside
<1> QED BY <1>1, <1>2

-----------------------------------------------------------------------------
(***************************************************************************)
(* RewriteHost keeps the host in X-Forwarded-Host.                          *)
(***************************************************************************)

\* What a layer makes of a request that has the client's host.
LEMMA HasHostStep ==
  ASSUME NEW c \in Seq(Text), IsInjective(c), NEW i \in DOMAIN c, NEW host \in Host, NEW r, NEW s,
         ~Before(c, "rewritehost", "proxyheaders"),
         HasHost(c, r, host, i),
         s.host = HostAfter(c[i], r.host), s.xfh = XfhAfter(c[i], r.host, r.xfh)
  PROVE  HasHost(c, s, host, i + 1)
<1>1. DOMAIN c = 1..Len(c) /\ Len(c) \in Nat /\ i \in Nat /\ 1 <= i
  OBVIOUS
<1>2. \A name : Within(c, name, 1, i + 1) <=> Within(c, name, 1, i) \/ c[i] = name
  BY <1>1 DEF Within
<1>3. \A name : c[i] = name => ~Within(c, name, 1, i)
  BY <1>1 DEF Within, IsInjective
<1>4. c[i] = "proxyheaders" => ~Within(c, "rewritehost", 1, i)
  BY <1>1 DEF Within, Before
<1>5. host # Absent
  BY DEF Host
<1> QED BY <1>2, <1>3, <1>4, <1>5 DEF HasHost, HostTo, HostAfter, XfhAfter, Fill

\* What a layer inside leaves behind on one that has passed RewriteHost.
LEMMA HasHostLeft ==
  ASSUME NEW c \in Seq(Text), IsInjective(c), NEW i \in DOMAIN c, NEW j \in Nat, j <= i,
         NEW host \in Host, NEW r, NEW s,
         ~Before(c, "rewritehost", "proxyheaders"),
         HasHost(c, r, host, j), s.host = r.host, s.xfh = XfhAfter(c[i], r.host, r.xfh)
  PROVE  HasHost(c, s, host, j)
<1>1. DOMAIN c = 1..Len(c) /\ Len(c) \in Nat /\ i \in Nat
  OBVIOUS
<1>2. Within(c, "rewritehost", 1, j) => c[i] \notin {"proxyheaders", "rewritehost"}
  BY <1>1 DEF Within, Before, IsInjective
<1>3. host # Absent
  BY DEF Host
<1> QED BY <1>2, <1>3 DEF HasHost, XfhAfter, Fill

\* So the request at the end of the chain has it as the upstream wants it.
LEMMA HasHostForwarded ==
  ASSUME NEW c, NEW i, NEW host, NEW r, HasHost(c, r, host, i)
  PROVE  r.host = host \/ r.xfh = host
BY DEF HasHost, HostTo

\* What becomes of the two requests that the invariants speak of.
LEMMA PassKinds ==
  ASSUME TypeOK, PassStep
  PROVE  /\ at \in DOMAIN chain /\ at \in Nat /\ at' = at + 1 /\ at < Upstream
         /\ chain[at] \in Layers /\ Index(chain[at]) = at
         /\ Top \in Request /\ Base \in Request /\ Top' = HandedOn(chain[at], Top)
         /\ InRetry' =>
              \/ chain[at] = "retry" /\ Rt = at /\ ~InRetry /\ Base' = Top /\ Top' = Top
              \/ InRetry /\ chain[at] # "retry" /\ Base' = Base
              \/ /\ InRetry /\ chain[at] # "retry" /\ mark = Len(reqs) /\ Base = Top
                 /\ Base' = Told(chain[at], Base)
<1>1. /\ at \in DOMAIN chain /\ at \in Nat /\ at' = at + 1 /\ at < Upstream
      /\ Top \in Request /\ Base \in Request /\ chain' = chain
  BY Typed DEF PassStep, SameVisit, TypeOK, Upstream
<1>2. chain[at] \in Layers /\ Index(chain[at]) = at
  BY <1>1, IndexFacts
<1>3. InRetry' <=> "retry" \in Layers /\ Rt < at + 1
  BY <1>1, ChainKept DEF InRetry
<1>4. InRetry' => (chain[at] = "retry" /\ Rt = at /\ ~InRetry) \/ (chain[at] # "retry" /\ InRetry)
  BY <1>1, <1>2, <1>3, RtType DEF InRetry, Rt
<1> QED BY <1>1, <1>2, <1>4, PassRequests

\* A request that comes in for the first time is not inside Retry.
LEMMA NotYetInRetry ==
  ASSUME TypeOK, chain' = chain, at' = 1
  PROVE  ~InRetry'
BY ChainKept, RtType, Typed DEF InRetry

LEMMA InitRequests ==
  ASSUME Init
  PROVE  /\ TypeOK /\ client \in Client /\ Top = Incoming(client) /\ Base = Incoming(client)
         /\ Top \in Request /\ ~InRetry /\ seen = <<>> /\ at = 1
<1>1. TypeOK
  BY InitType
<1>2. client \in Client /\ fronted \in BOOLEAN /\ reqs = <<Incoming(client)>> /\ mark = 1
      /\ seen = <<>> /\ at = 1
  BY <1>1 DEF TypeOK, Init
<1>3. Incoming(client) \in Request
  BY <1>2, IncomingFields
<1>4. Top = Incoming(client) /\ Base = Incoming(client)
  BY <1>2, <1>3, OneRequest DEF Top, Base
<1>5. ~InRetry
  BY <1>1, <1>2, RtType, Typed DEF InRetry
<1> QED BY <1>1, <1>2, <1>3, <1>4, <1>5

LEMMA SeenNothing == ToSet(<<>>) = {}
BY DEF ToSet

\* What Forward makes of the requests that the upstream has got.
LEMMA ForwardKinds ==
  ASSUME TypeOK, ForwardStep
  PROVE  /\ at = Upstream /\ at' = at /\ client' = client /\ chain' = chain /\ (InRetry' <=> InRetry)
         /\ \A r \in ToSet(seen') : r \in ToSet(seen) \/ r = Top
         /\ Top \in Request /\ Base \in Request /\ Top' = Marked(Top) /\ Base' \in {Base, Marked(Base)}
<1>1. /\ at = Upstream /\ at' = at /\ client' = client /\ chain' = chain
      /\ seen' \in {seen, Append(seen, Top)}
  BY DEF ForwardStep, Forward, ForwardFails, Answers
<1>2. InRetry' <=> InRetry
  BY <1>1, ChainKept DEF InRetry
<1>3. \A r \in ToSet(Append(seen, Top)) : r \in ToSet(seen) \/ r = Top
  BY Typed, Appended DEF TypeOK
<1> QED BY <1>1, <1>2, <1>3, Typed, ForwardRequests

LEMMA InitHost == Init => HostTold
<1> SUFFICES ASSUME Init, ~Outside("rewritehost", "proxyheaders")
             PROVE  HasHost(chain, Top, client.host, at)
  BY InitRequests, SeenNothing DEF HostTold
<1>1. ~Within(chain, "rewritehost", 1, 1)
  BY WithinNothing, InitRequests, Typed
<1>2. Top.host = client.host /\ at = 1
  BY InitRequests, IncomingFields DEF TypeOK
<1> QED BY <1>1, <1>2 DEF HasHost, HostTo

LEMMA StepHost == TypeOK /\ HostTold /\ [Next]_vars => HostTold'
<1> SUFFICES ASSUME TypeOK, HostTold, [Next]_vars, ~Outside("rewritehost", "proxyheaders")
             PROVE  /\ HasHost(chain', Top', client'.host, at')
                    /\ InRetry' => HasHost(chain', Base', client'.host, Rt' + 1)
                    /\ \A r \in ToSet(seen') : r.host = client'.host \/ r.xfh = client'.host
  BY EveryStepKeepsChain, ChainKept DEF HostTold
<1>1. chain' = chain /\ Layers' = Layers /\ Rt' = Rt
  BY EveryStepKeepsChain, ChainKept
<1>2. /\ HasHost(chain, Top, client.host, at)
      /\ InRetry => HasHost(chain, Base, client.host, Rt + 1)
      /\ \A r \in ToSet(seen) : r.host = client.host \/ r.xfh = client.host
  BY DEF HostTold
<1>3. /\ chain \in Seq(Text) /\ IsInjective(chain) /\ client.host \in Host /\ at \in Nat
      /\ "retry" \in Layers => Rt \in Nat
      /\ ~Before(chain, "rewritehost", "proxyheaders")
  BY Typed, ClientType, BeforeOutside, RtType DEF TypeOK
<1>4. CASE PassStep
  <2>1. seen' = seen /\ client' = client
    BY <1>4 DEF PassStep, SameVisit
  <2>2. at \in DOMAIN chain /\ at' = at + 1 /\ Top \in Request /\ Base \in Request
        /\ Top' = HandedOn(chain[at], Top)
    BY <1>4, PassKinds
  <2>3. HasHost(chain, Top', client.host, at + 1)
    <3>1. Top'.host = HostAfter(chain[at], Top.host) /\ Top'.xfh = XfhAfter(chain[at], Top.host, Top.xfh)
      BY <2>2, ToldFields
    <3> QED BY <1>2, <1>3, <2>2, <3>1, HasHostStep
  <2>4. ASSUME InRetry' PROVE HasHost(chain, Base', client.host, Rt + 1)
    <3>1. CASE chain[at] = "retry" /\ Rt = at /\ Base' = Top'
      BY <2>3, <3>1
    <3>2. CASE InRetry /\ Base' = Base
      BY <1>2, <3>2
    <3>3. CASE InRetry /\ Base' = Told(chain[at], Base)
      <4>1. Base'.host = Base.host /\ Base'.xfh = XfhAfter(chain[at], Base.host, Base.xfh)
        BY <2>2, <3>3, ToldFields
      <4>2. Rt + 1 \in Nat /\ Rt + 1 <= at
        BY <1>3, <3>3 DEF InRetry
      <4> QED BY <1>2, <1>3, <2>2, <3>3, <4>1, <4>2, HasHostLeft
    <3> QED BY <1>4, <2>4, <3>1, <3>2, <3>3, PassKinds
  <2> QED BY <1>1, <1>2, <2>1, <2>2, <2>3, <2>4
<1>5. CASE RefuseStep
  <2>1. /\ client' = client /\ at' = at /\ reqs' = reqs /\ mark' = mark /\ seen' = seen
    BY <1>5 DEF RefuseStep, SameVisit
  <2>2. Top' = Top /\ Base' = Base /\ (InRetry' <=> InRetry)
    BY <1>1, <2>1 DEF Top, Base, InRetry
  <2> QED BY <1>1, <1>2, <2>1, <2>2
<1>6. CASE ForwardStep
  <2>1. /\ client' = client /\ at' = at /\ (InRetry' <=> InRetry)
        /\ \A r \in ToSet(seen') : r \in ToSet(seen) \/ r = Top
    BY <1>6, ForwardKinds
  <2>2. Top'.host = Top.host /\ Top'.xfh = Top.xfh /\ Base'.host = Base.host /\ Base'.xfh = Base.xfh
    BY <1>6, ForwardKinds, MarkedFields
  <2>3. Top.host = client.host \/ Top.xfh = client.host
    BY <1>2, HasHostForwarded
  <2> QED BY <1>1, <1>2, <2>1, <2>2, <2>3 DEF HasHost
<1>7. CASE RetryAgain
  <2>1. client' = client /\ at' = Rt + 1 /\ InRetry /\ seen' = seen
    BY <1>7 DEF RetryAgain, Again, Retried, Rt, InRetry
  <2>2. Top' = Base /\ Base' = Base
    BY <1>7, RetryRequests
  <2> QED BY <1>1, <1>2, <2>1, <2>2
<1>8. CASE Answered \/ SetEnabled \/ UNCHANGED vars
  <2>1. client' = client /\ at' = at /\ reqs' = reqs /\ mark' = mark /\ seen' = seen
    BY <1>8 DEF Answered, SetEnabled, vars
  <2>2. Top' = Top /\ Base' = Base /\ (InRetry' <=> InRetry)
    BY <1>1, <2>1 DEF Top, Base, InRetry
  <2> QED BY <1>1, <1>2, <2>1, <2>2
<1>9. CASE Follow
  <2>1. client' \in Client /\ Top' = Incoming(client')
    BY <1>9, FollowClient
  <2>2. seen' = <<>> /\ at' = 1
    BY <1>9 DEF Follow, Visit
  <2>3. Top'.host = client'.host
    BY <2>1, IncomingFields DEF TypeOK
  <2>4. ~Within(chain, "rewritehost", 1, 1)
    BY <1>3, WithinNothing
  <2> QED BY <1>1, <2>2, <2>3, <2>4, NotYetInRetry, SeenNothing DEF HasHost, HostTo
<1> QED BY <1>4, <1>5, <1>6, <1>7, <1>8, <1>9, EveryStep DEF StepKinds

\* Whatever the client sent in X-Forwarded-Host, and on every attempt, the
\* upstream gets the host that the client asked for, as the host or in that
\* header, unless ProxyHeaders overwrites it (rewritehost.go:53-60).
THEOREM HostForwarded == Spec => []OriginalHostForwarded
<1>1. HostTold => OriginalHostForwarded
  BY DEF HostTold, OriginalHostForwarded
<1> QED BY <1>1, InitType, StepType, InitHost, StepHost, PTL DEF Spec
-----------------------------------------------------------------------------
(***************************************************************************)
(* The identifiers.                                                         *)
(***************************************************************************)
LEMMA PassEcho ==
  ASSUME TypeOK, PassStep
  PROVE  /\ echo'.id = IF chain[at] = "requestid" THEN Top'.id ELSE echo.id
         /\ echo'.parent = IF chain[at] = "tracing" THEN Top'.parent ELSE echo.parent
         /\ chain[at] = "requestid" => Top'.id # None
         /\ chain[at] = "tracing" => Top'.parent.trace # None
<1>1. /\ Top'.id = IdAfter(chain[at], drawn, Top.id)
      /\ Top'.parent = ParentAfter(chain[at], drawn, Top.parent)
  BY PassKinds, ToldFields
<1>2. echo \in Echo /\ drawn \in Nat /\ Top.id \in Nat /\ Top.parent \in Trace
  BY Typed DEF TypeOK, Request
<1>3. CASE chain[at] = "requestid"
  <2>1. echo' = [echo EXCEPT !.id = IdAfter("requestid", drawn, Top.id)]
    BY <1>3 DEF PassStep
  <2>2. Top'.id = IdAfter("requestid", drawn, Top.id) /\ Top'.id # None
    BY <1>1, <1>2, <1>3 DEF IdAfter, None
  <2> QED BY <1>2, <1>3, <2>1, <2>2 DEF Echo
<1>4. CASE chain[at] = "tracing"
  <2>1. echo' = [echo EXCEPT !.parent = ParentAfter("tracing", drawn, Top.parent)]
    BY <1>4 DEF PassStep
  <2>2. Top'.parent = ParentAfter("tracing", drawn, Top.parent)
    BY <1>1, <1>4
  <2>3. Top'.parent.trace # None
    <3>1. Top.parent.trace \in Nat
      BY <1>2 DEF Trace
    <3> QED BY <1>2, <2>2, <3>1 DEF ParentAfter, None
  <2> QED BY <1>2, <1>4, <2>1, <2>2, <2>3 DEF Echo
<1>5. CASE chain[at] \notin {"requestid", "tracing"}
  BY <1>5 DEF PassStep
<1> QED BY <1>3, <1>4, <1>5

\* An identifier is not replaced by another one.
LEMMA HasIdsStep ==
  ASSUME NEW name, NEW r, HasIds(r), NEW s,
         s.id = IdAfter(name, drawn, r.id), s.parent = ParentAfter(name, drawn, r.parent)
  PROVE  HasIds(s)
<1>1. client.id # None => s.id = client.id
  BY DEF HasIds, IdAfter
<1>2. client.parent.trace # None => s.parent.trace = client.parent.trace
  <2>1. CASE name = "tracing"
    <3>1. s.parent = [trace |-> IF r.parent.trace = None THEN drawn + 2 ELSE r.parent.trace,
                      span |-> drawn + 1]
      BY <2>1 DEF ParentAfter
    <3>2. s.parent.trace = IF r.parent.trace = None THEN drawn + 2 ELSE r.parent.trace
      BY <3>1
    <3> QED BY <3>2 DEF HasIds
  <2>2. CASE name # "tracing"
    BY <2>2 DEF ParentAfter, HasIds
  <2> QED BY <2>1, <2>2
<1> QED BY <1>1, <1>2 DEF HasIds

LEMMA InitIds == Init => IdsTold
<1> SUFFICES ASSUME Init PROVE IdsTold
  OBVIOUS
<1>1. /\ TypeOK /\ Top = Incoming(client) /\ client \in Client /\ fronted \in BOOLEAN /\ ~InRetry
      /\ seen = <<>> /\ at = 1
  BY InitRequests DEF TypeOK
<1>2. Top.id = client.id /\ Top.parent = client.parent
  BY <1>1, IncomingFields
<1>3. \A name \in Layers : ~(Index(name) < 1)
  BY <1>1, IndexFacts, Typed
<1> QED BY <1>1, <1>2, <1>3, SeenNothing DEF IdsTold, HasIds, Echoed

LEMMA StepIds == TypeOK /\ IdsTold /\ [Next]_vars => IdsTold'
<1> SUFFICES ASSUME TypeOK, IdsTold, [Next]_vars PROVE IdsTold'
  OBVIOUS
<1>1. chain' = chain /\ Layers' = Layers /\ Rt' = Rt /\ \A a : Index(a)' = Index(a)
  BY EveryStepKeepsChain, ChainKept
<1>2. /\ at \in Nat /\ \A name \in Layers : Index(name) \in Nat /\ Index(name) >= 1
      /\ "retry" \in Layers => Rt \in Nat /\ chain[Rt] = "retry"
      /\ \A name \in Layers : chain[Index(name)] = name
  BY Typed, RtType, IndexFacts DEF TypeOK
<1>3. CASE PassStep
  <2>1. seen' = seen /\ client' = client
    BY <1>3 DEF PassStep, SameVisit
  <2>2. /\ at \in DOMAIN chain /\ at' = at + 1 /\ Top \in Request /\ Base \in Request
        /\ Top' = HandedOn(chain[at], Top) /\ Index(chain[at]) = at
    BY <1>3, PassKinds
  <2>3. /\ Top'.id = IdAfter(chain[at], drawn, Top.id)
        /\ Top'.parent = ParentAfter(chain[at], drawn, Top.parent)
    BY <2>2, ToldFields
  <2>4. HasIds(Top)'
    <3>1. HasIds(Top')
      BY <2>3, HasIdsStep DEF IdsTold
    <3> QED BY <2>1, <3>1 DEF HasIds
  <2>5. Echoed(Top, at)'
    <3>1. "requestid" \in Layers /\ Index("requestid") < at + 1 => echo'.id = Top'.id /\ Top'.id # None
      <4>1. CASE chain[at] = "requestid"
        BY <1>3, <4>1, PassEcho
      <4>2. CASE chain[at] # "requestid"
        <5>1. Top'.id = Top.id /\ echo'.id = echo.id
          BY <1>3, <2>3, <4>2, PassEcho DEF IdAfter
        <5>2. "requestid" \in Layers /\ Index("requestid") < at + 1 => Index("requestid") < at
          BY <1>2, <4>2
        <5> QED BY <5>1, <5>2 DEF IdsTold, Echoed
      <4> QED BY <4>1, <4>2
    <3>2. "tracing" \in Layers /\ Index("tracing") < at + 1 =>
            echo'.parent = Top'.parent /\ Top'.parent.trace # None
      <4>1. CASE chain[at] = "tracing"
        BY <1>3, <4>1, PassEcho
      <4>2. CASE chain[at] # "tracing"
        <5>1. Top'.parent = Top.parent /\ echo'.parent = echo.parent
          BY <1>3, <2>3, <4>2, PassEcho DEF ParentAfter
        <5>2. "tracing" \in Layers /\ Index("tracing") < at + 1 => Index("tracing") < at
          BY <1>2, <4>2
        <5> QED BY <5>1, <5>2 DEF IdsTold, Echoed
      <4> QED BY <4>1, <4>2
    <3> QED BY <1>1, <2>2, <3>1, <3>2 DEF Echoed, None
  <2>6. ASSUME InRetry' PROVE HasIds(Base)' /\ Echoed(Base, Rt)'
    <3>1. CASE chain[at] = "retry" /\ Rt = at /\ Base' = Top
      <4>1. echo'.id = echo.id /\ echo'.parent = echo.parent
        BY <1>3, <3>1, PassEcho
      <4> QED BY <1>1, <2>1, <3>1, <4>1 DEF IdsTold, HasIds, Echoed, None
    <3>2. CASE InRetry /\ (Base' = Base \/ Base' = Told(chain[at], Base))
      <4>1. HasIds(Base) /\ Echoed(Base, Rt)
        BY <3>2 DEF IdsTold
      <4>2. \/ Base'.id = Base.id /\ Base'.parent = Base.parent
            \/ /\ Base'.id = IdAfter(chain[at], drawn, Base.id)
               /\ Base'.parent = ParentAfter(chain[at], drawn, Base.parent)
        BY <2>2, <3>2, ToldFields
      <4>3. HasIds(Base)'
        <5>1. HasIds(Base')
          BY <4>1, <4>2, HasIdsStep DEF HasIds
        <5> QED BY <2>1, <5>1 DEF HasIds
      <4>4. "requestid" \in Layers /\ Index("requestid") < Rt => echo'.id = echo.id /\ Base'.id = Base.id
        <5> SUFFICES ASSUME "requestid" \in Layers, Index("requestid") < Rt
                     PROVE  echo'.id = echo.id /\ Base'.id = Base.id
          OBVIOUS
        <5>1. chain[at] # "requestid"
          BY <1>2, <2>2, <3>2 DEF InRetry
        <5> QED BY <1>3, <4>2, <5>1, PassEcho DEF IdAfter
      <4>5. "tracing" \in Layers /\ Index("tracing") < Rt =>
              echo'.parent = echo.parent /\ Base'.parent = Base.parent
        <5> SUFFICES ASSUME "tracing" \in Layers, Index("tracing") < Rt
                     PROVE  echo'.parent = echo.parent /\ Base'.parent = Base.parent
          OBVIOUS
        <5>1. chain[at] # "tracing"
          BY <1>2, <2>2, <3>2 DEF InRetry
        <5> QED BY <1>3, <4>2, <5>1, PassEcho DEF ParentAfter
      <4> QED BY <1>1, <4>1, <4>3, <4>4, <4>5 DEF Echoed, None
    <3> QED BY <1>3, <2>6, <3>1, <3>2, PassKinds
  <2>7. \A r \in ToSet(seen') : HasIds(r)'
    BY <2>1 DEF IdsTold, HasIds
  <2> QED BY <2>4, <2>5, <2>6, <2>7 DEF IdsTold
<1>4. CASE RefuseStep \/ Answered \/ SetEnabled \/ UNCHANGED vars
  <2>1. client' = client /\ at' = at /\ reqs' = reqs /\ mark' = mark /\ seen' = seen /\ echo' = echo
    BY <1>4 DEF RefuseStep, SameVisit, Answered, SetEnabled, vars
  <2>2. Top' = Top /\ Base' = Base /\ (InRetry' <=> InRetry)
    BY <1>1, <2>1 DEF Top, Base, InRetry
  <2> QED BY <1>1, <2>1, <2>2 DEF IdsTold, HasIds, Echoed, None
<1>5. CASE ForwardStep
  <2>1. /\ client' = client /\ at' = at /\ (InRetry' <=> InRetry)
        /\ \A r \in ToSet(seen') : r \in ToSet(seen) \/ r = Top
    BY <1>5, ForwardKinds
  <2>2. Top'.id = Top.id /\ Top'.parent = Top.parent /\ Base'.id = Base.id /\ Base'.parent = Base.parent
    BY <1>5, ForwardKinds, MarkedFields
  <2>3. echo' = echo
    BY <1>5 DEF ForwardStep, Forward, ForwardFails, Answers
  <2> QED BY <1>1, <2>1, <2>2, <2>3 DEF IdsTold, HasIds, Echoed, None
<1>6. CASE RetryAgain
  <2>1. client' = client /\ at' = Rt + 1 /\ InRetry /\ seen' = seen /\ echo' = echo
    BY <1>6 DEF RetryAgain, Again, Retried, Rt, InRetry
  <2>2. Top' = Base /\ Base' = Base
    BY <1>6, RetryRequests
  <2>3. \A name \in {"requestid", "tracing"} :
          name \in Layers /\ Index(name) < Rt + 1 => Index(name) < Rt
    BY <1>2, <2>1 DEF InRetry
  <2> QED BY <1>1, <2>1, <2>2, <2>3 DEF IdsTold, HasIds, Echoed, None
<1>7. CASE Follow
  <2>1. /\ client' \in Client /\ Top' = Incoming(client') /\ fronted \in BOOLEAN
        /\ client'.id = client.id /\ client'.parent = client.parent
    BY <1>7, FollowClient DEF TypeOK
  <2>2. seen' = <<>> /\ at' = 1
    BY <1>7 DEF Follow, Visit
  <2>3. Top'.id = client'.id /\ Top'.parent = client'.parent
    BY <2>1, IncomingFields
  <2>4. \A name \in Layers : ~(Index(name) < 1)
    BY <1>2
  <2> QED BY <1>1, <2>2, <2>3, <2>4, NotYetInRetry, SeenNothing DEF IdsTold, HasIds, Echoed
<1> QED BY <1>3, <1>4, <1>5, <1>6, <1>7, EveryStep DEF StepKinds

LEMMA InitSent == Init => SentTold
<1> SUFFICES ASSUME Init PROVE SentTold
  OBVIOUS
<1>1. sent.status = 0 /\ seen = <<>> /\ going = "in"
  BY NoneYet DEF Init
<1> QED BY <1>1 DEF SentTold

\* A layer outside Retry passes a request on before anything is fixed or seen.
LEMMA PassSent ==
  ASSUME TypeOK, Fresh, SentTold, PassStep
  PROVE  /\ chain[at] = "requestid" /\ ~Outside("retry", "requestid") => seen = <<>> /\ sent.status = 0
         /\ chain[at] = "tracing" /\ ~Outside("retry", "tracing") => seen = <<>> /\ sent.status = 0
         /\ chain[at] # "requestid" => echo'.id = echo.id
         /\ chain[at] # "tracing" => echo'.parent = echo.parent
<1>1. at \in Nat /\ going = "in" /\ chain[at] \in Layers /\ Index(chain[at]) = at
  BY PassKinds DEF PassStep
<1>2. InRetry => Outside("retry", chain[at])
  BY <1>1 DEF InRetry, Outside, Rt
<1>3. ~Outside("retry", chain[at]) => seen = <<>> /\ sent.status = 0
  BY <1>1, <1>2, FirstAttempt DEF SentTold
<1>4. /\ chain[at] # "requestid" => echo'.id = echo.id
      /\ chain[at] # "tracing" => echo'.parent = echo.parent
  BY PassEcho
<1> QED BY <1>3, <1>4

LEMMA StepSent == TypeOK /\ Fresh /\ IdsTold /\ SentTold /\ [Next]_vars => SentTold'
<1> SUFFICES ASSUME TypeOK, Fresh, IdsTold, SentTold, [Next]_vars
             PROVE  /\ sent'.status # 0 /\ going' = "in" => InRetry'
                    /\ \A i \in DOMAIN seen' : i = sent'.from =>
                         /\ "requestid" \in Layers => SameId(sent'.echo, seen'[i])
                         /\ "tracing" \in Layers => SameTrace(sent'.echo, seen'[i])
                    /\ "requestid" \in Layers /\ ~Outside("retry", "requestid") =>
                         /\ \A i \in DOMAIN seen' : SameId(echo', seen'[i])
                         /\ sent'.status # 0 \/ going' = "over" => sent'.echo.id = echo'.id
                    /\ "tracing" \in Layers /\ ~Outside("retry", "tracing") =>
                         /\ \A i \in DOMAIN seen' : SameTrace(echo', seen'[i])
                         /\ sent'.status # 0 \/ going' = "over" => sent'.echo.parent = echo'.parent
  BY EveryStepKeepsChain, ChainKept DEF SentTold, SameId, SameTrace, None
<1>1. chain' = chain /\ Layers' = Layers /\ Rt' = Rt
  BY EveryStepKeepsChain, ChainKept
<1>2. /\ at \in Nat /\ seen \in Seq(Request) /\ Len(seen) \in Nat /\ DOMAIN seen = 1..Len(seen)
      /\ sent.from \in 0..Len(seen) /\ ("retry" \in Layers => Rt \in Nat) /\ Upstream \in Nat
  BY RtType, Typed DEF TypeOK
<1>3. /\ \A i \in DOMAIN seen : i = sent.from =>
           /\ "requestid" \in Layers => SameId(sent.echo, seen[i])
           /\ "tracing" \in Layers => SameTrace(sent.echo, seen[i])
      /\ "requestid" \in Layers /\ ~Outside("retry", "requestid") =>
           /\ \A i \in DOMAIN seen : SameId(echo, seen[i])
           /\ sent.status # 0 \/ going = "over" => sent.echo.id = echo.id
      /\ "tracing" \in Layers /\ ~Outside("retry", "tracing") =>
           /\ \A i \in DOMAIN seen : SameTrace(echo, seen[i])
           /\ sent.status # 0 \/ going = "over" => sent.echo.parent = echo.parent
  BY DEF SentTold
<1>4. at = Upstream => /\ "requestid" \in Layers => SameId(echo, Top)
                       /\ "tracing" \in Layers => SameTrace(echo, Top)
  <2>1. at = Upstream => \A name \in Layers : Index(name) < at
    BY IndexFacts, Typed DEF Upstream
  <2> QED BY <2>1 DEF IdsTold, Echoed, SameId, SameTrace
<1>5. CASE PassStep
  <2>1. /\ seen' = seen /\ sent' = sent /\ going' = going /\ going = "in" /\ at' = at + 1
    BY <1>5 DEF PassStep
  <2>2. sent.status # 0 => InRetry'
    BY <1>1, <1>2, <2>1 DEF SentTold, InRetry
  <2>3. "requestid" \in Layers /\ ~Outside("retry", "requestid") =>
          /\ \A i \in DOMAIN seen : SameId(echo', seen[i])
          /\ sent.status # 0 => sent.echo.id = echo'.id
    <3>1. CASE chain[at] = "requestid"
      BY <1>2, <1>5, <3>1, PassSent
    <3>2. CASE chain[at] # "requestid"
      BY <1>3, <1>5, <3>2, PassSent DEF SameId
    <3> QED BY <3>1, <3>2
  <2>4. "tracing" \in Layers /\ ~Outside("retry", "tracing") =>
          /\ \A i \in DOMAIN seen : SameTrace(echo', seen[i])
          /\ sent.status # 0 => sent.echo.parent = echo'.parent
    <3>1. CASE chain[at] = "tracing"
      BY <1>2, <1>5, <3>1, PassSent
    <3>2. CASE chain[at] # "tracing"
      BY <1>3, <1>5, <3>2, PassSent DEF SameTrace
    <3> QED BY <3>1, <3>2
  <2> QED BY <1>3, <2>1, <2>2, <2>3, <2>4
<1>6. CASE RefuseStep
  <2>1. seen' = seen /\ going' = "out" /\ echo' = echo /\ sent' \in {sent, Header(200, 0), Header(status', 0)}
    BY <1>6 DEF RefuseStep
  <2>2. sent' = sent \/ (sent'.from = 0 /\ sent'.echo = echo)
    BY <2>1 DEF Header
  <2>3. 0 \notin DOMAIN seen
    BY <1>2
  <2> QED BY <1>3, <2>1, <2>2, <2>3
<1>7. CASE ForwardStep
  <2>1. /\ going' = "out" /\ echo' = echo /\ at = Upstream /\ Top \in Request
        /\ seen' = seen \/ seen' = Append(seen, Top)
    BY <1>7, ForwardSends, ForwardKinds
  <2>2. /\ \A i \in DOMAIN seen' : (i \in DOMAIN seen /\ seen'[i] = seen[i]) \/ (i = Len(seen) + 1 /\ seen'[i] = Top)
        /\ 0 \notin DOMAIN seen'
    BY <1>2, <2>1
  <2>3. \/ sent' = sent
        \/ sent'.echo = echo /\ sent'.from = 0
        \/ sent'.echo = echo /\ sent'.from = Len(seen) + 1 /\ seen' = Append(seen, Top)
    BY <1>7, ForwardSends DEF Header
  <2>4. \A i \in DOMAIN seen' : i = sent'.from =>
          /\ "requestid" \in Layers => SameId(sent'.echo, seen'[i])
          /\ "tracing" \in Layers => SameTrace(sent'.echo, seen'[i])
    <3>1. CASE sent' = sent
      <4>1. sent.from # Len(seen) + 1
        BY <1>2
      <4> QED BY <1>3, <2>2, <3>1, <4>1
    <3>2. CASE sent'.echo = echo /\ sent'.from = 0
      BY <2>2, <3>2
    <3>3. CASE sent'.echo = echo /\ sent'.from = Len(seen) + 1 /\ seen' = Append(seen, Top)
      <4>1. Len(seen) + 1 \notin DOMAIN seen
        BY <1>2
      <4> QED BY <1>4, <2>1, <2>2, <3>3, <4>1
    <3> QED BY <2>3, <3>1, <3>2, <3>3
  <2>5. "requestid" \in Layers /\ ~Outside("retry", "requestid") =>
          \A i \in DOMAIN seen' : SameId(echo', seen'[i])
    BY <1>3, <1>4, <2>1, <2>2
  <2>6. "tracing" \in Layers /\ ~Outside("retry", "tracing") =>
          \A i \in DOMAIN seen' : SameTrace(echo', seen'[i])
    BY <1>3, <1>4, <2>1, <2>2
  <2> QED BY <1>3, <2>1, <2>3, <2>4, <2>5, <2>6
<1>8. CASE RetryAgain
  <2>1. /\ seen' = seen /\ sent' = sent /\ echo' = echo /\ at' = Rt + 1 /\ "retry" \in Layers
        /\ going = "out" /\ going' = "in"
    BY <1>8 DEF RetryAgain, Again, Retried, Rt
  <2>2. InRetry'
    BY <1>1, <1>2, <2>1 DEF InRetry
  <2> QED BY <1>3, <2>1, <2>2
<1>9. CASE Answered
  <2>1. seen' = seen /\ going' = "over" /\ echo' = echo
    BY <1>9 DEF Answered
  <2>2. \/ sent' = sent /\ sent.status # 0
        \/ sent'.echo = echo /\ sent'.from = IF by = "upstream" THEN Len(seen) ELSE 0
    BY <1>9 DEF Answered, Header
  <2>3. ASSUME NEW i \in DOMAIN seen, i = sent'.from, sent'.echo = echo,
               sent'.from = IF by = "upstream" THEN Len(seen) ELSE 0
        PROVE  /\ "requestid" \in Layers => SameId(sent'.echo, seen[i])
               /\ "tracing" \in Layers => SameTrace(sent'.echo, seen[i])
    <3>1. by = "upstream" /\ i = Len(seen) /\ going # "in"
      BY <1>2, <1>9, <2>3 DEF Answered
    <3>2. at = Upstream /\ seen[i].id = Top.id /\ seen[i].parent = Top.parent
      BY <3>1 DEF Fresh, Last
    <3> QED BY <1>4, <2>3, <3>2 DEF SameId, SameTrace
  <2> QED BY <1>3, <2>1, <2>2, <2>3
<1>10. CASE Follow
  <2>1. seen' = <<>> /\ sent'.status = 0 /\ going' = "in"
    BY <1>10, NoneYet DEF Follow, Visit
  <2> QED BY <2>1
<1>11. CASE SetEnabled \/ UNCHANGED vars
  <2>1. seen' = seen /\ sent' = sent /\ echo' = echo /\ going' = going /\ at' = at
    BY <1>11 DEF SetEnabled, vars
  <2>2. InRetry' <=> InRetry
    BY <1>1, <2>1 DEF InRetry
  <2> QED BY <1>3, <2>1, <2>2 DEF SentTold
<1> QED BY <1>5, <1>6, <1>7, <1>8, <1>9, <1>10, <1>11, EveryStep DEF StepKinds

\* The identifiers that the client has are those of the request whose answer has
\* fixed the header, and of every attempt when Retry is not around the layer;
\* the client's own reach the upstream on every attempt (requestid.go:23-33,
\* tracing.go:33-45, retry.go:30-33).
THEOREM IdsCorrelateAlways == Spec => []IdsCorrelate
<1>1. TypeOK /\ IdsTold /\ SentTold => IdsCorrelate
  <2> SUFFICES ASSUME TypeOK, IdsTold, SentTold PROVE IdsCorrelate
    OBVIOUS
  <2>1. ASSUME NEW i \in DOMAIN seen, going = "over"
        PROVE  /\ "requestid" \in Layers /\ (i = sent.from \/ ~Outside("retry", "requestid")) =>
                    SameId(sent.echo, seen[i])
               /\ "tracing" \in Layers /\ (i = sent.from \/ ~Outside("retry", "tracing")) =>
                    SameTrace(sent.echo, seen[i])
    BY <2>1 DEF SentTold, SameId, SameTrace
  <2>2. \A r : r.parent.trace # None => r.parent # NoTrace
    BY DEF NoTrace
  <2>3. \A r \in ToSet(seen) : HasIds(r)
    BY DEF IdsTold
  <2> QED BY <2>1, <2>2, <2>3 DEF IdsCorrelate, HasIds, SameId, SameTrace
<1> QED BY <1>1, InitType, StepType, InitFresh, StepFresh, InitIds, StepIds, InitSent, StepSent, PTL DEF Spec
-----------------------------------------------------------------------------
(***************************************************************************)
(* What a request will be further on: it is the same seen from the next     *)
(* layer (...Ahead), and from what the layer leaves behind (...Left).       *)
(***************************************************************************)
LEMMA PathAhead ==
  ASSUME NEW c \in Seq(Text), IsInjective(c), NEW i \in DOMAIN c, NEW j \in Nat, i < j, NEW path
  PROVE  PathTo(c, path, i, j) = PathTo(c, PathAfter(c[i], path), i + 1, j)
<1>1. c[i] = "stripprefix" /\ Within(c, "rewrite", i + 1, j) => Before(c, "stripprefix", "rewrite")
  BY DEF Within, Before
<1>2. c[i] = "rewrite" /\ Within(c, "stripprefix", i + 1, j) => ~Before(c, "stripprefix", "rewrite")
  BY DEF Within, Before, IsInjective
<1>3. \A name : /\ Within(c, name, i, j) <=> c[i] = name \/ Within(c, name, i + 1, j)
                /\ c[i] = name => ~Within(c, name, i + 1, j)
  BY WithinStep
<1>4. CASE c[i] = "stripprefix"
  BY <1>1, <1>3, <1>4 DEF PathTo, PathAfter
<1>5. CASE c[i] = "rewrite"
  BY <1>2, <1>3, <1>5 DEF PathTo, PathAfter
<1>6. CASE c[i] \notin {"stripprefix", "rewrite"}
  BY <1>3, <1>6 DEF PathTo, PathAfter
<1> QED BY <1>4, <1>5, <1>6

LEMMA HostAhead ==
  ASSUME NEW c \in Seq(Text), IsInjective(c), NEW i \in DOMAIN c, NEW j \in Nat, i < j, NEW host
  PROVE  HostTo(c, host, i, j) = HostTo(c, HostAfter(c[i], host), i + 1, j)
BY WithinStep DEF HostTo, HostAfter

LEMMA ProtoAhead ==
  ASSUME NEW c \in Seq(Text), IsInjective(c), NEW i \in DOMAIN c, NEW j \in Nat, i < j,
         NEW scheme \in {"http", "https"}, NEW proto
  PROVE  ProtoTo(c, scheme, proto, i, j) = ProtoTo(c, scheme, ProtoAfter(c[i], scheme, proto), i + 1, j)
BY WithinStep, AbsentIsNoScheme DEF ProtoTo, ProtoAfter, Fill

LEMMA ProtoLeft ==
  ASSUME NEW c \in Seq(Text), NEW first \in Nat, NEW k \in DOMAIN c, NEW j \in Nat, first <= k, k < j,
         NEW scheme \in {"http", "https"}, NEW proto
  PROVE  ProtoTo(c, scheme, ProtoAfter(c[k], scheme, proto), first, j) = ProtoTo(c, scheme, proto, first, j)
<1>1. Within(c, c[k], first, j)
  BY DEF Within
<1> QED BY <1>1, AbsentIsNoScheme DEF ProtoTo, ProtoAfter, Fill

LEMMA XfhAhead ==
  ASSUME NEW c \in Seq(Text), IsInjective(c), NEW i \in DOMAIN c, NEW j \in Nat, i < j,
         NEW host \in Host, NEW xfh
  PROVE  XfhTo(c, host, xfh, i, j)
           = XfhTo(c, HostAfter(c[i], host), XfhAfter(c[i], host, xfh), i + 1, j)
<1>1. c[i] = "rewritehost" /\ Within(c, "proxyheaders", i + 1, j) => Before(c, "rewritehost", "proxyheaders")
  BY DEF Within, Before
<1>2. c[i] = "proxyheaders" /\ Within(c, "rewritehost", i + 1, j) => ~Before(c, "rewritehost", "proxyheaders")
  BY DEF Within, Before, IsInjective
<1>3. \A name : /\ Within(c, name, i, j) <=> c[i] = name \/ Within(c, name, i + 1, j)
                /\ c[i] = name => ~Within(c, name, i + 1, j)
  BY WithinStep
<1>4. host # Absent /\ NewHost(host) # Absent
  BY NewHostType DEF Host
<1>5. CASE c[i] = "rewritehost"
  BY <1>1, <1>3, <1>4, <1>5 DEF XfhTo, XfhAfter, HostAfter, Fill
<1>6. CASE c[i] = "proxyheaders"
  BY <1>2, <1>3, <1>4, <1>6 DEF XfhTo, XfhAfter, HostAfter, Fill
<1>7. CASE c[i] = "proxytrusting"
  BY <1>3, <1>4, <1>7 DEF XfhTo, XfhAfter, HostAfter, Fill
<1>8. CASE c[i] \notin {"rewritehost", "proxyheaders", "proxytrusting"}
  BY <1>3, <1>8 DEF XfhTo, XfhAfter, HostAfter
<1> QED BY <1>5, <1>6, <1>7, <1>8

LEMMA XfhLeft ==
  ASSUME NEW c \in Seq(Text), NEW first \in Nat, NEW k \in DOMAIN c, NEW j \in Nat, first <= k, k < j,
         NEW host \in Host, NEW xfh
  PROVE  XfhTo(c, host, XfhAfter(c[k], host, xfh), first, j) = XfhTo(c, host, xfh, first, j)
<1>1. Within(c, c[k], first, j)
  BY DEF Within
<1>2. host # Absent
  BY DEF Host
<1> QED BY <1>1, <1>2 DEF XfhTo, XfhAfter, Fill

\* GeoBlock sees the same address before and after a trusting ProxyHeaders.
LEMMA ViewOfAppended ==
  ASSUME NEW name, NEW xff \in Seq(Text), name = "geoblock"
  PROVE  View(name, Append(xff, "remote")) = View(name, xff)
<1>1. "remote" \in Text
  BY InboundAssumption
<1>2. Append(xff, "remote") # <<>>
  BY <1>1, Appended
<1>3. Head(Append(xff, "remote")) = IF xff = <<>> THEN "remote" ELSE Head(xff)
  BY HeadTailAppend
<1> QED BY <1>2, <1>3 DEF View

LEMMA ViewOfRemote ==
  ASSUME NEW name
  PROVE  View(name, <<"remote">>) = <<"remote">>
<1>1. <<"remote">> # <<>> /\ Head(<<"remote">>) = "remote"
  OBVIOUS
<1> QED BY <1>1 DEF View

LEMMA ViewAhead ==
  ASSUME NEW c \in Seq(Text), IsInjective(c), NEW i \in DOMAIN c, NEW j \in Nat, i < j,
         NEW name, name = "geoblock", NEW xff \in Seq(Text)
  PROVE  ViewTo(c, name, xff, i, j) = ViewTo(c, name, XffAfter(c[i], xff), i + 1, j)
<1>1. /\ Within(c, "proxyheaders", i, j) <=> c[i] = "proxyheaders" \/ Within(c, "proxyheaders", i + 1, j)
      /\ c[i] = "proxyheaders" => ~Within(c, "proxyheaders", i + 1, j)
  BY WithinStep
<1> QED BY <1>1, ViewOfAppended, ViewOfRemote DEF ViewTo, XffAfter

LEMMA ViewLeft ==
  ASSUME NEW c \in Seq(Text), NEW first \in Nat, NEW k \in DOMAIN c, NEW j \in Nat, first <= k, k < j,
         NEW name, name = "geoblock", NEW xff \in Seq(Text)
  PROVE  ViewTo(c, name, XffAfter(c[k], xff), first, j) = ViewTo(c, name, xff, first, j)
<1>1. c[k] = "proxyheaders" => Within(c, "proxyheaders", first, j)
  BY DEF Within
<1> QED BY <1>1, ViewOfAppended DEF ViewTo, XffAfter

\* Without a trusting ProxyHeaders the whole header is the same.
LEMMA XffAhead ==
  ASSUME NEW c \in Seq(Text), IsInjective(c), NEW i \in DOMAIN c, NEW j \in Nat, i < j, NEW xff,
         c[i] # "proxytrusting"
  PROVE  XffTo(c, xff, i, j) = XffTo(c, XffAfter(c[i], xff), i + 1, j)
BY WithinStep DEF XffTo, XffAfter

LEMMA XffLeft ==
  ASSUME NEW c \in Seq(Text), NEW first \in Nat, NEW k \in DOMAIN c, NEW j \in Nat, first <= k, k < j,
         NEW xff, c[k] # "proxytrusting"
  PROVE  XffTo(c, XffAfter(c[k], xff), first, j) = XffTo(c, xff, first, j)
<1>1. c[k] = "proxyheaders" => Within(c, "proxyheaders", first, j)
  BY DEF Within
<1> QED BY <1>1 DEF XffTo, XffAfter

-----------------------------------------------------------------------------
(***************************************************************************)
(* The next attempt finds what this one found.                              *)
(***************************************************************************)
LEMMA AheadStep ==
  ASSUME NEW c \in Seq(Text), IsInjective(c), NEW scheme \in {"http", "https"},
         NEW first \in Nat, NEW i \in DOMAIN c, first <= i, NEW b, NEW r \in Request, NEW s,
         SameAhead(c, scheme, first, b, i, r),
         s.path = PathAfter(c[i], r.path), s.host = HostAfter(c[i], r.host), s.cred = r.cred,
         s.xff = XffAfter(c[i], r.xff), s.proto = ProtoAfter(c[i], scheme, r.proto),
         s.xfh = XfhAfter(c[i], r.host, r.xfh)
  PROVE  SameAhead(c, scheme, first, b, i + 1, s)
<1> DEFINE end == Len(c) + 1
<1>1. i \in Nat /\ i + 1 \in Nat /\ end \in Nat /\ i < end /\ DOMAIN c = 1..Len(c)
  OBVIOUS
<1>2. \A j \in (i + 1)..end : j \in i..end /\ j \in Nat /\ i < j
  BY <1>1
<1>3. r.host \in Host /\ r.xff \in Seq(Text)
  BY DEF Request
<1>4. b.cred = s.cred
  BY DEF SameAhead
<1>5. HostTo(c, b.host, first, end) = HostTo(c, s.host, i + 1, end)
  BY <1>1, HostAhead DEF SameAhead
<1>6. XfhTo(c, b.host, b.xfh, first, end) = XfhTo(c, s.host, s.xfh, i + 1, end)
  BY <1>1, <1>3, XfhAhead DEF SameAhead
<1>7. ProtoTo(c, scheme, b.proto, first, end) = ProtoTo(c, scheme, s.proto, i + 1, end)
  BY <1>1, ProtoAhead DEF SameAhead
<1>8. \A j \in (i + 1)..end : PathTo(c, b.path, first, j) = PathTo(c, s.path, i + 1, j)
  BY <1>2, PathAhead DEF SameAhead
<1> DEFINE name == "geoblock"
<1>9. \A j \in (i + 1)..end : ViewTo(c, name, b.xff, first, j) = ViewTo(c, name, s.xff, i + 1, j)
  <2> SUFFICES ASSUME NEW j \in (i + 1)..end
               PROVE  ViewTo(c, name, b.xff, first, j) = ViewTo(c, name, s.xff, i + 1, j)
    OBVIOUS
  <2>1. ViewTo(c, name, b.xff, first, j) = ViewTo(c, name, r.xff, i, j)
    BY <1>2 DEF SameAhead
  <2>2. ViewTo(c, name, r.xff, i, j) = ViewTo(c, name, s.xff, i + 1, j)
    BY <1>2, <1>3, ViewAhead
  <2> QED BY <2>1, <2>2
<1>10. ASSUME ~Within(c, "proxytrusting", first, end)
       PROVE  \A j \in (i + 1)..end : XffTo(c, b.xff, first, j) = XffTo(c, s.xff, i + 1, j)
  <2>1. c[i] # "proxytrusting"
    BY <1>1, <1>10 DEF Within
  <2> QED BY <1>2, <1>10, <2>1, XffAhead DEF SameAhead
<1> QED BY <1>4, <1>5, <1>6, <1>7, <1>8, <1>9, <1>10 DEF SameAhead

LEMMA AheadLeft ==
  ASSUME NEW c \in Seq(Text), NEW scheme \in {"http", "https"},
         NEW first \in Nat, NEW k \in DOMAIN c, first <= k, NEW m \in Nat, k < m, m <= Len(c) + 1,
         NEW b \in Request, NEW d, NEW s,
         SameAhead(c, scheme, first, b, m, s),
         d.path = b.path, d.host = b.host, d.cred = b.cred, d.xff = XffAfter(c[k], b.xff),
         d.proto = ProtoAfter(c[k], scheme, b.proto), d.xfh = XfhAfter(c[k], b.host, b.xfh)
  PROVE  SameAhead(c, scheme, first, d, m, s)
<1> DEFINE end == Len(c) + 1
<1>1. k \in Nat /\ end \in Nat /\ k < end /\ DOMAIN c = 1..Len(c)
  OBVIOUS
<1>2. \A j \in m..end : j \in Nat /\ k < j
  BY <1>1
<1>3. b.host \in Host /\ b.xff \in Seq(Text)
  BY DEF Request
<1>4. d.cred = s.cred /\ HostTo(c, d.host, first, end) = HostTo(c, s.host, m, end)
  BY DEF SameAhead
<1>5. XfhTo(c, d.host, d.xfh, first, end) = XfhTo(c, s.host, s.xfh, m, end)
  BY <1>1, <1>3, XfhLeft DEF SameAhead
<1>6. ProtoTo(c, scheme, d.proto, first, end) = ProtoTo(c, scheme, s.proto, m, end)
  BY <1>1, ProtoLeft DEF SameAhead
<1>7. \A j \in m..end : PathTo(c, d.path, first, j) = PathTo(c, s.path, m, j)
  BY DEF SameAhead
<1> DEFINE name == "geoblock"
<1>8. \A j \in m..end : ViewTo(c, name, d.xff, first, j) = ViewTo(c, name, s.xff, m, j)
  <2> SUFFICES ASSUME NEW j \in m..end
               PROVE  ViewTo(c, name, d.xff, first, j) = ViewTo(c, name, s.xff, m, j)
    OBVIOUS
  <2>1. ViewTo(c, name, b.xff, first, j) = ViewTo(c, name, s.xff, m, j)
    BY DEF SameAhead
  <2>2. ViewTo(c, name, d.xff, first, j) = ViewTo(c, name, b.xff, first, j)
    BY <1>2, <1>3, ViewLeft
  <2> QED BY <2>1, <2>2
<1>9. ASSUME ~Within(c, "proxytrusting", first, end)
      PROVE  \A j \in m..end : XffTo(c, d.xff, first, j) = XffTo(c, s.xff, m, j)
  <2>1. c[k] # "proxytrusting"
    BY <1>1, <1>9 DEF Within
  <2> QED BY <1>2, <1>9, <2>1, XffLeft DEF SameAhead
<1> QED BY <1>4, <1>5, <1>6, <1>7, <1>8, <1>9 DEF SameAhead

LEMMA AheadAtOnce ==
  ASSUME NEW c, NEW scheme, NEW i, NEW r
  PROVE  SameAhead(c, scheme, i, r, i, r)
BY DEF SameAhead

\* Nothing is ahead of the request that the upstream gets.
LEMMA AheadOfUpstream ==
  ASSUME NEW c \in Seq(Text), NEW scheme, NEW first, NEW b, NEW r,
         SameAhead(c, scheme, first, b, Len(c) + 1, r)
  PROVE  /\ r.cred = b.cred /\ r.path = PathTo(c, b.path, first, Len(c) + 1)
         /\ r.host = HostTo(c, b.host, first, Len(c) + 1)
         /\ r.xfh = XfhTo(c, b.host, b.xfh, first, Len(c) + 1)
         /\ r.proto = ProtoTo(c, scheme, b.proto, first, Len(c) + 1)
         /\ ~Within(c, "proxytrusting", first, Len(c) + 1) => r.xff = XffTo(c, b.xff, first, Len(c) + 1)
<1> DEFINE end == Len(c) + 1
<1>1. end \in Nat /\ end \in end..end
  OBVIOUS
<1>2. \A name : ~Within(c, name, end, end)
  BY <1>1, WithinNothing
<1>3. PathTo(c, r.path, end, end) = r.path /\ HostTo(c, r.host, end, end) = r.host
  BY <1>2 DEF PathTo, HostTo
<1>4. ProtoTo(c, scheme, r.proto, end, end) = r.proto /\ XffTo(c, r.xff, end, end) = r.xff
  BY <1>2 DEF ProtoTo, XffTo
<1>5. XfhTo(c, r.host, r.xfh, end, end) = r.xfh
  BY <1>2 DEF XfhTo
<1> QED BY <1>1, <1>3, <1>4, <1>5 DEF SameAhead
-----------------------------------------------------------------------------
(***************************************************************************)
(* Every attempt brings the upstream the same request.                      *)
(***************************************************************************)
LEMMA SchemeKept ==
  ASSUME client' = client, fronted' <=> fronted
  PROVE  Scheme' = Scheme /\ (TLS' <=> TLS)
BY DEF Scheme, TLS

LEMMA AheadSameFields ==
  ASSUME NEW c, NEW scheme, NEW first, NEW b, NEW d, NEW i, NEW r, NEW s,
         SameAhead(c, scheme, first, b, i, r),
         d.path = b.path, d.host = b.host, d.xfh = b.xfh, d.xff = b.xff, d.proto = b.proto, d.cred = b.cred,
         s.path = r.path, s.host = r.host, s.xfh = r.xfh, s.xff = r.xff, s.proto = r.proto, s.cred = r.cred
  PROVE  SameAhead(c, scheme, first, d, i, s)
BY DEF SameAhead

LEMMA PassAhead ==
  ASSUME TypeOK, Fresh, Alike, PassStep, InRetry'
  PROVE  /\ SameAhead(chain, Scheme, Rt + 1, Base', at + 1, Top')
         /\ \A r \in ToSet(seen) : SameAhead(chain, Scheme, Rt + 1, Base', Upstream, r)
<1>1. /\ at \in DOMAIN chain /\ at \in Nat /\ at + 1 \in Nat /\ at + 1 <= Len(chain) + 1
      /\ Upstream \in Nat /\ at < Upstream /\ Upstream = Len(chain) + 1
      /\ Top \in Request /\ Base \in Request /\ Top' = HandedOn(chain[at], Top)
      /\ chain \in Seq(Text) /\ IsInjective(chain) /\ Scheme \in {"http", "https"}
  BY PassKinds, Typed DEF Upstream
<1>2. CASE chain[at] = "retry" /\ Rt = at /\ ~InRetry /\ Base' = Top /\ Top' = Top
  <2>1. seen = <<>>
    BY <1>2, FirstAttempt DEF PassStep
  <2> QED BY <1>2, <2>1, AheadAtOnce, SeenNothing
<1>3. CASE InRetry
  <2>1. /\ SameAhead(chain, Scheme, Rt + 1, Base, at, Top)
        /\ \A r \in ToSet(seen) : SameAhead(chain, Scheme, Rt + 1, Base, Upstream, r)
    BY <1>3 DEF Alike
  <2>2. Rt \in Nat /\ Rt + 1 \in Nat /\ Rt + 1 <= at
    BY <1>1, <1>3, RtType DEF InRetry
  <2>3. SameAhead(chain, Scheme, Rt + 1, Base, at + 1, Top')
    <3>1. /\ Top'.path = PathAfter(chain[at], Top.path) /\ Top'.host = HostAfter(chain[at], Top.host)
          /\ Top'.cred = Top.cred /\ Top'.xff = XffAfter(chain[at], Top.xff)
          /\ Top'.proto = ProtoAfter(chain[at], Scheme, Top.proto)
          /\ Top'.xfh = XfhAfter(chain[at], Top.host, Top.xfh)
      BY <1>1, ToldFields
    <3> QED BY <1>1, <2>1, <2>2, <3>1, AheadStep
  <2>4. CASE Base' = Base
    BY <2>1, <2>3, <2>4
  <2>5. CASE Base' = Told(chain[at], Base)
    <3>1. /\ Base'.path = Base.path /\ Base'.host = Base.host
          /\ Base'.cred = Base.cred /\ Base'.xff = XffAfter(chain[at], Base.xff)
          /\ Base'.proto = ProtoAfter(chain[at], Scheme, Base.proto)
          /\ Base'.xfh = XfhAfter(chain[at], Base.host, Base.xfh)
      BY <1>1, <2>5, ToldFields
    <3>2. ASSUME NEW m \in Nat, at < m, m <= Len(chain) + 1, NEW s,
                 SameAhead(chain, Scheme, Rt + 1, Base, m, s)
          PROVE  SameAhead(chain, Scheme, Rt + 1, Base', m, s)
      BY <1>1, <2>2, <3>1, <3>2, AheadLeft
    <3> QED BY <1>1, <2>1, <2>3, <3>2
  <2> QED BY <1>3, <2>4, <2>5, PassKinds
<1> QED BY <1>2, <1>3, PassKinds

LEMMA PassClones ==
  ASSUME TypeOK, Alike, PassStep, InRetry', mark' # Len(reqs')
  PROVE  \E c \in Cloning : Outside("retry", c) /\ Index(c) < at + 1
<1>1. /\ at \in Nat /\ chain[at] \in Layers /\ Index(chain[at]) = at
      /\ \A name \in Layers : Index(name) \in Nat
  BY PassKinds, IndexFacts, Typed
<1>2. chain[at] # "retry" /\ InRetry
  BY PassKinds, PassRequests
<1>3. CASE mark = Len(reqs)
  <2>1. chain[at] \in Cloning
    BY <1>2, <1>3, PassRequests
  <2>2. Outside("retry", chain[at])
    BY <1>1, <1>2 DEF Outside, InRetry, Rt
  <2> QED BY <1>1, <2>1, <2>2
<1>4. CASE mark # Len(reqs)
  <2>1. PICK c \in Cloning : Outside("retry", c) /\ Index(c) < at
    BY <1>2, <1>4 DEF Alike
  <2> QED BY <1>1, <2>1 DEF Outside
<1> QED BY <1>3, <1>4

\* A clone lies between Retry and a layer that finds another request than Retry.
LEMMA ShieldedByClone ==
  ASSUME TypeOK, Alike, InRetry, at \in DOMAIN chain, mark # Len(reqs)
  PROVE  Shielded(chain[at])
<1>1. PICK c \in Cloning : Outside("retry", c) /\ Index(c) < at
  BY DEF Alike
<1>2. chain[at] \in Layers /\ Index(chain[at]) = at
  BY IndexFacts
<1>3. Outside(c, chain[at])
  BY <1>1, <1>2 DEF Outside
<1> QED BY <1>1, <1>3 DEF Shielded, Cloning

LEMMA PassIds ==
  ASSUME TypeOK, Fresh, Alike, PassStep, InRetry'
  PROVE  /\ SameIds(Base', Top')
         /\ \A r \in ToSet(seen) : SameIds(Base', r)
         /\ seen # <<>> => /\ Outside("retry", "requestid") /\ ~Shielded("requestid") => Base'.id # None
                           /\ Outside("retry", "tracing") /\ ~Shielded("tracing") => Base'.parent.trace # None
<1>1. /\ at \in DOMAIN chain /\ at \in Nat /\ chain[at] \in Layers /\ Index(chain[at]) = at
      /\ Top \in Request /\ Base \in Request /\ Top' = HandedOn(chain[at], Top)
  BY PassKinds
<1>2. /\ Top'.id = IdAfter(chain[at], drawn, Top.id)
      /\ Top'.parent = ParentAfter(chain[at], drawn, Top.parent)
  BY <1>1, ToldFields
<1>3. CASE chain[at] = "retry" /\ Rt = at /\ ~InRetry /\ Base' = Top /\ Top' = Top
  <2>1. seen = <<>>
    BY <1>3, FirstAttempt DEF PassStep
  <2> QED BY <1>3, <2>1, SeenNothing DEF SameIds
<1>4. CASE InRetry /\ chain[at] # "retry" /\ mark # Len(reqs)
  <2>1. Base' = Base /\ Shielded(chain[at])
    BY <1>1, <1>4, PassRequests, ShieldedByClone
  <2>2. chain[at] # "requestid" => Top'.id = Top.id
    BY <1>2 DEF IdAfter
  <2>3. chain[at] # "tracing" => Top'.parent = Top.parent
    BY <1>2 DEF ParentAfter
  <2>4. SameIds(Base', Top')
    BY <1>4, <2>1, <2>2, <2>3 DEF Alike, SameIds
  <2> QED BY <1>4, <2>1, <2>4 DEF Alike
<1>5. CASE InRetry /\ chain[at] # "retry" /\ mark = Len(reqs)
  <2>1. Base = Top /\ Base' = Told(chain[at], Base)
    BY <1>5, PassRequests
  <2>2. /\ Base'.id = IdAfter(chain[at], drawn, Base.id)
        /\ Base'.parent = ParentAfter(chain[at], drawn, Base.parent)
    BY <1>1, <2>1, ToldFields
  <2>3. SameIds(Base', Top')
    BY <1>2, <2>1, <2>2 DEF SameIds
  <2>4. Outside("retry", chain[at])
    BY <1>1, <1>5 DEF Outside, InRetry, Rt
  <2>5. ASSUME seen # <<>>, ~Shielded("requestid")
        PROVE  Base'.id = Base.id
    <3>1. chain[at] = "requestid" => Base.id # None
      BY <1>5, <2>4, <2>5 DEF Alike
    <3> QED BY <2>2, <3>1 DEF IdAfter
  <2>6. ASSUME seen # <<>>, ~Shielded("tracing")
        PROVE  Base'.parent.trace = Base.parent.trace
    <3>1. chain[at] = "tracing" => Base.parent.trace # None
      BY <1>5, <2>4, <2>6 DEF Alike
    <3> QED BY <2>2, <3>1 DEF ParentAfter
  <2>7. seen = <<>> => ToSet(seen) = {}
    BY SeenNothing
  <2> QED BY <1>5, <2>3, <2>5, <2>6, <2>7 DEF Alike, SameIds
<1> QED BY <1>3, <1>4, <1>5, PassKinds

LEMMA InitAlike == Init => Alike
BY InitRequests DEF Alike

LEMMA StepAlike == TypeOK /\ Fresh /\ IdsTold /\ Alike /\ [Next]_vars => Alike'
<1> SUFFICES ASSUME TypeOK, Fresh, IdsTold, Alike, [Next]_vars, InRetry'
             PROVE  /\ SameAhead(chain', Scheme', Rt' + 1, Base', at', Top')
                    /\ \A r \in ToSet(seen') : SameAhead(chain', Scheme', Rt' + 1, Base', Upstream', r)
                    /\ mark' # Len(reqs') => \E c \in Cloning : Outside("retry", c) /\ Index(c) < at'
                    /\ SameIds(Base', Top')
                    /\ \A r \in ToSet(seen') : SameIds(Base', r)
                    /\ seen' # <<>> =>
                         /\ Outside("retry", "requestid") /\ ~Shielded("requestid") => Base'.id # None
                         /\ Outside("retry", "tracing") /\ ~Shielded("tracing") => Base'.parent.trace # None
  BY EveryStepKeepsChain, ChainKept DEF Alike, SameIds, None
<1>1. chain' = chain /\ Layers' = Layers /\ Rt' = Rt /\ Upstream' = Upstream /\ (fronted' <=> fronted)
  BY EveryStepKeepsChain, ChainKept
<1>2. CASE PassStep
  <2>1. seen' = seen /\ client' = client /\ at' = at + 1
    BY <1>2 DEF PassStep, SameVisit
  <2>2. Scheme' = Scheme
    BY <1>1, <2>1, SchemeKept
  <2> QED BY <1>1, <1>2, <2>1, <2>2, PassAhead, PassClones, PassIds
<1>3. CASE RefuseStep \/ Answered \/ SetEnabled \/ UNCHANGED vars
  <2>1. client' = client /\ at' = at /\ reqs' = reqs /\ mark' = mark /\ seen' = seen
    BY <1>3 DEF RefuseStep, SameVisit, Answered, SetEnabled, vars
  <2>2. Top' = Top /\ Base' = Base /\ InRetry /\ Scheme' = Scheme
    BY <1>1, <2>1, SchemeKept DEF Top, Base, InRetry
  <2> QED BY <1>1, <2>1, <2>2 DEF Alike
<1>4. CASE ForwardStep
  <2>1. /\ client' = client /\ at = Upstream /\ at' = at /\ InRetry
        /\ \A r \in ToSet(seen') : r \in ToSet(seen) \/ r = Top
        /\ Top \in Request /\ Base \in Request /\ Top' = Marked(Top) /\ Base' \in {Base, Marked(Base)}
    BY <1>4, ForwardKinds
  <2>2. Scheme' = Scheme /\ mark' = mark /\ Len(reqs') = Len(reqs)
    BY <1>1, <1>4, <2>1, SchemeKept, ForwardRequests
  <2>3. /\ Base'.path = Base.path /\ Base'.host = Base.host /\ Base'.xfh = Base.xfh
        /\ Base'.xff = Base.xff /\ Base'.proto = Base.proto /\ Base'.cred = Base.cred
        /\ Base'.id = Base.id /\ Base'.parent = Base.parent
    BY <2>1, MarkedFields
  <2>4. /\ Top'.path = Top.path /\ Top'.host = Top.host /\ Top'.xfh = Top.xfh
        /\ Top'.xff = Top.xff /\ Top'.proto = Top.proto /\ Top'.cred = Top.cred
        /\ Top'.id = Top.id /\ Top'.parent = Top.parent
    BY <2>1, MarkedFields
  <2>5. /\ SameAhead(chain, Scheme, Rt + 1, Base, at, Top)
        /\ \A r \in ToSet(seen) : SameAhead(chain, Scheme, Rt + 1, Base, Upstream, r)
        /\ mark # Len(reqs) => \E c \in Cloning : Outside("retry", c) /\ Index(c) < at
        /\ SameIds(Base, Top)
        /\ \A r \in ToSet(seen) : SameIds(Base, r)
    BY <2>1 DEF Alike
  <2>6. SameAhead(chain, Scheme, Rt + 1, Base', at, Top')
    BY <2>3, <2>4, <2>5, AheadSameFields
  <2>7. \A r \in ToSet(seen') : SameAhead(chain, Scheme, Rt + 1, Base', Upstream, r)
    <3> SUFFICES ASSUME NEW r \in ToSet(seen') PROVE SameAhead(chain, Scheme, Rt + 1, Base', Upstream, r)
      OBVIOUS
    <3>1. SameAhead(chain, Scheme, Rt + 1, Base, Upstream, r)
      BY <2>1, <2>5
    <3> QED BY <2>3, <3>1, AheadSameFields
  <2>8. SameIds(Base', Top') /\ \A r \in ToSet(seen') : SameIds(Base', r)
    BY <2>1, <2>3, <2>4, <2>5 DEF SameIds
  <2>9. /\ Outside("retry", "requestid") /\ ~Shielded("requestid") => Base'.id # None
        /\ Outside("retry", "tracing") /\ ~Shielded("tracing") => Base'.parent.trace # None
    <3>1. \A name \in Layers : Index(name) < at
      BY <2>1, IndexFacts, Typed DEF Upstream
    <3>2. /\ "requestid" \in Layers => Top.id # None
          /\ "tracing" \in Layers => Top.parent.trace # None
      BY <3>1 DEF IdsTold, Echoed
    <3> QED BY <2>3, <2>5, <3>2 DEF SameIds, Outside
  <2> QED BY <1>1, <2>1, <2>2, <2>5, <2>6, <2>7, <2>8, <2>9
<1>5. CASE RetryAgain
  <2>1. client' = client /\ at' = Rt + 1 /\ InRetry /\ seen' = seen
    BY <1>5 DEF RetryAgain, Again, Retried, Rt, InRetry
  <2>2. Top' = Base /\ Base' = Base /\ mark' = Len(reqs') /\ Scheme' = Scheme
    BY <1>1, <1>5, <2>1, RetryRequests, SchemeKept
  <2>3. SameAhead(chain, Scheme, Rt + 1, Base, Rt + 1, Base) /\ SameIds(Base, Base)
    BY AheadAtOnce DEF SameIds
  <2> QED BY <1>1, <2>1, <2>2, <2>3 DEF Alike
<1>6. CASE Follow
  <2>1. at' = 1
    BY <1>6 DEF Follow, Visit
  <2> QED BY <1>1, <2>1, NotYetInRetry
<1> QED BY <1>2, <1>3, <1>4, <1>5, <1>6, EveryStep DEF StepKinds

\* Every attempt brings the upstream the same request, and none brings it one
\* whose body an earlier one has used up (reverseproxy.go:46-51, requestid.go:23-30,
\* tracing.go:33-44, rewritehost.go:53-60, proxyheaders.go:45-50).
THEOREM SameRequestEveryAttempt == Spec => []AttemptsAlike
<1>1. TypeOK /\ Fresh /\ Alike => AttemptsAlike
  <2> SUFFICES ASSUME TypeOK, Fresh, Alike, NEW r \in ToSet(seen)
               PROVE  /\ r.path = seen[1].path /\ r.host = seen[1].host /\ r.xfh = seen[1].xfh
                      /\ r.proto = seen[1].proto /\ r.cred = seen[1].cred
                      /\ r.xff = seen[1].xff \/ Outside("retry", "proxytrusting")
                      /\ r.id = seen[1].id \/ Shielded("requestid")
                      /\ r.parent.trace = seen[1].parent.trace \/ Shielded("tracing")
    BY DEF AttemptsAlike, Fresh
  <2>1. seen \in Seq(Request) /\ seen # <<>> /\ seen[1] \in ToSet(seen)
    BY DEF TypeOK, ToSet
  <2>2. CASE ~InRetry
    <3>1. Len(seen) = 1
      BY <2>1, <2>2 DEF Fresh
    <3>2. r = seen[1]
      BY <2>1, <3>1 DEF ToSet
    <3> QED BY <3>2
  <2>3. CASE InRetry
    <3>1. \A s \in {r, seen[1]} : SameAhead(chain, Scheme, Rt + 1, Base, Len(chain) + 1, s) /\ SameIds(Base, s)
      BY <2>1, <2>3 DEF Alike, Upstream
    <3>2. Within(chain, "proxytrusting", Rt + 1, Len(chain) + 1) => Outside("retry", "proxytrusting")
      <4>1. Rt \in Nat /\ Len(chain) + 1 \in Nat /\ "retry" \in Layers
            /\ \A name \in Layers : Index(name) \in Nat
        BY <2>3, RtType, Typed, IndexFacts DEF InRetry
      <4>2. Within(chain, "proxytrusting", Rt + 1, Len(chain) + 1) =>
              "proxytrusting" \in Layers /\ Rt + 1 <= Index("proxytrusting")
        BY <4>1, WithinIndex
      <4> QED BY <4>1, <4>2 DEF Outside, Rt
    <3>3. /\ r.path = seen[1].path /\ r.host = seen[1].host /\ r.xfh = seen[1].xfh
          /\ r.proto = seen[1].proto /\ r.cred = seen[1].cred
          /\ r.xff = seen[1].xff \/ Outside("retry", "proxytrusting")
      <4> DEFINE end == Len(chain) + 1
      <4>1. \A s \in {r, seen[1]} :
              /\ s.cred = Base.cred /\ s.path = PathTo(chain, Base.path, Rt + 1, end)
              /\ s.host = HostTo(chain, Base.host, Rt + 1, end)
              /\ s.xfh = XfhTo(chain, Base.host, Base.xfh, Rt + 1, end)
              /\ s.proto = ProtoTo(chain, Scheme, Base.proto, Rt + 1, end)
              /\ ~Within(chain, "proxytrusting", Rt + 1, end) => s.xff = XffTo(chain, Base.xff, Rt + 1, end)
        BY <3>1, Typed, AheadOfUpstream
      <4> HIDE DEF end
      <4>2. /\ r.path = seen[1].path /\ r.host = seen[1].host /\ r.xfh = seen[1].xfh
            /\ r.proto = seen[1].proto /\ r.cred = seen[1].cred
        BY <4>1
      <4>3. r.xff = seen[1].xff \/ Outside("retry", "proxytrusting")
        BY <3>2, <4>1 DEF end
      <4> QED BY <4>2, <4>3
    <3> QED BY <3>1, <3>3 DEF SameIds
  <2> QED BY <2>2, <2>3
<1> QED BY <1>1, InitType, StepType, InitFresh, StepFresh, InitIds, StepIds, InitAlike, StepAlike,
           PTL DEF Spec
-----------------------------------------------------------------------------
(***************************************************************************)
(* A gate decides about one address.                                        *)
(***************************************************************************)

\* What is decided with this step.
LEMMA JudgedBy ==
  ASSUME TypeOK, at \in DOMAIN chain, NEW j \in Judged
  PROVE  \/ j \in judged
         \/ chain[at] \in AddressGates /\ j.layer = chain[at] /\ j.address = View(chain[at], Top.xff)
BY DEF Judged, Address, View, AddressGates

\* The layer that has the request leaves nothing behind by which the gate would
\* see another address on the next attempt.
LEMMA AddressLeft ==
  ASSUME TypeOK, InRetry, at \in DOMAIN chain, NEW name \in AddressGates, Outside("retry", name),
         ~AddressMayChange(name), NEW xff \in Seq(Text)
  PROVE  ViewTo(chain, name, XffAfter(chain[at], xff), Rt + 1, Index(name))
           = ViewTo(chain, name, xff, Rt + 1, Index(name))
<1>1. /\ at \in Nat /\ chain[at] \in Layers /\ Index(chain[at]) = at /\ name \in Layers
      /\ Index(name) \in Nat /\ chain[Index(name)] = name /\ Index(name) \in DOMAIN chain
      /\ Rt \in Nat /\ Rt + 1 <= at /\ "retry" \in Layers
  BY IndexFacts, RtType, Typed DEF InRetry, Outside
<1>2. CASE chain[at] \notin {"proxyheaders", "proxytrusting"}
  BY <1>2 DEF XffAfter
<1>3. CASE chain[at] = "proxytrusting"
  <2>1. Outside("retry", "proxytrusting")
    BY <1>1, <1>3 DEF Outside, Rt
  <2>2. name = "geoblock"
    BY <2>1 DEF AddressMayChange, AddressGates
  <2>3. View(name, XffAfter(chain[at], xff)) = View(name, xff)
    BY <1>3, <2>2, ViewOfAppended DEF XffAfter
  <2> QED BY <2>3 DEF ViewTo
<1>4. CASE chain[at] = "proxyheaders"
  <2>1. ~Outside(name, "proxyheaders")
    BY DEF AddressMayChange
  <2>2. at < Index(name)
    <3>1. ~(Index(name) < at)
      BY <1>1, <1>4, <2>1 DEF Outside
    <3>2. Index(name) # at
      BY <1>1, <1>4 DEF AddressGates
    <3> QED BY <1>1, <3>1, <3>2
  <2>3. Within(chain, "proxyheaders", Rt + 1, Index(name))
    BY <1>1, <1>4, <2>2 DEF Within
  <2> QED BY <2>3 DEF ViewTo
<1> QED BY <1>2, <1>3, <1>4

\* A gate sees the address that the request which Retry holds has for it.
LEMMA AddressAhead ==
  ASSUME TypeOK, Alike, InRetry, at \in DOMAIN chain, chain[at] \in AddressGates,
         ~AddressMayChange(chain[at])
  PROVE  View(chain[at], Top.xff) = ViewTo(chain, chain[at], Base.xff, Rt + 1, at)
<1> DEFINE name == chain[at]
<1>1. /\ at \in Nat /\ name \in Layers /\ Index(name) = at /\ Rt \in Nat /\ Rt < at
      /\ at \in at..(Len(chain) + 1) /\ Len(chain) + 1 \in Nat /\ "retry" \in Layers
      /\ chain \in Seq(Text)
  BY IndexFacts, RtType, Typed DEF InRetry
<1>2. SameAhead(chain, Scheme, Rt + 1, Base, at, Top)
  BY DEF Alike
<1>3. ~Within(chain, "proxyheaders", at, at)
  BY <1>1, WithinNothing
<1>4. CASE name = "geoblock"
  <2>1. ViewTo(chain, name, Base.xff, Rt + 1, at) = ViewTo(chain, name, Top.xff, at, at)
    BY <1>1, <1>2, <1>4 DEF SameAhead
  <2> QED BY <1>3, <2>1 DEF ViewTo
<1>5. CASE name \in {"ipfilter", "ratelimit"}
  <2>1. ~Outside("retry", "proxytrusting")
    BY <1>1, <1>5 DEF AddressMayChange, Outside, Rt
  <2>2. ~Within(chain, "proxytrusting", Rt + 1, Len(chain) + 1)
    <3>1. Within(chain, "proxytrusting", Rt + 1, Len(chain) + 1) =>
            "proxytrusting" \in Layers /\ Rt + 1 <= Index("proxytrusting")
      BY <1>1, WithinIndex
    <3>2. "proxytrusting" \in Layers => Index("proxytrusting") \in Nat
      BY IndexFacts, Typed
    <3> QED BY <1>1, <2>1, <3>1, <3>2 DEF Outside, Rt
  <2>3. XffTo(chain, Base.xff, Rt + 1, at) = XffTo(chain, Top.xff, at, at)
    BY <1>1, <1>2, <2>2 DEF SameAhead
  <2>4. Top.xff = XffTo(chain, Base.xff, Rt + 1, at)
    BY <1>3, <2>3 DEF XffTo
  <2> QED BY <2>4, ViewOfRemote DEF ViewTo, XffTo
<1> QED BY <1>4, <1>5 DEF AddressGates

LEMMA InitJudged == Init => JudgedOnce
BY DEF Init, JudgedOnce, OneAddressJudged

\* A gate that decides again decides about the same address.
LEMMA JudgesAlike ==
  ASSUME TypeOK, Alike, JudgedOnce, going = "in", at \in DOMAIN chain
  PROVE  \A j, k \in Judged : j.layer = k.layer => j.address = k.address \/ AddressMayChange(j.layer)
<1>1. chain[at] \in Layers /\ Index(chain[at]) = at
  BY IndexFacts
<1>2. ASSUME NEW j \in judged, j.layer = chain[at], chain[at] \in AddressGates, ~AddressMayChange(chain[at])
      PROVE  j.address = View(chain[at], Top.xff)
  <2>1. InRetry /\ Outside("retry", j.layer)
    <3>1. at \in Nat
      BY DEF TypeOK
    <3> QED BY <1>1, <1>2, <3>1 DEF JudgedOnce
  <2>2. j.address = ViewTo(chain, chain[at], Base.xff, Rt + 1, at)
    BY <1>1, <1>2, <2>1 DEF JudgedOnce
  <2> QED BY <1>2, <2>1, <2>2, AddressAhead
<1>3. \A j, k \in judged : j.layer = k.layer => j.address = k.address \/ AddressMayChange(j.layer)
  BY DEF JudgedOnce, OneAddressJudged
<1> QED BY <1>2, <1>3, JudgedBy

LEMMA PassJudged ==
  ASSUME TypeOK, Alike, JudgedOnce, PassStep, NEW j \in Judged
  PROVE  /\ j.layer \in AddressGates \cap Layers
         /\ Index(j.layer) < at + 1 \/ (InRetry' /\ Outside("retry", j.layer))
         /\ InRetry' /\ Outside("retry", j.layer) /\ ~AddressMayChange(j.layer) =>
              j.address = ViewTo(chain, j.layer, Base'.xff, Rt + 1, Index(j.layer))
<1>1. /\ at \in DOMAIN chain /\ at \in Nat /\ chain[at] \in Layers /\ Index(chain[at]) = at
      /\ going = "in" /\ chain' = chain /\ at' = at + 1 /\ Base \in Request /\ Top \in Request
      /\ Base.xff \in Seq(Text)
  BY PassKinds DEF PassStep, SameVisit, Request
<1>2. InRetry => InRetry'
  BY <1>1, ChainKept, RtType DEF InRetry
<1>3. CASE j \in judged
  <2>1. /\ j.layer \in AddressGates \cap Layers
        /\ Index(j.layer) < at \/ (InRetry /\ Outside("retry", j.layer))
        /\ InRetry /\ Outside("retry", j.layer) /\ ~AddressMayChange(j.layer) =>
              j.address = ViewTo(chain, j.layer, Base.xff, Rt + 1, Index(j.layer))
    BY <1>1, <1>3 DEF JudgedOnce
  <2>2. Index(j.layer) \in Nat
    BY <2>1, IndexFacts, Typed
  <2>3. ASSUME InRetry', Outside("retry", j.layer), ~AddressMayChange(j.layer)
        PROVE  j.address = ViewTo(chain, j.layer, Base'.xff, Rt + 1, Index(j.layer))
    <3>1. InRetry
      BY <1>1, <2>1, <2>2, <2>3, PassKinds DEF Outside, Rt
    <3>2. CASE Base' = Base
      BY <2>1, <2>3, <3>1, <3>2
    <3>3. CASE Base' = Told(chain[at], Base)
      <4>1. Base'.xff = XffAfter(chain[at], Base.xff)
        BY <1>1, <3>3, ToldFields
      <4> QED BY <1>1, <2>1, <2>3, <3>1, <4>1, AddressLeft
    <3> QED BY <2>3, <3>1, <3>2, <3>3, PassKinds
  <2> QED BY <1>1, <1>2, <2>1, <2>2, <2>3
<1>4. CASE chain[at] \in AddressGates /\ j.layer = chain[at] /\ j.address = View(chain[at], Top.xff)
  <2>1. ASSUME InRetry', Outside("retry", j.layer), ~AddressMayChange(j.layer)
        PROVE  j.address = ViewTo(chain, j.layer, Base'.xff, Rt + 1, Index(j.layer))
    <3>1. chain[at] # "retry"
      BY <1>4 DEF AddressGates
    <3>2. InRetry
      BY <2>1, <3>1, PassKinds
    <3>3. Base'.xff = Base.xff
      <4>1. CASE Base' = Base
        BY <4>1
      <4>2. CASE Base' = Told(chain[at], Base)
        <5>1. Base'.xff = XffAfter(chain[at], Base.xff)
          BY <1>1, <4>2, ToldFields
        <5> QED BY <1>4, <5>1 DEF XffAfter, AddressGates
      <4> QED BY <2>1, <3>1, <4>1, <4>2, PassKinds
    <3>4. View(chain[at], Top.xff) = ViewTo(chain, chain[at], Base.xff, Rt + 1, at)
      BY <1>1, <1>4, <2>1, <3>2, AddressAhead
    <3> QED BY <1>1, <1>4, <3>3, <3>4
  <2> QED BY <1>1, <1>4, <2>1
<1> QED BY <1>1, <1>3, <1>4, JudgedBy

LEMMA StepJudged == TypeOK /\ Alike /\ JudgedOnce /\ [Next]_vars => JudgedOnce'
<1> SUFFICES ASSUME TypeOK, Alike, JudgedOnce, [Next]_vars
             PROVE  /\ \A j \in judged' :
                         /\ j.layer \in AddressGates \cap Layers
                         /\ \/ Index(j.layer) < at'
                            \/ Index(j.layer) = at' /\ going' # "in"
                            \/ InRetry' /\ Outside("retry", j.layer)
                         /\ InRetry' /\ Outside("retry", j.layer) /\ ~AddressMayChange(j.layer) =>
                              j.address = ViewTo(chain, j.layer, Base'.xff, Rt + 1, Index(j.layer))
                    /\ \A j, k \in judged' :
                         j.layer = k.layer => j.address = k.address \/ AddressMayChange(j.layer)
  BY EveryStepKeepsChain, ChainKept DEF JudgedOnce, OneAddressJudged
<1>1. chain' = chain /\ Layers' = Layers /\ Rt' = Rt /\ Upstream' = Upstream
  BY EveryStepKeepsChain, ChainKept
<1>2. \A j, k \in judged : j.layer = k.layer => j.address = k.address \/ AddressMayChange(j.layer)
  BY DEF JudgedOnce, OneAddressJudged
<1>3. CASE PassStep
  <2>1. judged' = Judged /\ at' = at + 1 /\ going = "in" /\ at \in DOMAIN chain
    BY <1>3 DEF PassStep
  <2> QED BY <1>3, <2>1, PassJudged, JudgesAlike
<1>4. CASE RefuseStep
  <2>1. /\ judged' = Judged /\ at' = at /\ going = "in" /\ going' = "out" /\ at \in DOMAIN chain
        /\ reqs' = reqs /\ mark' = mark
    BY <1>4 DEF RefuseStep
  <2>2. Base' = Base /\ (InRetry' <=> InRetry)
    BY <1>1, <2>1 DEF Base, InRetry
  <2>3. ASSUME NEW j \in Judged
        PROVE  /\ j.layer \in AddressGates \cap Layers
               /\ Index(j.layer) < at \/ Index(j.layer) = at \/ (InRetry /\ Outside("retry", j.layer))
               /\ InRetry /\ Outside("retry", j.layer) /\ ~AddressMayChange(j.layer) =>
                    j.address = ViewTo(chain, j.layer, Base.xff, Rt + 1, Index(j.layer))
    <3>1. CASE j \in judged
      BY <3>1 DEF JudgedOnce
    <3>2. CASE chain[at] \in AddressGates /\ j.layer = chain[at] /\ j.address = View(chain[at], Top.xff)
      <4>1. chain[at] \in Layers /\ Index(chain[at]) = at
        BY <2>1, IndexFacts
      <4> QED BY <2>1, <3>2, <4>1, AddressAhead
    <3> QED BY <2>1, <3>1, <3>2, JudgedBy
  <2> QED BY <2>1, <2>2, <2>3, JudgesAlike
<1>5. CASE ForwardStep
  <2>1. /\ at = Upstream /\ at' = at /\ (InRetry' <=> InRetry) /\ Base'.xff = Base.xff
    BY <1>5, ForwardKinds, MarkedFields
  <2>2. judged' = judged
    BY <1>5, <2>1, Typed DEF ForwardStep, Forward, ForwardFails, Answers, Judged
  <2>3. going' = "out"
    BY <1>5 DEF ForwardStep, Forward, ForwardFails, Answers
  <2> QED BY <1>2, <2>1, <2>2, <2>3 DEF JudgedOnce
<1>6. CASE RetryAgain
  <2>1. judged' = judged /\ at' = Rt + 1 /\ InRetry /\ "retry" \in Layers
    BY <1>6 DEF RetryAgain, Again, Retried, Rt, InRetry
  <2>2. Base' = Base /\ InRetry' /\ Rt \in Nat
    BY <1>1, <1>6, <2>1, RetryRequests, RtType DEF InRetry
  <2>3. \A name \in Layers : Index(name) < Rt + 1 \/ Outside("retry", name)
    BY <2>1, <2>2, IndexFacts, Typed DEF Outside, Rt
  <2> QED BY <1>2, <2>1, <2>2, <2>3 DEF JudgedOnce
<1>7. CASE Answered \/ SetEnabled \/ UNCHANGED vars
  <2>1. judged' = judged /\ at' = at /\ reqs' = reqs /\ mark' = mark /\ (going # "in" => going' # "in")
    BY <1>7 DEF Answered, SetEnabled, vars
  <2>2. Base' = Base /\ (InRetry' <=> InRetry)
    BY <1>1, <2>1 DEF Base, InRetry
  <2> QED BY <1>2, <2>1, <2>2 DEF JudgedOnce
<1>8. CASE Follow
  <2>1. judged' = {}
    BY <1>8 DEF Follow, Visit
  <2> QED BY <2>1
<1> QED BY <1>3, <1>4, <1>5, <1>6, <1>7, <1>8, EveryStep DEF StepKinds

\* Nobody is judged by two addresses for one request, unless the order of layers
\* is one that lets a later attempt find another one (ipfilter.go:65,
\* geoblock.go:52, ratelimit.go:53-67, proxyheaders.go:41-50).
THEOREM JudgesOneAddress == Spec => []OneAddressJudged
<1>1. JudgedOnce => OneAddressJudged
  BY DEF JudgedOnce
<1> QED BY <1>1, InitType, StepType, InitFresh, StepFresh, InitIds, StepIds, InitAlike, StepAlike,
           InitJudged, StepJudged, PTL DEF Spec
-----------------------------------------------------------------------------
(***************************************************************************)
(* What has passed a gate passes it again.                                  *)
(***************************************************************************)

\* The gate of https sees by what scheme the client speaks.
LEMMA SecureScheme ==
  ASSUME TypeOK, ProtoTold, at \in DOMAIN chain, chain[at] = "redirect", ~fronted \/ ProtoKept
  PROVE  (TLS \/ Top.proto = "https") <=> client.scheme = "https"
<1>1. "redirect" \in Layers /\ Index("redirect") = at /\ at \in Nat
  BY IndexFacts, Typed
<1>2. Untouched
  BY <1>1 DEF Untouched
<1>3. client.scheme \in {"http", "https"} /\ Absent # "https"
  BY ClientType, AbsentIsNoScheme
<1>4. CASE fronted
  <2>1. Top.proto = client.scheme
    BY <1>2, <1>4 DEF ProtoTold
  <2> QED BY <1>4, <2>1 DEF TLS
<1>5. CASE ~fronted
  <2>1. Top.proto \in {Absent, client.scheme}
    BY <1>5 DEF ProtoTold
  <2> QED BY <1>3, <1>5, <2>1 DEF TLS
<1> QED BY <1>4, <1>5

\* What the layer that has the request finds is what LetsAgain speaks of.
LEMMA LetsAhead ==
  ASSUME TypeOK, Alike, ProtoTold, InRetry, at \in DOMAIN chain
  PROVE  /\ Lets(chain[at], Top) => LetsAgain(chain[at])
         /\ LetsAgain(chain[at]) /\ (~fronted \/ ProtoKept) =>
              \/ Lets(chain[at], Top) \/ chain[at] \in changed
              \/ chain[at] = "ipfilter" /\ AddressMayChange("ipfilter")
<1> DEFINE name == chain[at]
           path == PathTo(chain, Base.path, Rt + 1, Index(name))
<1>1. /\ at \in Nat /\ Index(name) = at /\ chain \in Seq(Text) /\ at \in at..(Len(chain) + 1)
  BY IndexFacts, Typed
<1>2. SameAhead(chain, Scheme, Rt + 1, Base, at, Top)
  BY DEF Alike
<1>3. Top.path = path
  <2>1. PathTo(chain, Base.path, Rt + 1, at) = PathTo(chain, Top.path, at, at)
    BY <1>1, <1>2 DEF SameAhead
  <2>2. \A a : ~Within(chain, a, at, at)
    BY <1>1, WithinNothing
  <2>3. PathTo(chain, Top.path, at, at) = Top.path
    BY <2>2 DEF PathTo
  <2> QED BY <1>1, <2>1, <2>3
<1>4. Top.cred = Base.cred
  BY <1>2 DEF SameAhead
<1> HIDE DEF path
<1>5. CASE name = "redirect"
  <2>1. Lets(name, Top) <=> Top.path \in Exempt \/ TLS \/ Top.proto = "https"
    BY <1>5 DEF Lets
  <2>2. LetsAgain(name) <=> (~fronted \/ ProtoKept => path \in Exempt \/ client.scheme = "https")
    BY <1>5 DEF LetsAgain, path
  <2> QED BY <1>3, <1>5, <2>1, <2>2, SecureScheme
<1>6. CASE name = "ipfilter"
  <2>1. Lets(name, Top) <=> Admits(View(name, Top.xff))
    BY <1>6 DEF Lets
  <2>2. LetsAgain(name) <=>
          (~AddressMayChange(name) => Admits(ViewTo(chain, name, Base.xff, Rt + 1, Index(name))))
    BY <1>6 DEF LetsAgain
  <2>3. ~AddressMayChange(name) => View(name, Top.xff) = ViewTo(chain, name, Base.xff, Rt + 1, Index(name))
    BY <1>1, <1>6, AddressAhead DEF AddressGates
  <2> QED BY <1>6, <2>1, <2>2, <2>3
<1>7. CASE name \notin {"redirect", "ipfilter"}
  BY <1>3, <1>4, <1>7 DEF Lets, LetsAgain, path
<1> QED BY <1>5, <1>6, <1>7

\* It depends on little of the request that Retry holds, and what turns a gate is
\* on record.
LEMMA LetsAgainKept ==
  ASSUME chain' = chain, client' = client, fronted' <=> fronted, changed \subseteq changed',
         NEW name, name = "jwt" /\ expired' => expired \/ name \in changed',
         name = "maintenance" /\ enabled' => enabled \/ name \in changed',
         Base'.path = Base.path, Base'.cred = Base.cred, LetsAgain(name),
         name = "ipfilter" /\ ~AddressMayChange(name) =>
           ViewTo(chain, name, Base'.xff, Rt + 1, Index(name)) = ViewTo(chain, name, Base.xff, Rt + 1, Index(name))
  PROVE  LetsAgain(name)'
BY ChainKept DEF LetsAgain, Admits

LEMMA PassPassed ==
  ASSUME TypeOK, Fresh, Alike, ProtoTold, Passed, PassStep, fronted' <=> fronted, InRetry',
         NEW name \in Layers, Outside("retry", name), Index(name) < at + 1 \/ seen # <<>>
  PROVE  LetsAgain(name)'
<1>1. /\ at \in DOMAIN chain /\ at \in Nat /\ chain[at] \in Layers /\ Index(chain[at]) = at
      /\ going = "in" /\ chain' = chain /\ client' = client /\ Base \in Request /\ Top \in Request
      /\ Lets(chain[at], Top) /\ changed' = changed /\ (expired' <=> expired) /\ (enabled' <=> enabled)
  BY PassKinds DEF PassStep, SameVisit
<1>2. Index(name) \in Nat /\ chain[Index(name)] = name
  BY IndexFacts, Typed
<1>3. InRetry
  <2> SUFFICES ASSUME ~InRetry PROVE FALSE
    OBVIOUS
  <2>1. Rt = at /\ seen = <<>>
    BY <1>1, PassKinds, FirstAttempt
  <2> QED BY <1>1, <1>2, <2>1 DEF Outside, Rt
<1>4. LetsAgain(name)
  <2>1. CASE Index(name) < at \/ seen # <<>>
    BY <1>3, <2>1 DEF Passed
  <2>2. CASE Index(name) = at
    BY <1>1, <1>2, <1>3, <2>2, LetsAhead
  <2> QED BY <1>1, <1>2, <2>1, <2>2
<1>5. CASE Base' = Base
  BY <1>1, <1>4, <1>5, LetsAgainKept
<1>6. CASE Base' = Told(chain[at], Base)
  <2>1. Base'.path = Base.path /\ Base'.cred = Base.cred /\ Base'.xff = XffAfter(chain[at], Base.xff)
    BY <1>1, <1>6, ToldFields
  <2>2. Base.xff \in Seq(Text)
    BY <1>1 DEF Request
  <2>3. name = "ipfilter" /\ ~AddressMayChange(name) =>
          ViewTo(chain, name, Base'.xff, Rt + 1, Index(name)) = ViewTo(chain, name, Base.xff, Rt + 1, Index(name))
    BY <1>1, <1>3, <2>1, <2>2, AddressLeft DEF AddressGates
  <2> QED BY <1>1, <1>4, <2>1, <2>3, LetsAgainKept
<1> QED BY <1>3, <1>5, <1>6, PassKinds

\* A gate that refuses a later attempt has not decided about the first one, or
\* has a reason to change its mind.
LEMMA RefusePassed ==
  ASSUME TypeOK, Fresh, Alike, ProtoTold, Passed, RefuseStep, seen # <<>>, ~fronted \/ ProtoKept
  PROVE  \/ chain[at] \in {"ratelimit", "geoblock"} \cup changed
         \/ chain[at] = "ipfilter" /\ AddressMayChange(chain[at])
         \/ chain[at] = "size" /\ status' = 431 /\ Outside("retry", chain[at])
<1>1. at \in DOMAIN chain /\ going = "in" /\ at \in Nat
  BY DEF RefuseStep, TypeOK
<1>2. InRetry /\ chain[at] \in Layers /\ Index(chain[at]) = at
  BY <1>1, IndexFacts DEF Fresh
<1>3. Outside("retry", chain[at])
  BY <1>2 DEF Outside, InRetry, Rt
<1>4. LetsAgain(chain[at])
  BY <1>2, <1>3 DEF Passed
<1>5. \/ Lets(chain[at], Top) \/ chain[at] \in changed
      \/ chain[at] = "ipfilter" /\ AddressMayChange(chain[at])
  BY <1>1, <1>2, <1>4, LetsAhead
<1> QED BY <1>3, <1>5 DEF RefuseStep, Fickle

LEMMA InitPassed == Init => Passed
BY InitRequests DEF Passed, PassedForGood

LEMMA StepPassed == TypeOK /\ Fresh /\ Alike /\ ProtoTold /\ Passed /\ [Next]_vars => Passed'
<1> SUFFICES ASSUME TypeOK, Fresh, Alike, ProtoTold, Passed, [Next]_vars PROVE Passed'
  OBVIOUS
<1>1. /\ chain' = chain /\ Layers' = Layers /\ Rt' = Rt /\ Upstream' = Upstream
      /\ (fronted' <=> fronted) /\ (ProtoKept' <=> ProtoKept)
      /\ \A a : Index(a)' = Index(a)
      /\ \A a, b : (Outside(a, b)' <=> Outside(a, b))
      /\ \A a : (AddressMayChange(a)' <=> AddressMayChange(a))
  BY EveryStepKeepsChain, ChainKept
<1>2. ASSUME client' = client, Base'.path = Base.path, Base'.cred = Base.cred, Base'.xff = Base.xff,
             InRetry, NEW name \in Layers, Outside("retry", name), Index(name) < at \/ seen # <<>>,
             changed \subseteq changed', expired' => expired \/ name \in changed' \/ name # "jwt",
             enabled' => enabled \/ name \in changed' \/ name # "maintenance"
      PROVE  LetsAgain(name)'
  <2>1. LetsAgain(name)
    BY <1>2 DEF Passed
  <2> QED BY <1>1, <1>2, <2>1, LetsAgainKept
<1>3. CASE PassStep
  <2>1. seen' = seen /\ at' = at + 1 /\ going' = "in"
    BY <1>3 DEF PassStep
  <2>2. ASSUME InRetry', NEW name \in Layers, Outside("retry", name), Index(name) < at + 1 \/ seen # <<>>
        PROVE  LetsAgain(name)'
    BY <1>1, <1>3, <2>2, PassPassed
  <2> QED BY <1>1, <2>1, <2>2 DEF Passed, PassedForGood
<1>4. CASE RefuseStep
  <2>1. /\ client' = client /\ at' = at /\ reqs' = reqs /\ mark' = mark /\ seen' = seen
        /\ by' = chain[at] /\ changed' = changed /\ (expired' <=> expired) /\ (enabled' <=> enabled)
    BY <1>4 DEF RefuseStep, SameVisit
  <2>2. Base' = Base /\ (InRetry' <=> InRetry)
    BY <1>1, <2>1 DEF Base, InRetry
  <2>3. PassedForGood'
    BY <1>1, <1>4, <2>1, RefusePassed DEF PassedForGood
  <2> QED BY <1>1, <1>2, <2>1, <2>2, <2>3 DEF Passed
<1>5. CASE ForwardStep
  <2>1. /\ client' = client /\ at = Upstream /\ at' = at /\ (InRetry' <=> InRetry)
        /\ Base'.path = Base.path /\ Base'.cred = Base.cred /\ Base'.xff = Base.xff
    BY <1>5, ForwardKinds, MarkedFields
  <2>2. /\ by' \in {"transport", "upstream"} /\ changed' = changed
        /\ (expired' <=> expired) /\ (enabled' <=> enabled)
    BY <1>5, <2>1, Typed DEF ForwardStep, Forward, ForwardFails, Answers
  <2>3. \A name \in Layers : Index(name) < at
    BY <2>1, IndexFacts, Typed DEF Upstream
  <2> QED BY <1>1, <1>2, <2>1, <2>2, <2>3 DEF Passed, PassedForGood
<1>6. CASE RetryAgain
  <2>1. /\ client' = client /\ at' = Rt + 1 /\ InRetry /\ seen' = seen /\ going' = "in"
        /\ "retry" \in Layers
    BY <1>6 DEF RetryAgain, Again, Retried, Rt, InRetry
  <2>2. Base' = Base /\ Rt \in Nat
    BY <1>6, <2>1, RetryRequests, RtType
  <2>3. \A name \in Layers : Outside("retry", name) => ~(Index(name) < Rt + 1)
    BY <2>2, IndexFacts, Typed DEF Outside, Rt
  <2>4. /\ changed \subseteq changed' /\ (enabled' <=> enabled)
        /\ "jwt" \in Layers /\ expired' => expired \/ "jwt" \in changed'
    <3>1. changed \subseteq changed' /\ (enabled' <=> enabled)
      BY <1>6 DEF RetryAgain
    <3>2. expired' # expired => "jwt" \in changed'
      BY <1>6 DEF RetryAgain
    <3> QED BY <3>1, <3>2
  <2> QED BY <1>1, <1>2, <2>1, <2>2, <2>3, <2>4 DEF Passed, PassedForGood
<1>7. CASE Answered \/ SetEnabled \/ UNCHANGED vars
  <2>1. /\ client' = client /\ at' = at /\ reqs' = reqs /\ mark' = mark /\ seen' = seen
        /\ by' = by /\ status' = status /\ (expired' <=> expired)
        /\ (going' \in {"out", "over"} => going \in {"out", "over"})
    BY <1>7 DEF Answered, SetEnabled, vars
  <2>4. changed \subseteq changed' /\ (enabled' => enabled \/ "maintenance" \in changed')
    BY <1>7 DEF Answered, SetEnabled, vars
  <2>2. Base' = Base /\ (InRetry' <=> InRetry)
    BY <1>1, <2>1 DEF Base, InRetry
  <2>3. PassedForGood'
    BY <1>1, <2>1, <2>4 DEF Passed, PassedForGood
  <2> QED BY <1>1, <1>2, <2>1, <2>2, <2>3, <2>4 DEF Passed
<1>8. CASE Follow
  <2>1. seen' = <<>> /\ at' = 1
    BY <1>8 DEF Follow, Visit
  <2> QED BY <1>1, <2>1, NotYetInRetry DEF Passed, PassedForGood
<1> QED BY <1>3, <1>4, <1>5, <1>6, <1>7, <1>8, EveryStep DEF StepKinds

\* A request that the upstream has been asked to answer is not refused on a
\* later attempt, but for the reasons that are listed (auth.go:29-49, jwt.go:52-70,
\* redirecthttps.go:46-55, allowlist.go:48-51, requestsize.go:45-61, ipfilter.go:60-81).
THEOREM PassesForGood == Spec => []PassedForGood
<1>1. Passed => PassedForGood
  BY DEF Passed
<1> QED BY <1>1, InitType, StepType, InitFresh, StepFresh, InitIds, StepIds, InitAlike, StepAlike,
           InitProto, StepProto, InitPassed, StepPassed, PTL DEF Spec
=============================================================================
